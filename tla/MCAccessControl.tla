-------------------------- MODULE MCAccessControl --------------------------
(* Rules that widen, narrow and reset what a user may do.                  *)
EXTENDS AccessControl

CONSTANTS alice, key, pw

Rule(r) == [rule |-> r, arg |-> NoUser]
RuleFor(r, a) == [rule |-> r, arg |-> a]

mcRules == {
    <<Rule("off"), RuleFor(">", pw), RuleFor("+@", Alias), RuleFor("-@", key),
      RuleFor("%R~", key)>>,
    <<Rule("nopass"), RuleFor("~", key), RuleFor("+&", key), Rule("on"), Rule("nokeys"),
      RuleFor("#", pw), Rule("nocommands")>>,
    <<Rule("resetchannels"), Rule("allKeys"), RuleFor("+", key), RuleFor("-&", key),
      RuleFor("%W~", key), RuleFor("-", key)>>,
    <<Rule("allCategories"), Rule("allCommands"), Rule("allChannels"), Rule("resetpass"),
      RuleFor("<", pw), RuleFor("!", pw)>>}

(* No file, and one with a user that was written by hand.                  *)
mcFiles == {<<>>,
    <<Add(Add([CreateUser(alice) EXCEPT !.Passwords = {PasswordValue("SHA256", pw)}],
              {"IncludedReadKeys", "ExcludedCommands"}, All),
          {"IncludedReadKeys", "IncludedPubSubChannels"}, key)>>}
=============================================================================
