---------------------------- MODULE AccessControl ----------------------------
(***************************************************************************)
(* The access control list: the users and their rules, the connections     *)
(* that are attached to users, and the config file that ACL SAVE writes    *)
(* and that ACL LOAD and the start of the server read.                     *)
(*                                                                         *)
(* A *User is an object of its own, which the list and the connections     *)
(* both point to: object maps an identity to the User, users is the list.  *)
(* UsersMutex is held for writing by AUTH, HELLO AUTH, SETUSER, DELUSER    *)
(* and LOAD, whose handlers are therefore one action each; SAVE holds it   *)
(* for reading over several writes to the file, and is three actions.      *)
(*                                                                         *)
(* The order of a user's entries, and how often one is repeated, decide    *)
(* nothing: the lists of entries and passwords are sets.                   *)
(***************************************************************************)
EXTENDS Naturals, Sequences, FiniteSets, SequencesExt

CONSTANTS
    Conn,          \* the connections
    Username,      \* the user names, default among them
    default,       \* the name of the default user
    Secret,        \* the passwords that clients send
    Item,          \* the categories, commands and patterns that rules name
    RequirePass,   \* config.RequirePass
    Password,      \* config.Password
    Rules,         \* the rules of an ACL SETUSER, as sequences of tokens
    Files,         \* what the ACL config file holds when written by hand
    NoUser,        \* no user
    MaxObjects,    \* bounds the User objects that are alive at once
    MaxAclOps      \* bounds the ACL commands

Id == 1..MaxObjects
All == "*"
Alias == "all"

(* What a list of a user may hold.                                         *)
Entry == Item \union {All, Alias}

ASSUME AccessControlAssumption ==
    /\ default \in Username
    /\ Password \in Secret
    /\ RequirePass \in BOOLEAN
    /\ MaxObjects \in Nat \ {0}
    /\ MaxAclOps \in Nat
    /\ NoUser \notin Id

VARIABLES
    object,     \* the User objects
    users,      \* acl.Users, the identities of the users in the list
    conns,      \* acl.Connections: the user, and whether it is authenticated
    cut,        \* the connections whose read deadline has been moved to the past
    globs,      \* acl.GlobPatterns, the compiled patterns
    file,       \* the users in the config file; empty when it was truncated
    saving,     \* the connections in an ACL SAVE, and how far they are
    touched,    \* the objects that SETUSER changed since they were normalised
    untidy,     \* the users of the file that were not normalised when written
    uncompiled, \* the objects that LOAD changed since patterns were compiled
    ops         \* the number of ACL commands so far

accessVars == <<object, users, conns, cut, globs, file, saving, touched, untidy,
          uncompiled, ops>>

-----------------------------------------------------------------------------
(* A user and its rules.                                                   *)

Lists == {"IncludedCategories", "ExcludedCategories", "IncludedCommands",
          "ExcludedCommands", "IncludedReadKeys", "IncludedWriteKeys",
          "IncludedPubSubChannels", "ExcludedPubSubChannels"}

PasswordType == {"plaintext", "SHA256"}

User ==
    [Username : Username, Enabled : BOOLEAN, NoPassword : BOOLEAN, NoKeys : BOOLEAN,
     Passwords : SUBSET [PasswordType : PasswordType, PasswordValue : Secret],
     entries : [Lists -> SUBSET Entry]]

PasswordValue(type, secret) == [PasswordType |-> type, PasswordValue |-> secret]

CreateUser(username) ==
    [Username |-> username, Enabled |-> TRUE, NoPassword |-> FALSE, NoKeys |-> FALSE,
     Passwords |-> {}, entries |-> [l \in Lists |-> {}]]

(* "*" is dropped beside any other entry.                                  *)
RemoveDuplicateEntries(entries) ==
    LET named == {IF e = Alias THEN All ELSE e : e \in entries}
    IN  IF named = {All} THEN named ELSE named \ {All}

OrAll(entries) == IF entries = {} THEN {All} ELSE entries

Deduplicated(user, l) == RemoveDuplicateEntries(user.entries[l])

Included(user, l, excluded) ==
    IF All \in Deduplicated(user, excluded) THEN {} ELSE OrAll(Deduplicated(user, l))

(* List l of a user, normalised.                                           *)
Normal(user, l) ==
    CASE l = "IncludedCategories" -> Included(user, l, "ExcludedCategories")
      [] l = "IncludedCommands" -> Included(user, l, "ExcludedCommands")
      [] l = "IncludedPubSubChannels" -> Included(user, l, "ExcludedPubSubChannels")
      [] l \in {"IncludedReadKeys", "IncludedWriteKeys"} ->
            IF user.NoKeys THEN Deduplicated(user, l) ELSE OrAll(Deduplicated(user, l))
      [] OTHER -> Deduplicated(user, l)

Normalise(user) == [user EXCEPT !.entries = [l \in Lists |-> Normal(user, l)]]

Put(user, lists, entries) ==
    [user EXCEPT !.entries = [l \in Lists |-> IF l \in lists THEN entries ELSE @[l]]]
Add(user, lists, entry) ==
    [user EXCEPT !.entries =
        [l \in Lists |-> IF l \in lists THEN @[l] \union {entry} ELSE @[l]]]

Keys == {"IncludedReadKeys", "IncludedWriteKeys"}

(* What the first pass of UpdateUser does with one token of the rules.     *)
ParseToken(user, t) ==
    CASE t.rule = "on" -> [user EXCEPT !.Enabled = TRUE]
      [] t.rule = "off" -> [user EXCEPT !.Enabled = FALSE]
      [] t.rule = ">" -> [user EXCEPT !.NoPassword = FALSE,
                            !.Passwords = @ \union {PasswordValue("plaintext", t.arg)}]
      [] t.rule = "#" -> [user EXCEPT !.NoPassword = FALSE,
                            !.Passwords = @ \union {PasswordValue("SHA256", t.arg)}]
      [] t.rule = "<" -> [user EXCEPT !.Passwords = @ \ {PasswordValue("plaintext", t.arg)}]
      [] t.rule = "!" -> [user EXCEPT !.Passwords = @ \ {PasswordValue("SHA256", t.arg)}]
      [] t.rule = "nocommands" -> Put(user, {"ExcludedCategories", "ExcludedCommands"}, {All})
      [] t.rule = "allCategories" -> Put(user, {"IncludedCategories"}, {All})
      [] t.rule = "+@" -> Add(user, {"IncludedCategories"}, t.arg)
      [] t.rule = "-@" -> Add(user, {"ExcludedCategories"}, t.arg)
      [] t.rule = "allKeys" -> [Put(user, Keys, {All}) EXCEPT !.NoKeys = FALSE]
      [] t.rule = "~" -> [Add(user, Keys, t.arg) EXCEPT !.NoKeys = FALSE]
      [] t.rule = "%R~" -> [Add(user, {"IncludedReadKeys"}, t.arg) EXCEPT !.NoKeys = FALSE]
      [] t.rule = "%W~" -> [Add(user, {"IncludedWriteKeys"}, t.arg) EXCEPT !.NoKeys = FALSE]
      [] t.rule = "allChannels" -> Put(user, {"IncludedPubSubChannels"}, {All})
      [] t.rule = "+&" -> Add(user, {"IncludedPubSubChannels"}, t.arg)
      [] t.rule = "-&" -> Add(user, {"ExcludedPubSubChannels"}, t.arg)
      [] t.rule = "allCommands" -> Put(Put(user, {"IncludedCommands"}, {All}), {"ExcludedCommands"}, {})
      [] t.rule = "+" -> Add(user, {"IncludedCommands"}, t.arg)
      [] t.rule = "-" -> Add(user, {"ExcludedCommands"}, t.arg)
      [] OTHER -> user

ParseNoPassword(user, t) ==
    IF t.rule = "nopass"
    THEN [user EXCEPT !.Passwords = {}, !.NoPassword = TRUE] ELSE user

(* What the last pass of UpdateUser does: the rules that take rights away. *)
ParseReset(user, t) ==
    CASE t.rule = "resetpass" -> [user EXCEPT !.Passwords = {}, !.NoPassword = FALSE]
      [] t.rule = "nocommands" ->
            Put(Put(user, {"IncludedCommands", "IncludedCategories"}, {}),
                {"ExcludedCommands", "ExcludedCategories"}, {All})
      [] t.rule = "nokeys" -> [Put(user, Keys, {}) EXCEPT !.NoKeys = TRUE]
      [] t.rule = "resetchannels" ->
            Put(Put(user, {"IncludedPubSubChannels"}, {}), {"ExcludedPubSubChannels"}, {All})
      [] OTHER -> user

(* The passes of UpdateUser over the rules, one token after the other.     *)
Parse(pass, user, t) ==
    CASE pass = "rules" -> ParseToken(user, t)
      [] pass = "nopass" -> ParseNoPassword(user, t)
      [] pass = "reset" -> ParseReset(user, t)

Pass(pass, user, rules) ==
    LET parsed[n \in 0..Len(rules)] ==
            IF n = 0 THEN user ELSE Parse(pass, parsed[n - 1], rules[n])
    IN  parsed[Len(rules)]

UpdateUser(user, rules) ==
    Pass("reset", Pass("nopass", Pass("rules", user, rules), rules), rules)

MergeUnnormalised(user, new) ==
    [user EXCEPT !.Enabled = new.Enabled, !.NoKeys = new.NoKeys,
                 !.NoPassword = new.NoPassword, !.Passwords = @ \union new.Passwords,
                 !.entries = [l \in Lists |-> @[l] \union new.entries[l]]]
Merge(user, new) ==
    Normalise([user EXCEPT !.Enabled = new.Enabled, !.NoKeys = new.NoKeys,
                           !.NoPassword = new.NoPassword,
                           !.Passwords = @ \union new.Passwords,
                           !.entries = [l \in Lists |-> @[l] \union new.entries[l]]])

Replace(user, new) == [new EXCEPT !.Username = user.Username]

-----------------------------------------------------------------------------
(* The list of users, the patterns and the start of the server.            *)

Named(list, objects, username) ==
    {i \in DOMAIN list : objects[list[i]].Username = username}
First(list, objects, username) ==
    list[CHOOSE i \in Named(list, objects, username) :
            \A j \in Named(list, objects, username) : i <= j]
Listed(username) == Named(users, object, username) # {}
Find(username) == First(users, object, username)

Attached == {conns[c].user : c \in {d \in Conn : conns[d].user # NoUser}}
Unused(list) == Id \ (Range(list) \union Attached)
NewId(list) == CHOOSE id \in Unused(list) : TRUE

(* slices.DeleteFunc                                                       *)
Without(list, gone) ==
    LET kept[n \in 0..Len(list)] ==
            IF n = 0 THEN <<>>
            ELSE IF list[n] \in gone THEN kept[n - 1]
            ELSE Append(kept[n - 1], list[n])
    IN  kept[Len(list)]

(* The patterns that AuthorizeConnection looks up for a user.              *)
Patterns(user) ==
    UNION {user.entries[l] : l \in Keys \union {"IncludedPubSubChannels",
                                                "ExcludedPubSubChannels"}}
CompileGlobs(list, objects) ==
    globs' = globs \union UNION {Patterns(objects[id]) : id \in Range(list)}

DefaultUser ==
    IF RequirePass
    THEN [CreateUser(default) EXCEPT !.Passwords = {PasswordValue("plaintext", Password)}]
    ELSE CreateUser(default)

(* The users that NewACL makes of the config file.                         *)
StartUsers(saved) ==
    LET loaded == IF \E i \in DOMAIN saved : saved[i].Username = default
                  THEN saved ELSE <<DefaultUser>> \o saved
    IN  [i \in DOMAIN loaded |-> Normalise(loaded[i])]

(* A file of users, none of them named twice.                              *)
IsFile(saved) ==
    /\ saved \in Seq(User)
    /\ \A i, j \in DOMAIN saved : saved[i].Username = saved[j].Username => i = j
    /\ Len(StartUsers(saved)) <= MaxObjects

(* A token of the rules names a password or an item, which may be "all".   *)
IsRules(rules) ==
    /\ rules \in Seq(Range(rules))
    /\ \A n \in DOMAIN rules :
          /\ rules[n].rule \in {">", "#"} => rules[n].arg \in Secret
          /\ rules[n].rule \in {"+@", "-@", "~", "%R~", "%W~", "+&", "-&", "+", "-"}
                => rules[n].arg \in Entry

ASSUME InputsAssumption ==
    /\ \A saved \in Files : IsFile(saved)
    /\ \A rules \in Rules : IsRules(rules)

(* NewACL, on a file that holds the users saved.                           *)
StartWith(saved) ==
    LET start == StartUsers(saved)
    IN  /\ object' = [id \in Id |-> IF id \in DOMAIN start THEN start[id] ELSE NoUser]
        /\ users' = [i \in DOMAIN start |-> i]
        /\ globs' = UNION {Patterns(start[i]) : i \in DOMAIN start}
        /\ conns' = [c \in Conn |-> [user |-> NoUser, authenticated |-> FALSE]]
        /\ cut' = {} /\ saving' = [c \in Conn |-> "no"]
        /\ touched' = {} /\ uncompiled' = {}

AccessInit ==
    /\ file \in Files
    /\ object = [id \in Id |-> IF id \in DOMAIN StartUsers(file) THEN StartUsers(file)[id]
                               ELSE NoUser]
    /\ users = [i \in DOMAIN StartUsers(file) |-> i]
    /\ globs = UNION {Patterns(StartUsers(file)[i]) : i \in DOMAIN StartUsers(file)}
    /\ conns = [c \in Conn |-> [user |-> NoUser, authenticated |-> FALSE]]
    /\ cut = {} /\ saving = [c \in Conn |-> "no"]
    /\ touched = {} /\ uncompiled = {}
    /\ untidy = {file[i].Username : i \in DOMAIN file}
    /\ ops = 0

-----------------------------------------------------------------------------
(* Connections.                                                            *)

Connected(c) == conns[c].user # NoUser
Attach(c, id, authenticated) ==
    conns' = [conns EXCEPT ![c] = [user |-> id, authenticated |-> authenticated]]

(* LockUsers: no SAVE holds the lock for reading.                          *)
Unlocked == \A c \in Conn : saving[c] = "no"

(* An ACL command from a connection that is not in another command.        *)
AclCommand == ops < MaxAclOps /\ ops' = ops + 1

RegisterConnection(c) ==
    /\ ~Connected(c) /\ Unlocked
    /\ Attach(c, Find(default), object[Find(default)].NoPassword)
    /\ UNCHANGED <<object, users, cut, globs, file, saving, touched, untidy, uncompiled, ops>>

(* The connection ends: its client leaves, or its read deadline has passed. *)
Close(c) ==
    /\ Connected(c) /\ saving[c] = "no"
    /\ Attach(c, NoUser, FALSE)
    /\ cut' = cut \ {c}
    /\ UNCHANGED <<object, users, globs, file, saving, touched, untidy, uncompiled, ops>>

Accepts(user, secret) ==
    /\ user.Enabled
    /\ \/ user.NoPassword
       \/ \E type \in {"plaintext", "SHA256"} : PasswordValue(type, secret) \in user.Passwords

(* AUTH and HELLO AUTH that succeed; one that fails changes nothing. A     *)
(* connection that was cut may have sent the command before.               *)
AuthenticateConnection(c, username, secret) ==
    /\ Connected(c) /\ Unlocked
    /\ Listed(username) /\ Accepts(object[Find(username)], secret)
    /\ Attach(c, Find(username), TRUE)
    /\ UNCHANGED <<object, users, cut, globs, file, saving, touched, untidy, uncompiled, ops>>

-----------------------------------------------------------------------------
(* The commands that change users.                                         *)

(* A user that exists is updated in place, and is not normalised.          *)
SetUserExisting(username, rules) ==
    LET objects == [object EXCEPT ![Find(username)] = UpdateUser(@, rules)]
    IN  /\ Listed(username)
        /\ object' = objects
        /\ CompileGlobs(users, objects)
        /\ touched' = touched \union {Find(username)}
        /\ UNCHANGED users

SetUserNew(username, rules) ==
    LET id == NewId(users)
        objects == [object EXCEPT ![id] = Normalise(UpdateUser(CreateUser(username), rules))]
    IN  /\ ~Listed(username) /\ Unused(users) # {}
        /\ object' = objects
        /\ users' = Append(users, id)
        /\ CompileGlobs(users', objects)
        /\ touched' = touched \ {id}

SetUserUnlocked(username, rules) ==
    /\ AclCommand
    /\ SetUserExisting(username, rules) \/ SetUserNew(username, rules)
    /\ uncompiled' = uncompiled \ Range(users')
    /\ UNCHANGED <<conns, cut, file, saving, untidy>>
SetUser(username, rules) ==
    /\ AclCommand /\ Unlocked
    /\ SetUserExisting(username, rules) \/ SetUserNew(username, rules)
    /\ uncompiled' = uncompiled \ Range(users')
    /\ UNCHANGED <<conns, cut, file, saving, untidy>>

DeleteUser(usernames) ==
    LET deleted == {u \in usernames \ {default} : Listed(u)}
        Gone(id) == object[id].Username \in deleted
    IN  /\ AclCommand /\ Unlocked
        /\ cut' = cut \union {c \in Conn : Connected(c) /\ Gone(conns[c].user)}
        /\ users' = Without(users, {id \in Range(users) : Gone(id)})
        /\ UNCHANGED <<object, conns, globs, file, saving, touched, untidy, uncompiled>>

LoadUserAnew(mode, acc, read) ==
    LET new == Normalise(read)
        fresh == NewId(acc.users)
    IN  [acc EXCEPT !.object[fresh] = new, !.tidied = @ \union {fresh},
                    !.users = Append(SelectSeq(@, LAMBDA id :
                                acc.object[id].Username # read.Username), fresh)]

(* What LOAD does with one user of the file: acc holds the list, the       *)
(* objects, and those that are normalised now.                             *)
LoadUser(mode, acc, read) ==
    LET new == Normalise(read)
        id == First(acc.users, acc.object, read.Username)
        fresh == NewId(acc.users)
    IN  IF Named(acc.users, acc.object, read.Username) # {}
        THEN [acc EXCEPT
                !.object[id] = IF mode = "merge" THEN Merge(@, new) ELSE Replace(@, new),
                !.tidied = @ \union {id}]
        ELSE [acc EXCEPT !.object[fresh] = new, !.users = Append(@, fresh),
                         !.tidied = @ \union {fresh}]

(* What it has done with all of them, one after the other.                 *)
Loaded(mode) ==
    LET loaded[n \in 0..Len(file)] ==
            IF n = 0 THEN [users |-> users, object |-> object, tidied |-> {}]
            ELSE LoadUser(mode, loaded[n - 1], file[n])
    IN  loaded[Len(file)]

(* A file that was truncated cannot be decoded: LOAD fails.                *)
LoadFile(mode) ==
    LET result == Loaded(mode)
    IN  /\ AclCommand /\ Unlocked
        /\ file # <<>>
        /\ Cardinality(Unused(users)) >= Len(file)
        /\ object' = result.object
        /\ users' = result.users
        /\ touched' = touched \ result.tidied
        /\ uncompiled' = uncompiled \union result.tidied
        /\ UNCHANGED <<conns, cut, globs, file, saving, untidy>>

-----------------------------------------------------------------------------
(* ACL SAVE: the file is opened and truncated, written, and synced.        *)

Saving(c, from, to) ==
    /\ saving[c] = from
    /\ saving' = [saving EXCEPT ![c] = to]
    /\ UNCHANGED <<object, users, conns, cut, globs, touched, uncompiled>>

SaveOpen(c) ==
    /\ Connected(c) /\ AclCommand
    /\ Saving(c, "no", "opened")
    /\ file' = <<>> /\ untidy' = {}

SaveWrite(c) ==
    /\ Saving(c, "opened", "written")
    /\ file' = [i \in DOMAIN users |-> object[users[i]]]
    /\ untidy' = {object[id].Username : id \in touched \intersect Range(users)}
    /\ UNCHANGED ops

SaveSync(c) ==
    /\ Saving(c, "written", "no")
    /\ UNCHANGED <<file, untidy, ops>>

(* The file is written by hand, and not beside a SAVE, for LOAD to read.   *)
Edit ==
    /\ AclCommand /\ Unlocked
    /\ file' \in Files
    /\ untidy' = {file'[i].Username : i \in DOMAIN file'}
    /\ UNCHANGED <<object, users, conns, cut, globs, saving, touched, uncompiled>>

(* The process ends, in a SAVE perhaps, and starts again.                  *)
Restart ==
    /\ AclCommand
    /\ StartWith(file)
    /\ UNCHANGED <<file, untidy>>

AccessNext ==
    \/ \E c \in Conn :
        \/ RegisterConnection(c) \/ Close(c)
        \/ \E username \in Username, secret \in Secret :
                AuthenticateConnection(c, username, secret)
        \/ SaveOpen(c) \/ SaveWrite(c) \/ SaveSync(c)
    \/ \E username \in Username, rules \in Rules : SetUser(username, rules)
    \/ \E usernames \in SUBSET Username : DeleteUser(usernames)
    \/ \E mode \in {"merge", "replace"} : LoadFile(mode)
    \/ Edit
    \/ Restart

AccessSpec == AccessInit /\ [][AccessNext]_accessVars

-----------------------------------------------------------------------------
(* Properties.                                                             *)

(* A user in the list or attached to a connection, deleted since perhaps,  *)
(* is a User.                                                              *)
AccessTypeOK ==
    /\ object \in [Id -> User \union {NoUser}] /\ users \in Seq(Id)
    /\ conns \in [Conn -> [user : Id \union {NoUser}, authenticated : BOOLEAN]]
    /\ \A id \in Range(users) \union Attached : object[id] \in User
    /\ touched \subseteq Id /\ uncompiled \subseteq Id
    /\ cut \subseteq Conn /\ ops \in 0..MaxAclOps
    /\ saving \in [Conn -> {"no", "opened", "written"}]

(* SETUSER, DELUSER, LOAD and the start of the server leave the default    *)
(* user in the list, which RegisterConnection and AUTH index without a     *)
(* test, and no name in it twice, on which the searches by name rely.      *)
OneUserPerName ==
    /\ \A i, j \in DOMAIN users :
          object[users[i]].Username = object[users[j]].Username => i = j
    /\ Listed(default)

(* A connection that is not cut is attached to a user in the list, so that *)
(* SETUSER and LOAD change the rules that it runs under, and DELUSER ends  *)
(* every connection of the users that it deletes.                          *)
ConnectionsFollowList ==
    \A c \in Conn : Connected(c) => c \in cut \/ conns[c].user \in Range(users)

(* AuthorizeConnection calls Match on acl.GlobPatterns[pattern], which     *)
(* panics on a pattern that was not compiled: the patterns of every user   *)
(* that is listed or attached are compiled, but for users that LOAD has    *)
(* changed, which does not compile them, and no SETUSER found listed       *)
(* since.                                                                  *)
PatternsCompiled ==
    \A id \in (Range(users) \union Attached) \ uncompiled :
        Patterns(object[id]) \subseteq globs

(* The list of users, the connections and the patterns fit together.       *)
UsersConsistent ==
    AccessTypeOK /\ OneUserPerName /\ ConnectionsFollowList /\ PatternsCompiled

(* SAVEs run beside one another under the read lock, each truncating what  *)
(* the others wrote: when the last one ends the file holds the users, as   *)
(* they are then.                                                          *)
SavedIsCurrent ==
    [][~Unlocked /\ Unlocked' /\ ops' = ops =>
            file' = [i \in DOMAIN users |-> object[users[i]]]]_accessVars

(* A server that starts from a file that SAVE wrote has every user that    *)
(* was in it, with the same rules, but for those that SETUSER changed in   *)
(* place before the SAVE, which NewACL normalises.                         *)
RestartRestoresUsers ==
    [][Restart => \A i \in DOMAIN file : file[i].Username \notin untidy =>
            /\ Named(users', object', file[i].Username) # {}
            /\ object'[First(users', object', file[i].Username)] = file[i]]_accessVars
=============================================================================
