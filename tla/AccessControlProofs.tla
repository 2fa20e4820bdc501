------------------------- MODULE AccessControlProofs -------------------------
(***************************************************************************)
(* Proofs about AccessControl, for any users, rules, files, connections    *)
(* and any number of commands and restarts.                                *)
(*                                                                         *)
(* The first parts are about a user: normalising it twice is normalising   *)
(* it once, and the rules of an ACL SETUSER make a user of a user.  The    *)
(* next are about the list: searching it, replacing, appending and         *)
(* deleting in it, and LOAD, a recursion over the file that keeps names    *)
(* distinct.  Then follow the invariant IInv, one lemma per handler, and   *)
(* the three theorems.                                                     *)
(***************************************************************************)
EXTENDS AccessControl, NaturalsInduction, WellFoundedInduction,
        FiniteSetTheorems, TLAPS

-----------------------------------------------------------------------------
(* Induction, with a set in the place of a predicate.                      *)
LEMMA SetInduction ==
    ASSUME NEW S \in SUBSET Nat, 0 \in S, \A n \in Nat : n \in S => n + 1 \in S
    PROVE  S = Nat
  <1> DEFINE R == OpToRel(<, Nat)
             T == Nat \ S
  <1>1. SUFFICES ASSUME T # {} PROVE FALSE
    OBVIOUS
  <1>2. IsWellFoundedOn(R, Nat)
    BY NatLessThanWellFounded
  <1>3. \A x, y \in Nat : <<y, x>> \in R <=> y < x
    BY DEF OpToRel
  <1> HIDE DEF R
  <1>4. PICK x \in T : \A y \in T : ~(<<y, x>> \in R)
    <2>1. T \subseteq Nat
      OBVIOUS
    <2> HIDE DEF T
    <2> QED
      BY <1>1, <1>2, <2>1, WFMin
  <1>5. x # 0 /\ x - 1 \in Nat
    OBVIOUS
  <1>6. x - 1 \in S
    <2>1. x - 1 \in Nat /\ x \in Nat /\ x - 1 < x
      BY <1>5
    <2>2. <<x - 1, x>> \in R
      BY <1>3, <2>1
    <2> QED
      BY <1>4, <2>1, <2>2
  <1> QED
    BY <1>4, <1>5, <1>6

-----------------------------------------------------------------------------
(* Normalising.                                                            *)

LEMMA Deduplicating ==
    ASSUME NEW entries \in SUBSET Entry
    PROVE  LET D == RemoveDuplicateEntries(entries)
           IN  D \in SUBSET Entry /\ RemoveDuplicateEntries(D) = D
                 /\ RemoveDuplicateEntries(OrAll(D)) = OrAll(D)
                 /\ OrAll(D) \in SUBSET Entry /\ OrAll(OrAll(D)) = OrAll(D)
                 /\ RemoveDuplicateEntries({}) = {}
  <1> DEFINE named == {IF e = Alias THEN All ELSE e : e \in entries}
             D == RemoveDuplicateEntries(entries)
  <1>1. named \in SUBSET Entry /\ Alias \notin named
    BY DEF Entry, All, Alias
  <1>2. D = IF named = {All} THEN named ELSE named \ {All}
    BY DEF RemoveDuplicateEntries
  <1>3. D \in SUBSET Entry /\ Alias \notin D /\ (All \in D => D = {All})
    BY <1>1, <1>2
  <1>4. ASSUME NEW E \in SUBSET Entry, Alias \notin E, All \in E => E = {All}
        PROVE  RemoveDuplicateEntries(E) = E
    <2>1. {IF e = Alias THEN All ELSE e : e \in E} = E
      BY <1>4
    <2>2. QED
      BY <1>4, <2>1 DEF RemoveDuplicateEntries
  <1>5. OrAll(D) \in SUBSET Entry /\ Alias \notin OrAll(D)
        /\ (All \in OrAll(D) => OrAll(D) = {All}) /\ OrAll(OrAll(D)) = OrAll(D)
    BY <1>3 DEF OrAll, Entry, All, Alias
  <1>6. QED
    BY <1>3, <1>4, <1>5

LEMMA NormalTyped ==
    ASSUME NEW u \in User, NEW l \in Lists
    PROVE  Normal(u, l) \in SUBSET Entry
  <1>1. \A x \in Lists : Deduplicated(u, x) \in SUBSET Entry
    BY Deduplicating DEF User, Deduplicated
  <1>2. OrAll(Deduplicated(u, l)) \in SUBSET Entry
    BY <1>1 DEF OrAll, Entry
  <1>3. QED
    BY <1>1, <1>2 DEF Normal, Included

LEMMA NormalList ==
    ASSUME NEW u \in User, NEW v \in User, v.NoKeys = u.NoKeys,
           \A l \in Lists : v.entries[l] = Normal(u, l), NEW l \in Lists
    PROVE  Normal(v, l) = Normal(u, l)
  <1>1. \A x \in Lists : u.entries[x] \in SUBSET Entry
    BY DEF User
  <1>2. ASSUME NEW x \in {"ExcludedCategories", "ExcludedCommands", "ExcludedPubSubChannels"}
        PROVE  /\ Normal(u, x) = Deduplicated(u, x) /\ Normal(v, x) = Deduplicated(v, x)
               /\ Deduplicated(v, x) = Deduplicated(u, x)
    <2>1. x \in Lists
      BY DEF Lists
    <2>2. Normal(u, x) = Deduplicated(u, x) /\ Normal(v, x) = Deduplicated(v, x)
      BY DEF Normal
    <2>3. QED
      BY <1>1, <2>1, <2>2, Deduplicating DEF Deduplicated
  <1>3. ASSUME NEW x \in {"ExcludedCategories", "ExcludedCommands", "ExcludedPubSubChannels"},
               Normal(u, l) = Included(u, l, x), Normal(v, l) = Included(v, l, x)
        PROVE  Normal(v, l) = Normal(u, l)
    <2>1. Deduplicated(v, x) = Deduplicated(u, x)
      BY <1>2
    <2>2. CASE All \in Deduplicated(u, x)
      BY <1>3, <2>1, <2>2 DEF Included
    <2>3. CASE All \notin Deduplicated(u, x)
      <3>1. v.entries[l] = OrAll(Deduplicated(u, l))
        BY <1>3, <2>3 DEF Included
      <3>2. OrAll(Deduplicated(v, l)) = OrAll(Deduplicated(u, l))
        BY <1>1, <3>1, Deduplicating DEF Deduplicated
      <3>3. QED
        BY <1>3, <2>1, <2>3, <3>2 DEF Included
    <2>4. QED
      BY <2>2, <2>3
  <1>4. CASE l \in {"IncludedCategories", "IncludedCommands", "IncludedPubSubChannels"}
    <2>1. PICK x \in {"ExcludedCategories", "ExcludedCommands", "ExcludedPubSubChannels"} :
             Normal(u, l) = Included(u, l, x) /\ Normal(v, l) = Included(v, l, x)
      BY <1>4 DEF Normal
    <2>2. QED
      BY <1>3, <2>1
  <1>5. CASE l \in {"IncludedReadKeys", "IncludedWriteKeys"}
    <2>1. Normal(u, l) = IF u.NoKeys THEN Deduplicated(u, l) ELSE OrAll(Deduplicated(u, l))
      BY <1>5 DEF Normal
    <2>2. Normal(v, l) = IF u.NoKeys THEN Deduplicated(v, l) ELSE OrAll(Deduplicated(v, l))
      BY <1>5 DEF Normal
    <2>3. QED
      BY <1>1, <2>1, <2>2, Deduplicating DEF Deduplicated
  <1>6. CASE l \in {"ExcludedCategories", "ExcludedCommands", "ExcludedPubSubChannels"}
    BY <1>2, <1>6
  <1>7. QED
    BY <1>4, <1>5, <1>6 DEF Lists

(* A user that is normalised stays as it is when it is normalised again.   *)
LEMMA Normalising ==
    ASSUME NEW u \in User
    PROVE  /\ Normalise(u) \in User
           /\ Normalise(u).Username = u.Username
           /\ Normalise(Normalise(u)) = Normalise(u)
  <1> DEFINE v == Normalise(u)
             e == [l \in Lists |-> Normal(u, l)]
  <1>1. \A l \in Lists : Normal(u, l) \in SUBSET Entry
    BY NormalTyped
  <1>2. e \in [Lists -> SUBSET Entry]
    BY <1>1
  <1>3. v = [u EXCEPT !.entries = e]
    BY DEF Normalise
  <1> HIDE DEF v
  <1>4. v \in User /\ v.Username = u.Username /\ v.NoKeys = u.NoKeys /\ v.entries = e
    BY <1>2, <1>3 DEF User
  <1>5. \A l \in Lists : Normal(v, l) = Normal(u, l)
    BY <1>4, NormalList
  <1>6. [l \in Lists |-> Normal(v, l)] = e
    BY <1>5
  <1>7. Normalise(v) = [v EXCEPT !.entries = e]
    BY <1>6 DEF Normalise
  <1>8. [v EXCEPT !.entries = e] = v
    BY <1>4 DEF User
  <1>9. QED
    BY <1>4, <1>7, <1>8 DEF v
-----------------------------------------------------------------------------
(* The rules of an ACL SETUSER.                                            *)

LEMMA Putting ==
    ASSUME NEW u \in User, NEW lists, NEW entries \in SUBSET Entry
    PROVE  Put(u, lists, entries) \in User /\ Put(u, lists, entries).Username = u.Username
  <1> DEFINE e == [l \in Lists |-> IF l \in lists THEN entries ELSE u.entries[l]]
  <1>1. e \in [Lists -> SUBSET Entry]
    BY DEF User
  <1>2. Put(u, lists, entries) = [u EXCEPT !.entries = e]
    BY DEF Put, User
  <1> HIDE DEF e
  <1>3. QED
    BY <1>1, <1>2 DEF User

LEMMA Adding ==
    ASSUME NEW u \in User, NEW lists, NEW entry \in Entry
    PROVE  Add(u, lists, entry) \in User /\ Add(u, lists, entry).Username = u.Username
  <1> DEFINE e == [l \in Lists |-> IF l \in lists THEN u.entries[l] \union {entry}
                                   ELSE u.entries[l]]
  <1>1. e \in [Lists -> SUBSET Entry]
    BY DEF User
  <1>2. Add(u, lists, entry) = [u EXCEPT !.entries = e]
    BY DEF Add, User
  <1> HIDE DEF e
  <1>3. QED
    BY <1>1, <1>2 DEF User

LEMMA FlagChanged ==
    ASSUME NEW u \in User, NEW b \in BOOLEAN
    PROVE  /\ [u EXCEPT !.Enabled = b] \in User
           /\ [u EXCEPT !.Enabled = b].Username = u.Username
           /\ [u EXCEPT !.NoKeys = b] \in User
           /\ [u EXCEPT !.NoKeys = b].Username = u.Username
  BY DEF User

Token(t) ==
    /\ t.rule \in {">", "#"} => t.arg \in Secret
    /\ t.rule \in {"+@", "-@", "~", "%R~", "%W~", "+&", "-&", "+", "-"} => t.arg \in Entry

LEMMA TokenParsed ==
    ASSUME NEW u \in User, NEW t, Token(t)
    PROVE  ParseToken(u, t) \in User /\ ParseToken(u, t).Username = u.Username
  <1>1. {All} \in SUBSET Entry /\ {} \in SUBSET Entry
    BY DEF Entry
  <1>2. CASE t.rule \in {"on", "off"}
    <2>1. PICK b \in BOOLEAN : ParseToken(u, t) = [u EXCEPT !.Enabled = b]
      BY <1>2 DEF ParseToken
    <2>2. QED
      BY <2>1, FlagChanged
  <1>3. CASE t.rule \in {">", "#", "<", "!"}
    <2> DEFINE Given(ps) == \/ ParseToken(u, t) = [u EXCEPT !.Passwords = ps]
                            \/ ParseToken(u, t) = [u EXCEPT !.NoPassword = FALSE,
                                                            !.Passwords = ps]
    <2>1. \E type \in PasswordType : \/ Given(u.Passwords \ {PasswordValue(type, t.arg)})
                                    \/ /\ t.arg \in Secret
                                       /\ Given(u.Passwords \union {PasswordValue(type, t.arg)})
      <3>1. {"plaintext", "SHA256"} = PasswordType
        BY DEF PasswordType
      <3>2. t.rule = ">" => Given(u.Passwords \union {PasswordValue("plaintext", t.arg)})
        BY DEF ParseToken, User
      <3>3. t.rule = "#" => Given(u.Passwords \union {PasswordValue("SHA256", t.arg)})
        BY DEF ParseToken, User
      <3>4. t.rule = "<" => Given(u.Passwords \ {PasswordValue("plaintext", t.arg)})
        BY DEF ParseToken
      <3>5. t.rule = "!" => Given(u.Passwords \ {PasswordValue("SHA256", t.arg)})
        BY DEF ParseToken
      <3> HIDE DEF Given
      <3>6. QED
        BY <1>3, <3>1, <3>2, <3>3, <3>4, <3>5 DEF Token
    <2>2. PICK ps \in SUBSET [PasswordType : PasswordType, PasswordValue : Secret] : Given(ps)
      <3>1. \A type \in PasswordType :
               /\ u.Passwords \ {PasswordValue(type, t.arg)}
                     \in SUBSET [PasswordType : PasswordType, PasswordValue : Secret]
               /\ t.arg \in Secret => u.Passwords \union {PasswordValue(type, t.arg)}
                     \in SUBSET [PasswordType : PasswordType, PasswordValue : Secret]
        BY DEF User, PasswordValue
      <3> HIDE DEF Given
      <3>2. QED
        BY <2>1, <3>1
    <2>3. QED
      BY <2>2 DEF User
  <1>4. CASE t.rule \in {"nocommands", "allCategories", "allChannels"}
    BY <1>1, <1>4, Putting DEF ParseToken
  <1>5. CASE t.rule = "allCommands"
    BY <1>1, <1>5, Putting DEF ParseToken
  <1>6. CASE t.rule \in {"+@", "-@", "+&", "-&", "+", "-"}
    BY <1>6, Adding DEF ParseToken, Token
  <1>7. CASE t.rule = "allKeys"
    <2>1. Put(u, Keys, {All}) \in User /\ Put(u, Keys, {All}).Username = u.Username
      BY <1>1, Putting
    <2>2. ParseToken(u, t) = [Put(u, Keys, {All}) EXCEPT !.NoKeys = FALSE]
      BY <1>7 DEF ParseToken
    <2>3. QED
      BY <2>1, <2>2, FlagChanged
  <1>8. CASE t.rule \in {"~", "%R~", "%W~"}
    <2>1. t.arg \in Entry
      BY <1>8 DEF Token
    <2>2. PICK lists : ParseToken(u, t) = [Add(u, lists, t.arg) EXCEPT !.NoKeys = FALSE]
      BY <1>8 DEF ParseToken
    <2> DEFINE w == Add(u, lists, t.arg)
    <2>3. w \in User /\ w.Username = u.Username
      BY <2>1, Adding
    <2> HIDE DEF w
    <2>4. [w EXCEPT !.NoKeys = FALSE] \in User
          /\ [w EXCEPT !.NoKeys = FALSE].Username = u.Username
      BY <2>3, FlagChanged
    <2>5. QED
      BY <2>2, <2>4 DEF w
  <1>9. CASE t.rule \notin {"on", "off", ">", "#", "<", "!", "nocommands", "allCategories",
                            "allChannels", "allCommands", "+@", "-@", "+&", "-&", "+", "-",
                            "allKeys", "~", "%R~", "%W~"}
    BY <1>9 DEF ParseToken
  <1>10. QED
    BY <1>2, <1>3, <1>4, <1>5, <1>6, <1>7, <1>8, <1>9

LEMMA Parsed ==
    ASSUME NEW u \in User, NEW t, Token(t), NEW pass \in {"rules", "nopass", "reset"}
    PROVE  Parse(pass, u, t) \in User /\ Parse(pass, u, t).Username = u.Username
  <1>1. {All} \in SUBSET Entry /\ {} \in SUBSET Entry
    BY DEF Entry
  <1>2. CASE pass = "rules"
    BY <1>2, TokenParsed DEF Parse
  <1>3. CASE pass = "nopass"
    <2>1. CASE t.rule = "nopass"
      <3>1. Parse(pass, u, t) = [u EXCEPT !.Passwords = {}, !.NoPassword = TRUE]
        BY <1>3, <2>1 DEF Parse, ParseNoPassword
      <3>2. QED
        BY <3>1 DEF User
    <2>2. CASE t.rule # "nopass"
      BY <1>3, <2>2 DEF Parse, ParseNoPassword
    <2>3. QED
      BY <2>1, <2>2
  <1>4. CASE pass = "reset"
    <2>1. Parse(pass, u, t) = ParseReset(u, t)
      BY <1>4 DEF Parse
    <2>2. CASE t.rule = "resetpass"
      <3>1. Parse(pass, u, t) = [u EXCEPT !.Passwords = {}, !.NoPassword = FALSE]
        BY <2>1, <2>2 DEF ParseReset
      <3>2. QED
        BY <3>1 DEF User
    <2>3. CASE t.rule = "nocommands"
      BY <1>1, <2>1, <2>3, Putting DEF ParseReset
    <2>4. CASE t.rule = "nokeys"
      <3>1. Put(u, Keys, {}) \in User /\ Put(u, Keys, {}).Username = u.Username
        BY <1>1, Putting
      <3>2. Parse(pass, u, t) = [Put(u, Keys, {}) EXCEPT !.NoKeys = TRUE]
        BY <2>1, <2>4 DEF ParseReset
      <3>3. QED
        BY <3>1, <3>2, FlagChanged
    <2>5. CASE t.rule = "resetchannels"
      BY <1>1, <2>1, <2>5, Putting DEF ParseReset
    <2>6. CASE t.rule \notin {"resetpass", "nocommands", "nokeys", "resetchannels"}
      BY <2>1, <2>6 DEF ParseReset
    <2>7. QED
      BY <2>2, <2>3, <2>4, <2>5, <2>6
  <1>5. QED
    BY <1>2, <1>3, <1>4

(* A function exists that the recursion of Pass defines.                   *)
LEMMA PassRecursion ==
    ASSUME NEW pass, NEW u, NEW rules, NEW N \in Nat
    PROVE  LET next(f, n) == IF n = 0 THEN u ELSE Parse(pass, f[n - 1], rules[n])
           IN  \E f : f = [n \in 0..N |-> next(f, n)]
  <1> DEFINE next(f, n) == IF n = 0 THEN u ELSE Parse(pass, f[n - 1], rules[n])
             S == {m \in Nat : \E f : f = [n \in 0..m |-> next(f, n)]}
  <1>1. 0 \in S
    <2> DEFINE f == [n \in 0..0 |-> u]
    <2>1. f = [n \in 0..0 |-> next(f, n)]
      OBVIOUS
    <2> QED
      BY <2>1
  <1>2. ASSUME NEW m \in Nat, m \in S
        PROVE  m + 1 \in S
    <2>1. PICK f : f = [n \in 0..m |-> next(f, n)]
      BY <1>2
    <2> DEFINE g == [n \in 0..(m + 1) |-> IF n = m + 1 THEN next(f, n) ELSE f[n]]
    <2>2. ASSUME NEW n \in 0..(m + 1)
          PROVE  next(g, n) = IF n = m + 1 THEN next(f, n) ELSE f[n]
      <3>1. n # 0 => n - 1 \in 0..(m + 1) /\ n - 1 # m + 1 /\ g[n - 1] = f[n - 1]
        OBVIOUS
      <3>2. n # m + 1 => n \in 0..m
        OBVIOUS
      <3>3. n # m + 1 => f[n] = next(f, n)
        BY <2>1, <3>2
      <3> HIDE DEF g
      <3> QED
        BY <3>1, <3>3
    <2>3. g = [n \in 0..(m + 1) |-> next(g, n)]
      BY <2>2
    <2>4. \E h : h = [n \in 0..(m + 1) |-> next(h, n)]
      <3> HIDE DEF g, next
      <3> QED
        BY <2>3
    <2> QED
      BY SMTT(30), <2>4
  <1>3. S = Nat
    <2>1. S \in SUBSET Nat
      OBVIOUS
    <2> HIDE DEF S
    <2> QED
      BY <1>1, <1>2, <2>1, SetInduction
  <1> QED
    BY <1>3

LEMMA PassTyped ==
    ASSUME NEW u \in User, NEW rules, IsRules(rules), NEW pass \in {"rules", "nopass", "reset"}
    PROVE  Pass(pass, u, rules) \in User /\ Pass(pass, u, rules).Username = u.Username
  <1> DEFINE next(f, n) == IF n = 0 THEN u ELSE Parse(pass, f[n - 1], rules[n])
             f == CHOOSE g : g = [n \in 0..Len(rules) |-> next(g, n)]
             S == {m \in Nat : m \in 0..Len(rules)
                                  => f[m] \in User /\ f[m].Username = u.Username}
  <1>1. Len(rules) \in Nat /\ DOMAIN rules = 1..Len(rules)
    BY DEF IsRules
  <1>2. f = [n \in 0..Len(rules) |-> next(f, n)]
    BY <1>1, PassRecursion
  <1>3. Pass(pass, u, rules) = f[Len(rules)]
    BY Zenon DEF Pass
  <1> HIDE DEF f
  <1>4. \A n \in 0..Len(rules) : f[n] = next(f, n)
    <2> HIDE DEF next
    <2> QED
      BY <1>2
  <1>5. 0 \in S
    BY <1>1, <1>4
  <1>6. ASSUME NEW m \in Nat, m \in S
        PROVE  m + 1 \in S
    <2>1. CASE m + 1 \in 0..Len(rules)
      <3>1. m \in 0..Len(rules) /\ m + 1 \in DOMAIN rules
        BY <1>1, <2>1
      <3>2. f[m] \in User /\ f[m].Username = u.Username
        BY <1>6, <3>1
      <3>3. f[m + 1] = Parse(pass, f[m], rules[m + 1])
        BY <1>4, <2>1
      <3>4. Token(rules[m + 1])
        BY <3>1 DEF IsRules, Token
      <3>5. f[m + 1] \in User /\ f[m + 1].Username = u.Username
        <4> DEFINE w == f[m]
                   t == rules[m + 1]
        <4>1. w \in User /\ Token(t) /\ w.Username = u.Username
          BY <3>2, <3>4
        <4> HIDE DEF w, t
        <4>2. Parse(pass, w, t) \in User /\ Parse(pass, w, t).Username = u.Username
          BY <4>1, Parsed
        <4> QED
          BY <3>3, <4>2 DEF w, t
      <3>6. QED
        BY <3>5
    <2>2. QED
      BY <2>1
  <1>7. S = Nat
    <2>1. S \in SUBSET Nat
      OBVIOUS
    <2> HIDE DEF S
    <2> QED
      BY <1>5, <1>6, <2>1, SetInduction
  <1>8. Len(rules) \in S /\ Len(rules) \in 0..Len(rules)
    BY <1>1, <1>7
  <1>9. QED
    BY <1>3, <1>8

LEMMA UpdateTyped ==
    ASSUME NEW u \in User, NEW rules \in Rules
    PROVE  UpdateUser(u, rules) \in User /\ UpdateUser(u, rules).Username = u.Username
  BY InputsAssumption, PassTyped DEF UpdateUser

(* What ACL LOAD makes of a user that is in the file and in the list.      *)
LEMMA Merging ==
    ASSUME NEW u \in User, NEW new \in User
    PROVE  /\ Merge(u, new) \in User /\ Merge(u, new).Username = u.Username
           /\ Normalise(Merge(u, new)) = Merge(u, new)
  <1> DEFINE e == [l \in Lists |-> u.entries[l] \union new.entries[l]]
             p == u.Passwords \union new.Passwords
             w == [u EXCEPT !.Enabled = new.Enabled, !.NoKeys = new.NoKeys,
                            !.NoPassword = new.NoPassword, !.Passwords = p, !.entries = e]
  <1>1. e \in [Lists -> SUBSET Entry]
        /\ p \in SUBSET [PasswordType : PasswordType, PasswordValue : Secret]
    BY DEF User
  <1>2. Merge(u, new) = Normalise(w)
    BY DEF Merge
  <1> HIDE DEF e, p
  <1>3. w \in User /\ w.Username = u.Username
    BY <1>1 DEF User
  <1> HIDE DEF w
  <1>4. QED
    BY <1>2, <1>3, Normalising

LEMMA Replacing ==
    ASSUME NEW u \in User, NEW new \in User, new.Username = u.Username
    PROVE  Replace(u, new) = new
  BY DEF Replace, User

-----------------------------------------------------------------------------
(* The list of users.                                                      *)

Distinct(list, objects) ==
    \A i, j \in DOMAIN list :
        objects[list[i]].Username = objects[list[j]].Username => i = j

LEMMA Searching ==
    ASSUME NEW list \in Seq(Id), NEW objects, Distinct(list, objects), NEW username,
           Named(list, objects, username) # {}
    PROVE  /\ First(list, objects, username) \in Range(list)
           /\ objects[First(list, objects, username)].Username = username
  <1> DEFINE N == Named(list, objects, username)
             k == CHOOSE i \in N : \A j \in N : i <= j
  <1>1. PICK i \in DOMAIN list : objects[list[i]].Username = username
    BY DEF Named
  <1>2. N = {i} /\ i \in Nat
    BY <1>1 DEF Named, Distinct
  <1>3. First(list, objects, username) = list[k]
    BY DEF First
  <1> HIDE DEF N
  <1>4. k = i
    BY <1>2
  <1>5. QED
    BY <1>1, <1>3, <1>4 DEF Range

(* A user that is listed, searched by its name, is found.                  *)
LEMMA Found ==
    ASSUME NEW list \in Seq(Id), NEW objects, Distinct(list, objects), NEW i \in DOMAIN list
    PROVE  /\ Named(list, objects, objects[list[i]].Username) # {}
           /\ First(list, objects, objects[list[i]].Username) = list[i]
  <1> DEFINE N == Named(list, objects, objects[list[i]].Username)
             k == CHOOSE m \in N : \A j \in N : m <= j
  <1>1. N = {i} /\ i \in Nat
    BY DEF Named, Distinct
  <1>2. First(list, objects, objects[list[i]].Username) = list[k]
    BY DEF First
  <1> HIDE DEF N
  <1>3. k = i
    BY <1>1
  <1>4. QED
    BY <1>1, <1>2, <1>3 DEF N

(* A user that changes keeps its name.                                     *)
LEMMA ReplacedInList ==
    ASSUME NEW list \in Seq(Id), NEW objects, NEW new,
           \A id \in Id : new[id].Username = objects[id].Username
    PROVE  /\ Distinct(list, objects) => Distinct(list, new)
           /\ \A username : Named(list, new, username) = Named(list, objects, username)
  <1>1. \A i \in DOMAIN list : list[i] \in Id
    OBVIOUS
  <1>2. QED
    BY <1>1 DEF Distinct, Named

LEMMA AppendedToList ==
    ASSUME NEW list \in Seq(Id), NEW objects, Distinct(list, objects),
           NEW id \in Id, id \notin Range(list),
           NEW o, \A x \in Range(list) : o[x] = objects[x],
           Named(list, objects, o[id].Username) = {}
    PROVE  LET new == Append(list, id)
           IN  /\ new \in Seq(Id) /\ Range(new) = Range(list) \union {id}
               /\ Distinct(new, o)
               /\ \A username : Named(list, objects, username) # {}
                                    => Named(new, o, username) # {}
  <1> DEFINE new == Append(list, id)
  <1>1. new \in Seq(Id) /\ Len(new) = Len(list) + 1 /\ Len(list) \in Nat
        /\ DOMAIN list = 1..Len(list) /\ DOMAIN new = 1..(Len(list) + 1)
    OBVIOUS
  <1>2. new[Len(list) + 1] = id /\ \A i \in DOMAIN list : new[i] = list[i]
    OBVIOUS
  <1>3. \A i \in DOMAIN list : list[i] \in Range(list)
    BY DEF Range
  <1>4. \A i \in DOMAIN list : o[list[i]] = objects[list[i]]
    BY <1>3
  <1>5. \A i \in DOMAIN list : objects[list[i]].Username # o[id].Username
    BY DEF Named
  <1> HIDE DEF new
  <1>6. \A i \in DOMAIN new : i \in DOMAIN list \/ i = Len(list) + 1
    BY <1>1
  <1>7. \A i \in DOMAIN list : i \in DOMAIN new
    BY <1>1
  <1>8. Range(new) = Range(list) \union {id}
    <2>1. \A i \in DOMAIN new : new[i] \in Range(list) \union {id}
      BY <1>2, <1>6 DEF Range
    <2>2. Len(list) + 1 \in DOMAIN new
      BY <1>1
    <2>3. \A i \in DOMAIN list : list[i] \in Range(new)
      BY <1>2, <1>7 DEF Range
    <2>4. QED
      BY <1>2, <2>1, <2>2, <2>3 DEF Range
  <1>9. Distinct(new, o)
    <2>1. \A i \in DOMAIN list : o[new[i]] = objects[list[i]]
      BY <1>2, <1>4
    <2>2. new[Len(list) + 1] = id
      BY <1>2
    <2>3. QED
      BY <1>5, <1>6, <2>1, <2>2 DEF Distinct
  <1>10. ASSUME NEW username, Named(list, objects, username) # {}
         PROVE  Named(new, o, username) # {}
    <2>1. PICK i \in DOMAIN list : objects[list[i]].Username = username
      BY <1>10 DEF Named
    <2>2. QED
      BY <1>2, <1>4, <1>7, <2>1 DEF Named
  <1>11. QED
    BY <1>1, <1>8, <1>9, <1>10 DEF new

(* The identities are enough for a list of users with distinct names.      *)
LEMMA ListFits ==
    ASSUME NEW list \in Seq(Id), NEW objects, Distinct(list, objects)
    PROVE  Len(list) <= MaxObjects
  <1>1. MaxObjects \in Nat /\ Len(list) \in Nat
    BY AccessControlAssumption
  <1>2. IsFiniteSet(Id) /\ Cardinality(Id) = MaxObjects
    BY <1>1, FS_Interval DEF Id
  <1>3. IsFiniteSet(1..Len(list)) /\ Cardinality(1..Len(list)) = Len(list)
    <2>1. 1 \in Int /\ Len(list) \in Int
      BY <1>1
    <2>2. IsFiniteSet(1..Len(list)) /\ Cardinality(1..Len(list))
            = IF 1 > Len(list) THEN 0 ELSE Len(list) - 1 + 1
      BY <2>1, FS_Interval
    <2>3. QED
      BY <1>1, <2>2
  <1>4. list \in Injection(1..Len(list), Id)
    <2>1. list \in [1..Len(list) -> Id]
      OBVIOUS
    <2>2. \A i, j \in 1..Len(list) : list[i] = list[j] => i = j
      BY DEF Distinct
    <2>3. QED
      BY <2>1, <2>2 DEF Injection, IsInjective
  <1>5. QED
    BY <1>1, <1>2, <1>3, <1>4, FS_Injection

(* A function exists that the recursion of Without defines.                *)
KeptNext(list, gone, f, n) ==
    IF n = 0 THEN <<>>
    ELSE IF list[n] \in gone THEN f[n - 1]
    ELSE Append(f[n - 1], list[n])

LEMMA WithoutRecursion ==
    ASSUME NEW list, NEW gone, NEW N \in Nat
    PROVE  \E f : f = [n \in 0..N |-> KeptNext(list, gone, f, n)]
  <1> USE DEF KeptNext
  <1> DEFINE next(f, n) == KeptNext(list, gone, f, n)
             S == {m \in Nat : \E f : f = [n \in 0..m |-> next(f, n)]}
  <1>1. 0 \in S
    <2> DEFINE f == [n \in 0..0 |-> <<>>]
    <2>1. f = [n \in 0..0 |-> next(f, n)]
      OBVIOUS
    <2> QED
      BY <2>1
  <1>2. ASSUME NEW m \in Nat, m \in S
        PROVE  m + 1 \in S
    <2>1. PICK f : f = [n \in 0..m |-> next(f, n)]
      BY <1>2
    <2> DEFINE g == [n \in 0..(m + 1) |-> IF n = m + 1 THEN next(f, n) ELSE f[n]]
    <2>2. ASSUME NEW n \in 0..(m + 1)
          PROVE  next(g, n) = IF n = m + 1 THEN next(f, n) ELSE f[n]
      <3>1. n # 0 => n - 1 \in 0..(m + 1) /\ n - 1 # m + 1 /\ g[n - 1] = f[n - 1]
        OBVIOUS
      <3>2. n # m + 1 => n \in 0..m
        OBVIOUS
      <3>3. n # m + 1 => f[n] = next(f, n)
        BY <2>1, <3>2
      <3> HIDE DEF g
      <3> QED
        BY <3>1, <3>3
    <2>3. g = [n \in 0..(m + 1) |-> next(g, n)]
      BY <2>2
    <2>4. \E h : h = [n \in 0..(m + 1) |-> next(h, n)]
      <3> HIDE DEF g, next
      <3> QED
        BY <2>3
    <2> QED
      BY SMTT(30), <2>4
  <1>3. S = Nat
    <2>1. S \in SUBSET Nat
      OBVIOUS
    <2> HIDE DEF S
    <2> QED
      BY <1>1, <1>2, <2>1, SetInduction
  <1> QED
    BY <1>3

(* The users that are not deleted stay in the list, in their order.        *)
LEMMA Keeping ==
    ASSUME NEW list \in Seq(Id), NEW objects, Distinct(list, objects), NEW gone
    PROVE  /\ Without(list, gone) \in Seq(Id)
           /\ Range(Without(list, gone)) = Range(list) \ gone
           /\ Distinct(Without(list, gone), objects)
  <1> DEFINE f == CHOOSE g : g = [n \in 0..Len(list) |-> KeptNext(list, gone, g, n)]
             Kept(k, m) == /\ k \in Seq(Id) /\ Distinct(k, objects)
                           /\ \A id : id \in Range(k) <=>
                                 id \notin gone /\ \E i \in 1..m : id = list[i]
             S == {m \in Nat : m \in 0..Len(list) => Kept(f[m], m)}
  <1>1. Len(list) \in Nat /\ DOMAIN list = 1..Len(list)
    OBVIOUS
  <1>2. f = [n \in 0..Len(list) |-> KeptNext(list, gone, f, n)]
    BY <1>1, WithoutRecursion
  <1>3. Without(list, gone) = f[Len(list)]
    BY Zenon DEF Without, KeptNext
  <1> HIDE DEF f
  <1>4. \A n \in 0..Len(list) : f[n] = KeptNext(list, gone, f, n)
    BY <1>2
  <1>5. Kept(<<>>, 0)
    BY DEF Distinct, Range
  <1>6. 0 \in S
    <2> HIDE DEF Kept
    <2> QED
      BY <1>1, <1>4, <1>5 DEF KeptNext
  <1>7. ASSUME NEW m \in Nat, NEW k, Kept(k, m), m + 1 \in 1..Len(list)
        PROVE  /\ list[m + 1] \in gone => Kept(k, m + 1)
               /\ list[m + 1] \notin gone => Kept(Append(k, list[m + 1]), m + 1)
    <2>1. \A i : i \in 1..(m + 1) <=> i \in 1..m \/ i = m + 1
      OBVIOUS
    <2>2. CASE list[m + 1] \in gone
      BY <1>7, <2>1, <2>2
    <2>3. CASE list[m + 1] \notin gone
      <3> DEFINE new == Append(k, list[m + 1])
      <3>1. list[m + 1] \in Id /\ k \in Seq(Id)
        BY <1>1, <1>7
      <3>2. new \in Seq(Id) /\ DOMAIN new = 1..(Len(k) + 1) /\ DOMAIN k = 1..Len(k)
            /\ Len(k) \in Nat
        BY <3>1
      <3>3. new[Len(k) + 1] = list[m + 1] /\ \A i \in DOMAIN k : new[i] = k[i]
        BY <3>1
      <3> HIDE DEF new
      <3>4. \A i : i \in DOMAIN new <=> i \in DOMAIN k \/ i = Len(k) + 1
        BY <3>2
      <3>5. \A id : id \in Range(new) <=> id \in Range(k) \/ id = list[m + 1]
        BY <3>3, <3>4 DEF Range
      <3>6. \A i \in DOMAIN k : objects[k[i]].Username # objects[list[m + 1]].Username
        <4>1. SUFFICES ASSUME NEW i \in DOMAIN k,
                              objects[k[i]].Username = objects[list[m + 1]].Username
                       PROVE  FALSE
          OBVIOUS
        <4>2. k[i] \in Range(k)
          BY DEF Range
        <4>3. PICK j \in 1..m : k[i] = list[j]
          BY <1>7, <4>2
        <4>4. j \in DOMAIN list /\ m + 1 \in DOMAIN list /\ j # m + 1
          BY <1>1, <1>7
        <4>5. QED
          BY <4>1, <4>3, <4>4 DEF Distinct
      <3>7. Distinct(new, objects)
        BY <1>7, <3>3, <3>4, <3>6 DEF Distinct
      <3>8. Kept(new, m + 1)
        BY <1>7, <2>1, <2>3, <3>2, <3>5, <3>7
      <3>9. QED
        BY <2>3, <3>8 DEF new
    <2>4. QED
      BY <2>2, <2>3
  <1>8. ASSUME NEW m \in Nat, m \in S
        PROVE  m + 1 \in S
    <2> HIDE DEF Kept
    <2>1. CASE m + 1 \in 0..Len(list)
      <3>1. m \in 0..Len(list) /\ m + 1 \in 1..Len(list) /\ m + 1 # 0 /\ m + 1 - 1 = m
        BY <1>1, <2>1
      <3>2. f[m + 1] = IF list[m + 1] \in gone THEN f[m] ELSE Append(f[m], list[m + 1])
        BY <1>4, <2>1, <3>1 DEF KeptNext
      <3>3. Kept(f[m], m)
        BY <1>8, <3>1
      <3>4. Kept(f[m + 1], m + 1)
        BY <1>7, <3>1, <3>2, <3>3
      <3>5. QED
        BY <3>4
    <2>2. QED
      BY <2>1
  <1>9. S = Nat
    <2>1. S \in SUBSET Nat
      OBVIOUS
    <2> HIDE DEF S
    <2> QED
      BY <1>6, <1>8, <2>1, SetInduction
  <1>10. Kept(f[Len(list)], Len(list))
    <2>1. Len(list) \in S /\ Len(list) \in 0..Len(list)
      BY <1>1, <1>9
    <2> HIDE DEF Kept
    <2>2. QED
      BY <2>1
  <1>11. /\ Without(list, gone) \in Seq(Id) /\ Distinct(Without(list, gone), objects)
         /\ \A id : id \in Range(Without(list, gone)) <=>
                       id \notin gone /\ \E i \in DOMAIN list : id = list[i]
    BY <1>1, <1>3, <1>10
  <1>12. QED
    BY <1>11 DEF Range

-----------------------------------------------------------------------------
(* ACL LOAD.                                                               *)

LEMMA UnusedFinite ==
    ASSUME NEW list
    PROVE  IsFiniteSet(Unused(list)) /\ Cardinality(Unused(list)) \in Nat
  <1>1. IsFiniteSet(Id)
    BY AccessControlAssumption, FS_Interval DEF Id
  <1>2. Unused(list) \in SUBSET Id
    BY DEF Unused
  <1>3. IsFiniteSet(Unused(list))
    BY <1>1, <1>2, FS_Subset
  <1>4. QED
    BY <1>3, FS_CardinalityType

LEMMA UnusedLeft ==
    ASSUME NEW list, NEW new, NEW id, Range(new) \subseteq Range(list) \union {id}
    PROVE  Cardinality(Unused(new)) >= Cardinality(Unused(list)) - 1
  <1>1. /\ IsFiniteSet(Unused(list)) /\ Cardinality(Unused(list)) \in Nat
        /\ IsFiniteSet(Unused(new)) /\ Cardinality(Unused(new)) \in Nat
    BY UnusedFinite
  <1>2. Unused(list) \ {id} \in SUBSET Unused(new)
    BY DEF Unused
  <1>3. Cardinality(Unused(list) \ {id}) >= Cardinality(Unused(list)) - 1
        /\ Cardinality(Unused(list) \ {id}) \in Nat
    <2>1. IsFiniteSet(Unused(list) \ {id})
          /\ Cardinality(Unused(list) \ {id}) = IF id \in Unused(list)
                                                THEN Cardinality(Unused(list)) - 1
                                                ELSE Cardinality(Unused(list))
      BY <1>1, FS_RemoveElement
    <2>2. Cardinality(Unused(list) \ {id}) \in Nat
      BY <2>1, FS_CardinalityType
    <2>3. QED
      BY <1>1, <2>1, <2>2
  <1>4. Cardinality(Unused(list) \ {id}) <= Cardinality(Unused(new))
    BY <1>1, <1>2, FS_Subset
  <1>5. QED
    BY <1>1, <1>3, <1>4

LEMMA NewIdUnused ==
    ASSUME NEW list, Unused(list) # {}
    PROVE  NewId(list) \in Id /\ NewId(list) \notin Range(list)
           /\ NewId(list) \notin Attached
  <1>1. NewId(list) \in Unused(list)
    BY DEF NewId
  <1>2. QED
    BY <1>1 DEF Unused

(* The list l, the objects o and the objects t that are normalised, while  *)
(* LOAD is under way.                                                      *)
Loading(l, o, t) ==
    /\ l \in Seq(Id) /\ o \in [Id -> User \union {NoUser}] /\ t \subseteq Range(l)
    /\ Attached \subseteq Id
    /\ \A id \in Range(l) \union Attached : o[id] \in User
    /\ Distinct(l, o) /\ Named(l, o, default) # {}
    /\ Range(users) \subseteq Range(l) /\ Range(l) \ t \subseteq Range(users)
    /\ \A id \in (Range(users) \union Attached) \ t : o[id] = object[id]
    /\ \A id \in t : Normalise(o[id]) = o[id]

LEMMA LoadingExisting ==
    ASSUME NEW l, NEW o, NEW t, Loading(l, o, t), NEW id \in Range(l), NEW w \in User,
           w.Username = o[id].Username, Normalise(w) = w
    PROVE  Loading(l, [o EXCEPT ![id] = w], t \union {id})
  <1> DEFINE p == [o EXCEPT ![id] = w]
  <1>1. l \in Seq(Id) /\ o \in [Id -> User \union {NoUser}] /\ Distinct(l, o)
    BY DEF Loading
  <1>2. id \in Id
    BY <1>1 DEF Range
  <1>3. p \in [Id -> User \union {NoUser}]
    BY <1>1, <1>2
  <1>4. p[id] = w /\ \A x \in Id : x # id => p[x] = o[x]
    BY <1>1, <1>2
  <1>5. Distinct(l, p) /\ Named(l, p, default) = Named(l, o, default)
    <2>1. \A x \in Id : p[x].Username = o[x].Username
      BY <1>4
    <2> HIDE DEF p
    <2>2. QED
      BY <1>1, <2>1, ReplacedInList
  <1> HIDE DEF p
  <1>6. \A x \in Range(l) \union Attached : p[x] \in User
    <2>1. Range(l) \union Attached \subseteq Id
      BY <1>1 DEF Range, Loading
    <2>2. QED
      BY <1>4, <2>1 DEF Loading
  <1>7. \A x \in (Range(users) \union Attached) \ (t \union {id}) : p[x] = object[x]
    <2>1. Range(users) \union Attached \subseteq Id
      BY <1>1 DEF Range, Loading
    <2>2. QED
      BY <1>4, <2>1 DEF Loading
  <1>8. \A x \in t \union {id} : Normalise(p[x]) = p[x]
    <2>1. t \subseteq Id
      BY <1>1 DEF Range, Loading
    <2>2. QED
      BY <1>4, <2>1 DEF Loading
  <1>9. Loading(l, p, t \union {id})
    BY <1>3, <1>5, <1>6, <1>7, <1>8 DEF Loading
  <1>10. QED
    BY <1>9 DEF p

LEMMA LoadingNew ==
    ASSUME NEW l, NEW o, NEW t, Loading(l, o, t), NEW id \in Id,
           id \notin Range(l), id \notin Attached, NEW w \in User,
           Named(l, o, w.Username) = {}, Normalise(w) = w
    PROVE  Loading(Append(l, id), [o EXCEPT ![id] = w], t \union {id})
  <1> DEFINE p == [o EXCEPT ![id] = w]
             m == Append(l, id)
  <1>1. l \in Seq(Id) /\ o \in [Id -> User \union {NoUser}] /\ Distinct(l, o)
        /\ Attached \subseteq Id /\ Range(l) \subseteq Id
    BY DEF Loading, Range
  <1>2. p \in [Id -> User \union {NoUser}]
    BY <1>1
  <1>3. p[id] = w /\ \A x \in Id : x # id => p[x] = o[x]
    BY <1>1
  <1>4. /\ m \in Seq(Id) /\ Range(m) = Range(l) \union {id} /\ Distinct(m, p)
        /\ \A username : Named(l, o, username) # {} => Named(m, p, username) # {}
    <2>1. (\A x \in Range(l) : p[x] = o[x]) /\ Named(l, o, p[id].Username) = {}
      BY <1>1, <1>3
    <2> HIDE DEF p
    <2>2. QED
      BY <1>1, <2>1, AppendedToList, SMTT(30)
  <1> HIDE DEF p, m
  <1>5. Named(m, p, default) # {}
    BY <1>4 DEF Loading
  <1>6. \A x \in Range(m) \union Attached : p[x] \in User
    BY <1>1, <1>3, <1>4 DEF Loading
  <1>7. \A x \in (Range(users) \union Attached) \ (t \union {id}) : p[x] = object[x]
    BY <1>1, <1>3 DEF Loading
  <1>8. \A x \in t \union {id} : Normalise(p[x]) = p[x]
    BY <1>1, <1>3 DEF Loading
  <1>9. t \union {id} \subseteq Range(m) /\ Range(users) \subseteq Range(m)
        /\ Range(m) \ (t \union {id}) \subseteq Range(users)
    BY <1>4 DEF Loading
  <1>10. Loading(m, p, t \union {id})
    BY <1>1, <1>2, <1>4, <1>5, <1>6, <1>7, <1>8, <1>9 DEF Loading
  <1>11. QED
    BY <1>10 DEF m, p

(* One user of the file, for which room is left.                           *)
LoadedTo(acc, room) ==
    \E l, o, t : /\ acc = [users |-> l, object |-> o, tidied |-> t]
                 /\ Loading(l, o, t)
                 /\ Cardinality(Unused(l)) >= room

LEMMA LoadingUser ==
    ASSUME NEW mode \in {"merge", "replace"}, NEW acc, NEW room \in Nat,
           LoadedTo(acc, room + 1), NEW read \in User
    PROVE  LoadedTo(LoadUser(mode, acc, read), room)
  <1>1. PICK l, o, t : /\ acc = [users |-> l, object |-> o, tidied |-> t]
                       /\ Loading(l, o, t)
                       /\ Cardinality(Unused(l)) >= room + 1
    BY DEF LoadedTo
  <1> DEFINE new == Normalise(read)
             id == First(l, o, read.Username)
             fresh == NewId(l)
             w == IF mode = "merge" THEN Merge(o[id], new) ELSE Replace(o[id], new)
  <1>2. new \in User /\ new.Username = read.Username /\ Normalise(new) = new
    BY Normalising
  <1>3. l \in Seq(Id) /\ o \in [Id -> User \union {NoUser}] /\ Distinct(l, o)
    BY <1>1 DEF Loading
  <1>4. Cardinality(Unused(l)) \in Nat /\ Unused(l) # {}
    <2>1. Cardinality(Unused(l)) \in Nat /\ Cardinality(Unused(l)) # 0
      BY <1>1, UnusedFinite
    <2>2. QED
      BY <2>1, FS_EmptySet
  <1> HIDE DEF new
  <1>5. CASE Named(l, o, read.Username) # {}
    <2>1. id \in Range(l) /\ o[id].Username = read.Username
      BY <1>3, <1>5, Searching
    <2>2. id \in Id /\ o[id] \in User
      BY <1>1, <1>3, <2>1 DEF Loading, Range
    <2> HIDE DEF id
    <2>3. w \in User /\ w.Username = o[id].Username /\ Normalise(w) = w
      <3>1. CASE mode = "merge"
        BY <1>2, <2>2, <3>1, Merging
      <3>2. CASE mode = "replace"
        <4>1. Replace(o[id], new) = new
          BY <1>2, <2>1, <2>2, Replacing
        <4>2. QED
          BY <1>2, <2>1, <3>2, <4>1
      <3>3. QED
        BY <3>1, <3>2
    <2>4. LoadUser(mode, acc, read) = [acc EXCEPT
                !.object[id] = IF mode = "merge" THEN Merge(@, new) ELSE Replace(@, new),
                !.tidied = @ \union {id}]
      BY <1>1, <1>5 DEF LoadUser, new, id
    <2>5. LoadUser(mode, acc, read)
            = [users |-> l, object |-> [o EXCEPT ![id] = w], tidied |-> t \union {id}]
      <3>1. [o EXCEPT ![id] = IF mode = "merge" THEN Merge(@, new) ELSE Replace(@, new)]
              = [o EXCEPT ![id] = w]
        OBVIOUS
      <3>2. QED
        BY <1>1, <2>4, <3>1
    <2>6. Loading(l, [o EXCEPT ![id] = w], t \union {id})
      <3> HIDE DEF w
      <3>1. QED
        BY <1>1, <2>1, <2>3, LoadingExisting
    <2>7. Cardinality(Unused(l)) >= room
      BY <1>1, <1>4
    <2>8. QED
      <3> HIDE DEF w
      <3>1. QED
        BY <2>5, <2>6, <2>7 DEF LoadedTo
  <1>6. CASE Named(l, o, read.Username) = {}
    <2>1. fresh \in Id /\ fresh \notin Range(l) /\ fresh \notin Attached
      BY <1>4, NewIdUnused
    <2> HIDE DEF fresh
    <2>2. LoadUser(mode, acc, read) = [acc EXCEPT
                !.object[fresh] = new, !.users = Append(@, fresh),
                !.tidied = @ \union {fresh}]
      BY <1>1, <1>6 DEF LoadUser, new, fresh
    <2>3. LoadUser(mode, acc, read)
            = [users |-> Append(l, fresh), object |-> [o EXCEPT ![fresh] = new],
               tidied |-> t \union {fresh}]
      BY <1>1, <2>2
    <2>4. Loading(Append(l, fresh), [o EXCEPT ![fresh] = new], t \union {fresh})
      BY <1>1, <1>2, <1>6, <2>1, LoadingNew
    <2>5. Cardinality(Unused(Append(l, fresh))) >= room
      <3>1. Range(Append(l, fresh)) \subseteq Range(l) \union {fresh}
        BY <1>3, <2>1 DEF Range
      <3>2. Cardinality(Unused(Append(l, fresh))) >= Cardinality(Unused(l)) - 1
            /\ Cardinality(Unused(Append(l, fresh))) \in Nat
        BY <3>1, UnusedLeft, UnusedFinite
      <3>3. QED
        BY <1>1, <1>4, <3>2
    <2>6. QED
      BY <2>3, <2>4, <2>5 DEF LoadedTo
  <1>7. QED
    BY <1>5, <1>6

(* A function exists that the recursion of Loaded defines.                 *)
LoadNext(mode, f, n) ==
    IF n = 0 THEN [users |-> users, object |-> object, tidied |-> {}]
    ELSE LoadUser(mode, f[n - 1], file[n])

LEMMA LoadRecursion ==
    ASSUME NEW mode, NEW N \in Nat
    PROVE  \E f : f = [n \in 0..N |-> LoadNext(mode, f, n)]
  <1> USE DEF LoadNext
  <1> DEFINE next(f, n) == LoadNext(mode, f, n)
             S == {m \in Nat : \E f : f = [n \in 0..m |-> next(f, n)]}
  <1>1. 0 \in S
    <2> DEFINE f == [n \in 0..0 |-> [users |-> users, object |-> object, tidied |-> {}]]
    <2>1. f = [n \in 0..0 |-> next(f, n)]
      OBVIOUS
    <2> QED
      BY <2>1
  <1>2. ASSUME NEW m \in Nat, m \in S
        PROVE  m + 1 \in S
    <2>1. PICK f : f = [n \in 0..m |-> next(f, n)]
      BY <1>2
    <2> DEFINE g == [n \in 0..(m + 1) |-> IF n = m + 1 THEN next(f, n) ELSE f[n]]
    <2>2. ASSUME NEW n \in 0..(m + 1)
          PROVE  next(g, n) = IF n = m + 1 THEN next(f, n) ELSE f[n]
      <3>1. n # 0 => n - 1 \in 0..(m + 1) /\ n - 1 # m + 1 /\ g[n - 1] = f[n - 1]
        OBVIOUS
      <3>2. n # m + 1 => n \in 0..m
        OBVIOUS
      <3>3. n # m + 1 => f[n] = next(f, n)
        BY <2>1, <3>2
      <3> HIDE DEF g
      <3> QED
        BY <3>1, <3>3
    <2>3. g = [n \in 0..(m + 1) |-> next(g, n)]
      BY <2>2
    <2>4. \E h : h = [n \in 0..(m + 1) |-> next(h, n)]
      <3> HIDE DEF g, next
      <3> QED
        BY <2>3
    <2> QED
      BY SMTT(30), <2>4
  <1>3. S = Nat
    <2>1. S \in SUBSET Nat
      OBVIOUS
    <2> HIDE DEF S
    <2> QED
      BY <1>1, <1>2, <2>1, SetInduction
  <1> QED
    BY <1>3

(* The whole file.                                                         *)
LEMMA LoadingFile ==
    ASSUME NEW mode \in {"merge", "replace"}, Loading(users, object, {}), file \in Seq(User),
           Cardinality(Unused(users)) >= Len(file)
    PROVE  Loading(Loaded(mode).users, Loaded(mode).object, Loaded(mode).tidied)
  <1> DEFINE f == CHOOSE g : g = [n \in 0..Len(file) |-> LoadNext(mode, g, n)]
             S == {m \in Nat : m \in 0..Len(file) => LoadedTo(f[m], Len(file) - m)}
  <1>1. Len(file) \in Nat /\ \A n \in 1..Len(file) : file[n] \in User
    OBVIOUS
  <1>2. f = [n \in 0..Len(file) |-> LoadNext(mode, f, n)]
    BY <1>1, LoadRecursion
  <1>3. Loaded(mode) = f[Len(file)]
    BY Zenon DEF Loaded, LoadNext
  <1> HIDE DEF f
  <1>4. \A n \in 0..Len(file) : f[n] = LoadNext(mode, f, n)
    BY <1>2
  <1>5. 0 \in S
    <2>1. f[0] = LoadNext(mode, f, 0)
      BY <1>1, <1>4
    <2>2. f[0] = [users |-> users, object |-> object, tidied |-> {}]
      BY <2>1 DEF LoadNext
    <2>3. LoadedTo(f[0], Len(file) - 0)
      <3>1. Cardinality(Unused(users)) >= Len(file) - 0
        BY <1>1
      <3>2. \A l, o, t, room : Loading(l, o, t) /\ Cardinality(Unused(l)) >= room
                => LoadedTo([users |-> l, object |-> o, tidied |-> t], room)
        BY DEF LoadedTo
      <3>3. LoadedTo([users |-> users, object |-> object, tidied |-> {}], Len(file) - 0)
        BY <3>1, <3>2
      <3>4. QED
        BY <2>2, <3>3
    <2>4. QED
      BY <2>3
  <1>6. ASSUME NEW m \in Nat, m \in S
        PROVE  m + 1 \in S
    <2>1. CASE m + 1 \in 0..Len(file)
      <3>1. m \in 0..Len(file) /\ m + 1 \in 1..Len(file) /\ m + 1 # 0 /\ m + 1 - 1 = m
        BY <1>1, <2>1
      <3>2. f[m + 1] = LoadUser(mode, f[m], file[m + 1])
        BY <1>4, <2>1, <3>1 DEF LoadNext
      <3>3. PICK acc : acc = f[m]
        OBVIOUS
      <3>4. PICK read \in User : read = file[m + 1]
        BY <1>1, <3>1
      <3>5. PICK room \in Nat : room = Len(file) - (m + 1) /\ room + 1 = Len(file) - m
        <4>1. /\ Len(file) - (m + 1) \in Nat
              /\ (Len(file) - (m + 1)) + 1 = Len(file) - m
          BY <1>1, <3>1
        <4>2. QED
          BY <4>1
      <3>6. LoadedTo(acc, room + 1)
        BY <1>6, <3>1, <3>3, <3>5
      <3>7. LoadedTo(LoadUser(mode, acc, read), room)
        BY <3>6, LoadingUser
      <3>8. QED
        BY <3>2, <3>3, <3>4, <3>5, <3>7
    <2>2. QED
      BY <2>1
  <1>7. S = Nat
    <2>1. S \in SUBSET Nat
      OBVIOUS
    <2> HIDE DEF S
    <2> QED
      BY <1>5, <1>6, <2>1, SetInduction
  <1>8. LoadedTo(f[Len(file)], Len(file) - Len(file))
    <2>1. Len(file) \in S /\ Len(file) \in 0..Len(file)
      <3> HIDE DEF S
      <3>1. QED
        BY <1>1, <1>7
    <2>2. QED
      BY <2>1
  <1>9. QED
    BY <1>3, <1>8 DEF LoadedTo

-----------------------------------------------------------------------------
(* The start of the server.                                                *)

StartObjects(saved) ==
    [id \in Id |-> IF id \in DOMAIN StartUsers(saved) THEN StartUsers(saved)[id] ELSE NoUser]
StartList(saved) == [i \in DOMAIN StartUsers(saved) |-> i]

LEMMA DefaultTyped ==
    DefaultUser \in User /\ DefaultUser.Username = default
  <1> DEFINE u == CreateUser(default)
             ps == {PasswordValue("plaintext", Password)}
  <1>1. u \in User /\ u.Username = default
    BY AccessControlAssumption DEF CreateUser, User
  <1>2. ps \in SUBSET [PasswordType : PasswordType, PasswordValue : Secret]
    BY AccessControlAssumption DEF PasswordValue, PasswordType
  <1> HIDE DEF u, ps
  <1>3. [u EXCEPT !.Passwords = ps] \in User /\ [u EXCEPT !.Passwords = ps].Username = default
    BY <1>1, <1>2 DEF User
  <1>4. QED
    BY <1>1, <1>3 DEF DefaultUser, u, ps

(* The users of a file, and the default user, are normalised.              *)
LEMMA StartTyped ==
    ASSUME NEW saved, IsFile(saved)
    PROVE  LET start == StartUsers(saved)
           IN  /\ start \in Seq(User) /\ Len(start) <= MaxObjects
               /\ \A i, j \in DOMAIN start : start[i].Username = start[j].Username => i = j
               /\ \A i \in DOMAIN start : Normalise(start[i]) = start[i]
               /\ \E i \in DOMAIN start : start[i].Username = default
               /\ \A i \in DOMAIN saved :
                     \E j \in DOMAIN start : start[j] = Normalise(saved[i])
  <1> DEFINE all == IF \E i \in DOMAIN saved : saved[i].Username = default
                    THEN saved ELSE <<DefaultUser>> \o saved
             start == StartUsers(saved)
  <1>1. saved \in Seq(User)
        /\ \A i, j \in DOMAIN saved : saved[i].Username = saved[j].Username => i = j
    BY DEF IsFile
  <1>2. /\ all \in Seq(User)
        /\ \A i, j \in DOMAIN all : all[i].Username = all[j].Username => i = j
        /\ \E i \in DOMAIN all : all[i].Username = default
        /\ \A i \in DOMAIN saved : \E j \in DOMAIN all : all[j] = saved[i]
    <2>1. CASE \E i \in DOMAIN saved : saved[i].Username = default
      BY <1>1, <2>1
    <2>2. CASE ~ \E i \in DOMAIN saved : saved[i].Username = default
      <3>1. all = <<DefaultUser>> \o saved
        BY <2>2
      <3>2. Len(saved) \in Nat /\ DOMAIN saved = 1..Len(saved)
        BY <1>1
      <3>3. /\ all \in Seq(User) /\ DOMAIN all = 1..(Len(saved) + 1)
            /\ all[1] = DefaultUser /\ \A i \in DOMAIN saved : all[i + 1] = saved[i]
        BY <1>1, <3>1, DefaultTyped
      <3> HIDE DEF all
      <3>4. \A i \in DOMAIN all : i = 1 \/ (i - 1 \in DOMAIN saved /\ all[i] = saved[i - 1])
        <4>1. ASSUME NEW i \in DOMAIN all, i # 1
              PROVE  i - 1 \in DOMAIN saved /\ all[i] = saved[i - 1]
          <5>1. i - 1 \in DOMAIN saved /\ (i - 1) + 1 = i
            BY <3>2, <3>3, <4>1
          <5>2. QED
            BY <3>3, <5>1
        <4>2. QED
          BY <4>1
      <3>5. ASSUME NEW i \in DOMAIN all, NEW j \in DOMAIN all,
                   all[i].Username = all[j].Username
            PROVE  i = j
        <4>1. i \in Int /\ j \in Int
          BY <3>2, <3>3
        <4>2. CASE i = 1 \/ j = 1
          BY <2>2, <3>3, <3>4, <3>5, <4>2, DefaultTyped
        <4>3. CASE i # 1 /\ j # 1
          <5>1. i - 1 = j - 1
            BY <1>1, <3>4, <3>5, <4>3
          <5>2. QED
            BY <4>1, <5>1
        <4>4. QED
          BY <4>2, <4>3
      <3>6. 1 \in DOMAIN all /\ \A i \in DOMAIN saved : i + 1 \in DOMAIN all
        BY <3>2, <3>3
      <3>7. QED
        BY <3>3, <3>5, <3>6, DefaultTyped
    <2>3. QED
      BY <2>1, <2>2
  <1>3. start = [i \in DOMAIN all |-> Normalise(all[i])]
    BY DEF StartUsers
  <1> HIDE DEF all
  <1>4. Len(all) \in Nat /\ DOMAIN all = 1..Len(all) /\ \A i \in DOMAIN all : all[i] \in User
    BY <1>2
  <1>5. start \in Seq(User) /\ DOMAIN start = DOMAIN all
    BY <1>3, <1>4, Normalising
  <1>6. \A i \in DOMAIN all : start[i] = Normalise(all[i])
    BY <1>3
  <1>7. Len(start) <= MaxObjects
    BY DEF IsFile
  <1> HIDE DEF start
  <1>8. \A i \in DOMAIN all : start[i].Username = all[i].Username
                               /\ Normalise(start[i]) = start[i]
    BY <1>4, <1>6, Normalising
  <1>9. QED
    BY <1>2, <1>5, <1>6, <1>7, <1>8 DEF start

(* The list and the objects that the server starts with.                   *)
LEMMA Starting ==
    ASSUME NEW saved, IsFile(saved)
    PROVE  LET l == StartList(saved)
               o == StartObjects(saved)
           IN  /\ o \in [Id -> User \union {NoUser}] /\ l \in Seq(Id)
               /\ Distinct(l, o) /\ Named(l, o, default) # {}
               /\ \A id \in Range(l) : /\ o[id] \in User /\ Normalise(o[id]) = o[id]
                                       /\ id \in DOMAIN StartUsers(saved)
                                       /\ o[id] = StartUsers(saved)[id]
               /\ \A i \in DOMAIN saved :
                     /\ Named(l, o, saved[i].Username) # {}
                     /\ o[First(l, o, saved[i].Username)] = Normalise(saved[i])
  <1> DEFINE start == StartUsers(saved)
             l == StartList(saved)
             o == StartObjects(saved)
  <1>1. /\ start \in Seq(User) /\ Len(start) <= MaxObjects
        /\ \A i, j \in DOMAIN start : start[i].Username = start[j].Username => i = j
        /\ \A i \in DOMAIN start : Normalise(start[i]) = start[i]
        /\ \E i \in DOMAIN start : start[i].Username = default
        /\ \A i \in DOMAIN saved : \E j \in DOMAIN start : start[j] = Normalise(saved[i])
    BY StartTyped
  <1>2. l = [i \in DOMAIN start |-> i]
        /\ o = [id \in Id |-> IF id \in DOMAIN start THEN start[id] ELSE NoUser]
    BY DEF StartList, StartObjects
  <1> HIDE DEF start, l, o
  <1>3. Len(start) \in Nat /\ DOMAIN start = 1..Len(start) /\ DOMAIN start \subseteq Id
        /\ \A i \in DOMAIN start : start[i] \in User
    BY <1>1, AccessControlAssumption DEF Id
  <1>4. l \in Seq(Id) /\ DOMAIN l = DOMAIN start /\ \A i \in DOMAIN start : l[i] = i
    BY <1>2, <1>3
  <1>5. o \in [Id -> User \union {NoUser}] /\ \A i \in DOMAIN start : o[i] = start[i]
    BY <1>2, <1>3
  <1>6. Distinct(l, o)
    BY <1>1, <1>4, <1>5 DEF Distinct
  <1>7. Range(l) = DOMAIN start
    BY <1>4 DEF Range
  <1>8. Named(l, o, default) # {}
    BY <1>1, <1>4, <1>5 DEF Named
  <1>9. ASSUME NEW i \in DOMAIN saved
        PROVE  /\ Named(l, o, saved[i].Username) # {}
               /\ o[First(l, o, saved[i].Username)] = Normalise(saved[i])
    <2>1. PICK j \in DOMAIN start : start[j] = Normalise(saved[i])
      BY <1>1
    <2>2. saved[i] \in User
      BY DEF IsFile
    <2>3. o[l[j]] = Normalise(saved[i]) /\ o[l[j]].Username = saved[i].Username
      BY <1>4, <1>5, <2>1, <2>2, Normalising
    <2>4. j \in DOMAIN l
      BY <1>4
    <2>5. /\ Named(l, o, o[l[j]].Username) # {}
          /\ First(l, o, o[l[j]].Username) = l[j]
      BY <1>4, <1>6, <2>4, Found
    <2>6. QED
      BY <2>3, <2>5
  <1>10. QED
    BY <1>1, <1>3, <1>4, <1>5, <1>6, <1>7, <1>8, <1>9 DEF start, l, o

-----------------------------------------------------------------------------
(* The inductive invariant.                                                *)

(* What RestartRestoresUsers rests on: users that are normalised, in the   *)
(* list and in the file, stay as they are when they are loaded.            *)
ListTidy == \A id \in Range(users) \ touched : Normalise(object[id]) = object[id]
FileTidy == \A i \in DOMAIN file :
                file[i].Username \notin untidy => Normalise(file[i]) = file[i]

(* What SavedIsCurrent rests on: while SAVEs run, none of which is to      *)
(* write the file still, it holds the users.                               *)
SavesCurrent ==
    \/ Unlocked \/ \E c \in Conn : saving[c] = "opened"
    \/ file = [i \in DOMAIN users |-> object[users[i]]]

IInv == UsersConsistent /\ IsFile(file) /\ ListTidy /\ FileTidy /\ SavesCurrent

LEMMA AttachedTyped ==
    ASSUME AccessTypeOK
    PROVE  Attached \subseteq Id /\ Range(users) \subseteq Id
           /\ \A c \in Conn : Connected(c) => conns[c].user \in Attached
  BY DEF AccessTypeOK, Attached, Connected, Range

LEMMA DistinctNames ==
    OneUserPerName <=> Distinct(users, object) /\ Named(users, object, default) # {}
  BY DEF OneUserPerName, Distinct, Listed

LEMMA InitInvariant == AccessInit => IInv
  <1> SUFFICES ASSUME AccessInit PROVE IInv
    OBVIOUS
  <1>1. IsFile(file)
    BY InputsAssumption DEF AccessInit
  <1>2. users = StartList(file) /\ object = StartObjects(file)
    BY DEF AccessInit, StartList, StartObjects
  <1>3. /\ object \in [Id -> User \union {NoUser}] /\ users \in Seq(Id)
        /\ Distinct(users, object) /\ Named(users, object, default) # {}
        /\ \A id \in Range(users) :
              /\ object[id] \in User /\ Normalise(object[id]) = object[id]
              /\ id \in DOMAIN StartUsers(file) /\ object[id] = StartUsers(file)[id]
    BY <1>1, <1>2, Starting
  <1>4. conns = [c \in Conn |-> [user |-> NoUser, authenticated |-> FALSE]]
        /\ cut = {} /\ saving = [c \in Conn |-> "no"] /\ touched = {} /\ uncompiled = {}
        /\ ops = 0 /\ globs = UNION {Patterns(StartUsers(file)[i]) : i \in DOMAIN StartUsers(file)}
        /\ untidy = {file[i].Username : i \in DOMAIN file}
    BY DEF AccessInit
  <1>5. Attached = {} /\ \A c \in Conn : ~Connected(c)
    BY <1>4 DEF Attached, Connected
  <1>6. AccessTypeOK
    BY <1>3, <1>4, <1>5, AccessControlAssumption DEF AccessTypeOK
  <1>7. OneUserPerName
    BY <1>3, DistinctNames
  <1>8. ConnectionsFollowList
    BY <1>5 DEF ConnectionsFollowList
  <1>9. PatternsCompiled
    BY <1>3, <1>4, <1>5 DEF PatternsCompiled
  <1>10. ListTidy /\ FileTidy
    BY <1>3, <1>4 DEF ListTidy, FileTidy
  <1>11. SavesCurrent
    BY <1>4 DEF SavesCurrent, Unlocked
  <1>12. QED
    BY <1>1, <1>6, <1>7, <1>8, <1>9, <1>10, <1>11 DEF IInv, UsersConsistent

-----------------------------------------------------------------------------
(* The steps of the connections.                                           *)

(* A connection is attached to a user of the list, or to none.             *)
LEMMA AttachStep ==
    ASSUME IInv, NEW c \in Conn, NEW id \in Range(users) \union {NoUser}, NEW b \in BOOLEAN,
           Attach(c, id, b), cut' = cut \/ (id = NoUser /\ cut' = cut \ {c}),
           UNCHANGED <<object, users, globs, file, saving, touched, untidy, uncompiled, ops>>
    PROVE  IInv'
  <1>1. AccessTypeOK /\ Attached \subseteq Id /\ Range(users) \subseteq Id
    BY AttachedTyped DEF IInv, UsersConsistent
  <1>2. conns' \in [Conn -> [user : Id \union {NoUser}, authenticated : BOOLEAN]]
    BY <1>1 DEF Attach, AccessTypeOK
  <1>3. /\ conns'[c].user = id
        /\ \A d \in Conn : d # c => conns'[d] = conns[d]
    BY <1>1 DEF Attach, AccessTypeOK
  <1>4. Attached' \subseteq Attached \union Range(users)
    BY <1>3 DEF Attached
  <1>5. AccessTypeOK'
    BY <1>1, <1>2, <1>4 DEF AccessTypeOK
  <1>6. OneUserPerName'
    BY DEF IInv, UsersConsistent, OneUserPerName, Listed, Named
  <1>7. ConnectionsFollowList'
    <2>1. ASSUME NEW d \in Conn, Connected(d)'
          PROVE  d \in cut' \/ conns'[d].user \in Range(users)
      <3>1. CASE d = c
        BY <1>3, <2>1, <3>1 DEF Connected
      <3>2. CASE d # c
        BY <1>3, <2>1, <3>2 DEF Connected, IInv, UsersConsistent, ConnectionsFollowList
      <3>3. QED
        BY <3>1, <3>2
    <2>2. QED
      BY <2>1 DEF ConnectionsFollowList
  <1>8. PatternsCompiled'
    BY <1>4 DEF IInv, UsersConsistent, PatternsCompiled
  <1>9. IsFile(file)' /\ ListTidy' /\ FileTidy' /\ SavesCurrent'
    <2>1. IsFile(file)'
      BY DEF IInv, IsFile, StartUsers
    <2>2. ListTidy' /\ FileTidy'
      BY DEF IInv, ListTidy, FileTidy
    <2>3. SavesCurrent'
      BY DEF IInv, SavesCurrent, Unlocked
    <2>4. QED
      BY <2>1, <2>2, <2>3
  <1>10. QED
    BY <1>5, <1>6, <1>7, <1>8, <1>9 DEF IInv, UsersConsistent

LEMMA FindListed ==
    ASSUME IInv, NEW username, Listed(username)
    PROVE  /\ Find(username) \in Range(users) /\ Find(username) \in Id
           /\ object[Find(username)] \in User
           /\ object[Find(username)].Username = username
  <1>1. AccessTypeOK /\ Distinct(users, object) /\ Range(users) \subseteq Id
    BY DistinctNames, AttachedTyped DEF IInv, UsersConsistent
  <1>2. Find(username) \in Range(users) /\ object[Find(username)].Username = username
    BY <1>1, Searching DEF Listed, Find, AccessTypeOK
  <1>3. QED
    BY <1>1, <1>2 DEF AccessTypeOK

LEMMA RegisterStep ==
    ASSUME IInv, NEW c \in Conn, RegisterConnection(c)
    PROVE  IInv'
  <1>1. Find(default) \in Range(users) /\ object[Find(default)] \in User
    BY FindListed DEF IInv, UsersConsistent, OneUserPerName
  <1>2. object[Find(default)].NoPassword \in BOOLEAN
    BY <1>1 DEF User
  <1>3. QED
    BY <1>1, <1>2, AttachStep DEF RegisterConnection

LEMMA CloseStep ==
    ASSUME IInv, NEW c \in Conn, Close(c)
    PROVE  IInv'
  BY AttachStep DEF Close

LEMMA AuthenticateStep ==
    ASSUME IInv, NEW c \in Conn, NEW username, NEW secret,
           AuthenticateConnection(c, username, secret)
    PROVE  IInv'
  <1>1. Find(username) \in Range(users)
    BY FindListed DEF AuthenticateConnection
  <1>2. QED
    BY <1>1, AttachStep DEF AuthenticateConnection

-----------------------------------------------------------------------------
(* The steps of the commands that change users.                            *)

(* With the lock for writing no SAVE runs, and the file is as it was.      *)
LEMMA LockedStep ==
    ASSUME IInv, AclCommand, UNCHANGED <<file, untidy>>,
           (Unlocked /\ UNCHANGED saving) \/ saving' = [c \in Conn |-> "no"]
    PROVE  /\ SavesCurrent' /\ FileTidy' /\ IsFile(file)' /\ ops' \in 0..MaxAclOps
           /\ saving' \in [Conn -> {"no", "opened", "written"}]
  <1>1. SavesCurrent'
    BY DEF SavesCurrent, Unlocked
  <1>2. FileTidy'
    BY DEF IInv, FileTidy
  <1>3. IsFile(file)'
    BY DEF IInv, IsFile, StartUsers
  <1>4. ops' \in 0..MaxAclOps
    BY AccessControlAssumption DEF IInv, UsersConsistent, AccessTypeOK, AclCommand
  <1>5. saving' \in [Conn -> {"no", "opened", "written"}]
    BY DEF IInv, UsersConsistent, AccessTypeOK
  <1>6. QED
    BY <1>1, <1>2, <1>3, <1>4, <1>5

LEMMA SetUserExistingStep ==
    ASSUME IInv, NEW username, NEW rules \in Rules, AclCommand, Unlocked,
           SetUserExisting(username, rules), uncompiled' = uncompiled \ Range(users'),
           UNCHANGED <<conns, cut, file, saving, untidy>>
    PROVE  IInv'
  <1> DEFINE id == Find(username)
             w == UpdateUser(object[id], rules)
  <1>1. AccessTypeOK /\ Attached \subseteq Id /\ Range(users) \subseteq Id
        /\ Distinct(users, object) /\ Named(users, object, default) # {}
    BY AttachedTyped, DistinctNames DEF IInv, UsersConsistent
  <1>2. id \in Range(users) /\ id \in Id /\ object[id] \in User
    BY FindListed DEF SetUserExisting
  <1>3. w \in User /\ w.Username = object[id].Username
    BY <1>2, UpdateTyped
  <1>4. object' = [object EXCEPT ![id] = w] /\ users' = users
        /\ globs' = globs \union UNION {Patterns(object'[x]) : x \in Range(users)}
        /\ touched' = touched \union {id}
    BY DEF SetUserExisting, CompileGlobs
  <1> HIDE DEF id, w
  <1>5. object' \in [Id -> User \union {NoUser}] /\ object'[id] = w
        /\ \A x \in Id : x # id => object'[x] = object[x]
    BY <1>1, <1>2, <1>3, <1>4 DEF AccessTypeOK
  <1>6. \A x \in Id : object'[x].Username = object[x].Username
    BY <1>3, <1>5
  <1>7. Attached' = Attached
    BY DEF Attached
  <1>8. AccessTypeOK'
    <2>1. \A x \in Range(users) \union Attached : object'[x] \in User
      BY <1>1, <1>3, <1>5 DEF AccessTypeOK
    <2>2. ops' \in 0..MaxAclOps
      BY LockedStep
    <2>3. QED
      BY <1>1, <1>2, <1>4, <1>5, <1>7, <2>1, <2>2 DEF AccessTypeOK
  <1>9. OneUserPerName'
    <2>1. users \in Seq(Id)
      BY <1>1 DEF AccessTypeOK
    <2>2. PICK o : o = object'
      OBVIOUS
    <2>3. Distinct(users, o) /\ Named(users, o, default) # {}
      BY <1>1, <1>6, <2>1, <2>2, ReplacedInList
    <2>4. QED
      BY <1>4, <2>2, <2>3 DEF OneUserPerName, Listed, Named, Distinct
  <1>10. ConnectionsFollowList'
    BY <1>4 DEF IInv, UsersConsistent, ConnectionsFollowList, Connected
  <1>11. PatternsCompiled'
    <2>1. ASSUME NEW x \in (Range(users) \union Attached) \ uncompiled'
          PROVE  Patterns(object'[x]) \subseteq globs'
      <3>1. CASE x \in Range(users)
        BY <1>4, <3>1
      <3>2. CASE x \notin Range(users)
        <4>1. x \in Attached \ uncompiled /\ x \in Id /\ x # id
          BY <1>1, <1>2, <1>4, <2>1, <3>2
        <4>2. Patterns(object[x]) \subseteq globs
          BY <4>1 DEF IInv, UsersConsistent, PatternsCompiled
        <4>3. QED
          BY <1>4, <1>5, <4>1, <4>2
      <3>3. QED
        BY <3>1, <3>2
    <2>2. QED
      BY <1>4, <1>7, <2>1 DEF PatternsCompiled
  <1>12. ListTidy'
    BY <1>1, <1>4, <1>5 DEF IInv, ListTidy
  <1>13. QED
    BY <1>8, <1>9, <1>10, <1>11, <1>12, LockedStep DEF IInv, UsersConsistent

LEMMA SetUserNewStep ==
    ASSUME IInv, NEW username \in Username, NEW rules \in Rules, AclCommand, Unlocked,
           SetUserNew(username, rules), uncompiled' = uncompiled \ Range(users'),
           UNCHANGED <<conns, cut, file, saving, untidy>>
    PROVE  IInv'
  <1> DEFINE id == NewId(users)
             w == Normalise(UpdateUser(CreateUser(username), rules))
  <1>1. AccessTypeOK /\ Attached \subseteq Id /\ Range(users) \subseteq Id
        /\ Distinct(users, object) /\ Named(users, object, default) # {}
    BY AttachedTyped, DistinctNames DEF IInv, UsersConsistent
  <1>2. id \in Id /\ id \notin Range(users) /\ id \notin Attached
    BY NewIdUnused DEF SetUserNew
  <1>3. w \in User /\ w.Username = username /\ Normalise(w) = w
    <2>1. CreateUser(username) \in User /\ CreateUser(username).Username = username
      BY DEF CreateUser, User
    <2>2. QED
      BY <2>1, UpdateTyped, Normalising
  <1>4. object' = [object EXCEPT ![id] = w] /\ users' = Append(users, id)
        /\ globs' = globs \union UNION {Patterns(object'[x]) : x \in Range(users')}
        /\ touched' = touched \ {id}
    BY DEF SetUserNew, CompileGlobs
  <1>5. Named(users, object, username) = {}
    BY DEF SetUserNew, Listed
  <1> HIDE DEF id, w
  <1>6. object' \in [Id -> User \union {NoUser}] /\ object'[id] = w
        /\ \A x \in Id : x # id => object'[x] = object[x]
    BY <1>1, <1>2, <1>3, <1>4 DEF AccessTypeOK
  <1>7. Attached' = Attached
    BY DEF Attached
  <1>8. PICK o, l : o = object' /\ l = users'
    OBVIOUS
  <1>9. l \in Seq(Id) /\ Range(l) = Range(users) \union {id}
        /\ Distinct(l, o) /\ Named(l, o, default) # {}
    <2>1. users \in Seq(Id) /\ l = Append(users, id)
      BY <1>1, <1>4, <1>8 DEF AccessTypeOK
    <2>2. (\A x \in Range(users) : o[x] = object[x])
          /\ Named(users, object, o[id].Username) = {}
      BY <1>1, <1>2, <1>3, <1>5, <1>6, <1>8
    <2>3. QED
      BY <1>1, <1>2, <2>1, <2>2, AppendedToList
  <1>10. AccessTypeOK'
    <2>1. \A x \in Range(l) \union Attached : object'[x] \in User
      BY <1>1, <1>3, <1>6, <1>9 DEF AccessTypeOK
    <2>2. ops' \in 0..MaxAclOps
      BY LockedStep
    <2>3. QED
      BY <1>1, <1>4, <1>6, <1>7, <1>8, <1>9, <2>1, <2>2 DEF AccessTypeOK
  <1>11. OneUserPerName'
    BY <1>8, <1>9 DEF OneUserPerName, Listed, Named, Distinct
  <1>12. ConnectionsFollowList'
    BY <1>8, <1>9 DEF IInv, UsersConsistent, ConnectionsFollowList, Connected
  <1>13. PatternsCompiled'
    <2>1. ASSUME NEW x \in (Range(l) \union Attached) \ uncompiled'
          PROVE  Patterns(object'[x]) \subseteq globs'
      <3>1. CASE x \in Range(l)
        BY <1>4, <1>8, <3>1
      <3>2. CASE x \notin Range(l)
        <4>1. x \in Attached \ uncompiled /\ x \in Id /\ x # id
          BY <1>1, <1>2, <1>8, <1>9, <2>1, <3>2
        <4>2. Patterns(object[x]) \subseteq globs
          BY <4>1 DEF IInv, UsersConsistent, PatternsCompiled
        <4>3. QED
          BY <1>4, <1>6, <4>1, <4>2
      <3>3. QED
        BY <3>1, <3>2
    <2>2. QED
      BY <1>7, <1>8, <2>1 DEF PatternsCompiled
  <1>14. ListTidy'
    BY <1>1, <1>3, <1>4, <1>6, <1>8, <1>9 DEF IInv, ListTidy
  <1>15. QED
    BY <1>10, <1>11, <1>12, <1>13, <1>14, LockedStep DEF IInv, UsersConsistent

LEMMA SetUserStep ==
    ASSUME IInv, NEW username \in Username, NEW rules \in Rules, SetUser(username, rules)
    PROVE  IInv'
  BY SetUserExistingStep, SetUserNewStep DEF SetUser

LEMMA DeleteUserStep ==
    ASSUME IInv, NEW usernames, DeleteUser(usernames)
    PROVE  IInv'
  <1> DEFINE deleted == {u \in usernames \ {default} : Listed(u)}
             Gone(id) == object[id].Username \in deleted
             gone == {id \in Range(users) : Gone(id)}
  <1>1. AccessTypeOK /\ Attached \subseteq Id /\ Range(users) \subseteq Id
        /\ Distinct(users, object) /\ Named(users, object, default) # {}
    BY AttachedTyped, DistinctNames DEF IInv, UsersConsistent
  <1>2. users' = Without(users, gone)
        /\ cut' = cut \union {c \in Conn : Connected(c) /\ Gone(conns[c].user)}
        /\ UNCHANGED <<object, conns, globs, file, saving, touched, untidy, uncompiled>>
        /\ AclCommand /\ Unlocked
    BY DEF DeleteUser
  <1>3. PICK l : l = users'
    OBVIOUS
  <1>4. l \in Seq(Id) /\ Range(l) = Range(users) \ gone /\ Distinct(l, object)
    <2>1. users \in Seq(Id)
      BY <1>1 DEF AccessTypeOK
    <2> HIDE DEF gone
    <2>2. QED
      BY <1>1, <1>2, <1>3, <2>1, Keeping
  <1>5. Attached' = Attached
    BY <1>2 DEF Attached
  <1>6. AccessTypeOK'
    <2>1. ops' \in 0..MaxAclOps
      BY <1>2, LockedStep
    <2>2. cut' \subseteq Conn
      BY <1>1, <1>2 DEF AccessTypeOK
    <2>3. \A x \in Range(l) \union Attached : object[x] \in User
      BY <1>1, <1>4 DEF AccessTypeOK
    <2>4. QED
      BY <1>1, <1>2, <1>3, <1>4, <1>5, <2>1, <2>2, <2>3 DEF AccessTypeOK
  <1>7. OneUserPerName'
    <2>1. PICK i \in DOMAIN users : object[users[i]].Username = default
      BY <1>1 DEF Named
    <2>2. users[i] \in Range(users) \ gone
      BY <2>1 DEF Range
    <2>3. PICK j \in DOMAIN l : l[j] = users[i]
      BY <1>4, <2>2 DEF Range
    <2>4. QED
      BY <1>2, <1>3, <1>4, <2>1, <2>3 DEF OneUserPerName, Listed, Named, Distinct
  <1>8. ConnectionsFollowList'
    <2>1. ASSUME NEW c \in Conn, Connected(c)', c \notin cut'
          PROVE  conns'[c].user \in Range(l)
      <3>1. Connected(c) /\ c \notin cut /\ ~Gone(conns[c].user)
        BY <1>2, <2>1 DEF Connected
      <3>2. conns[c].user \in Range(users)
        BY <3>1 DEF IInv, UsersConsistent, ConnectionsFollowList
      <3>3. QED
        BY <1>2, <1>4, <3>1, <3>2
    <2>2. QED
      BY <1>3, <2>1 DEF ConnectionsFollowList
  <1>9. PatternsCompiled'
    BY <1>2, <1>3, <1>4, <1>5 DEF IInv, UsersConsistent, PatternsCompiled
  <1>10. ListTidy'
    BY <1>2, <1>3, <1>4 DEF IInv, ListTidy
  <1>11. SavesCurrent' /\ FileTidy' /\ IsFile(file)'
    BY <1>2, LockedStep
  <1>12. QED
    BY <1>6, <1>7, <1>8, <1>9, <1>10, <1>11 DEF IInv, UsersConsistent

LEMMA LoadStep ==
    ASSUME IInv, NEW mode \in {"merge", "replace"}, LoadFile(mode)
    PROVE  IInv'
  <1>1. AccessTypeOK /\ Attached \subseteq Id /\ Range(users) \subseteq Id
        /\ Distinct(users, object) /\ Named(users, object, default) # {}
    BY AttachedTyped, DistinctNames DEF IInv, UsersConsistent
  <1>2. Loading(users, object, {})
    BY <1>1 DEF Loading, AccessTypeOK
  <1>3. PICK l, o, t : l = users' /\ o = object' /\ t = Loaded(mode).tidied
    OBVIOUS
  <1>4. l = Loaded(mode).users /\ o = Loaded(mode).object
        /\ touched' = touched \ t /\ uncompiled' = uncompiled \union t
        /\ UNCHANGED <<conns, cut, globs, file, saving, untidy>>
        /\ AclCommand /\ Unlocked /\ Cardinality(Unused(users)) >= Len(file)
    BY <1>3 DEF LoadFile
  <1>5. Loading(l, o, t)
    <2>1. file \in Seq(User)
      BY DEF IInv, IsFile
    <2>2. QED
      BY <1>2, <1>3, <1>4, <2>1, LoadingFile
  <1>6. /\ l \in Seq(Id) /\ o \in [Id -> User \union {NoUser}] /\ t \subseteq Range(l)
        /\ \A id \in Range(l) \union Attached : o[id] \in User
        /\ Distinct(l, o) /\ Named(l, o, default) # {}
        /\ Range(users) \subseteq Range(l) /\ Range(l) \ t \subseteq Range(users)
        /\ \A id \in (Range(users) \union Attached) \ t : o[id] = object[id]
        /\ \A id \in t : Normalise(o[id]) = o[id]
    BY <1>5 DEF Loading
  <1>7. Attached' = Attached /\ Range(l) \subseteq Id
    BY <1>4, <1>6 DEF Attached, Range
  <1>8. AccessTypeOK'
    <2>1. ops' \in 0..MaxAclOps
      BY <1>4, LockedStep
    <2>2. touched' \subseteq Id /\ uncompiled' \subseteq Id
      BY <1>1, <1>4, <1>6, <1>7 DEF AccessTypeOK
    <2>3. QED
      BY <1>1, <1>3, <1>4, <1>6, <1>7, <2>1, <2>2 DEF AccessTypeOK
  <1>9. OneUserPerName'
    BY <1>3, <1>6 DEF OneUserPerName, Listed, Named, Distinct
  <1>10. ConnectionsFollowList'
    BY <1>3, <1>4, <1>6 DEF IInv, UsersConsistent, ConnectionsFollowList, Connected
  <1>11. PatternsCompiled'
    <2>1. ASSUME NEW x \in (Range(l) \union Attached) \ uncompiled'
          PROVE  Patterns(o[x]) \subseteq globs
      <3>1. x \in (Range(users) \union Attached) \ uncompiled /\ o[x] = object[x]
        BY <1>4, <1>6, <2>1
      <3>2. QED
        BY <3>1 DEF IInv, UsersConsistent, PatternsCompiled
    <2>2. QED
      BY <1>3, <1>4, <1>7, <2>1 DEF PatternsCompiled
  <1>12. ListTidy'
    <2>1. ASSUME NEW x \in Range(l) \ touched'
          PROVE  Normalise(o[x]) = o[x]
      <3>1. CASE x \in t
        BY <1>6, <3>1
      <3>2. CASE x \notin t
        <4>1. x \in Range(users) \ touched /\ o[x] = object[x]
          BY <1>4, <1>6, <2>1, <3>2
        <4>2. QED
          BY <4>1 DEF IInv, ListTidy
      <3>3. QED
        BY <3>1, <3>2
    <2>2. QED
      BY <1>3, <2>1 DEF ListTidy
  <1>13. SavesCurrent' /\ FileTidy' /\ IsFile(file)'
    BY <1>4, LockedStep
  <1>14. QED
    BY <1>8, <1>9, <1>10, <1>11, <1>12, <1>13 DEF IInv, UsersConsistent

-----------------------------------------------------------------------------
(* The steps of ACL SAVE, an edit of the file, and the restart.            *)

(* A SAVE leaves the users as they are.                                    *)
LEMMA SavingStep ==
    ASSUME IInv, NEW c \in Conn, NEW from, NEW to \in {"no", "opened", "written"},
           Saving(c, from, to), ops' \in 0..MaxAclOps
    PROVE  /\ UsersConsistent' /\ ListTidy'
           /\ saving' = [saving EXCEPT ![c] = to] /\ saving'[c] = to
           /\ \A d \in Conn : d # c => saving'[d] = saving[d]
  <1>1. AccessTypeOK
    BY DEF IInv, UsersConsistent
  <1>2. /\ saving' = [saving EXCEPT ![c] = to] /\ saving'[c] = to
        /\ \A d \in Conn : d # c => saving'[d] = saving[d]
        /\ saving' \in [Conn -> {"no", "opened", "written"}]
    BY <1>1 DEF Saving, AccessTypeOK
  <1>3. UNCHANGED <<object, users, conns, cut, globs, touched, uncompiled>>
    BY DEF Saving
  <1>4. AccessTypeOK'
    BY <1>1, <1>2, <1>3 DEF AccessTypeOK, Attached
  <1>5. OneUserPerName' /\ ConnectionsFollowList' /\ PatternsCompiled'
    <2>1. OneUserPerName'
      BY <1>3 DEF IInv, UsersConsistent, OneUserPerName, Listed, Named
    <2>2. ConnectionsFollowList'
      BY <1>3 DEF IInv, UsersConsistent, ConnectionsFollowList, Connected
    <2>3. PatternsCompiled'
      BY <1>3 DEF IInv, UsersConsistent, PatternsCompiled, Attached
    <2>4. QED
      BY <2>1, <2>2, <2>3
  <1>6. ListTidy'
    BY <1>3 DEF IInv, ListTidy
  <1>7. QED
    BY <1>2, <1>4, <1>5, <1>6 DEF UsersConsistent

LEMMA SaveOpenStep ==
    ASSUME IInv, NEW c \in Conn, SaveOpen(c)
    PROVE  IInv'
  <1>1. ops' \in 0..MaxAclOps
    BY AccessControlAssumption DEF IInv, UsersConsistent, AccessTypeOK, SaveOpen, AclCommand
  <1>2. UsersConsistent' /\ ListTidy' /\ saving'[c] = "opened"
    BY <1>1, SavingStep DEF SaveOpen
  <1>3. SavesCurrent'
    BY <1>2 DEF SavesCurrent
  <1>4. IsFile(<<>>)
    <2>1. <<>> \in Seq(User) /\ DOMAIN <<>> = {}
      OBVIOUS
    <2>2. Len(StartUsers(<<>>)) = 1
      <3>1. StartUsers(<<>>) = [i \in DOMAIN (<<DefaultUser>> \o <<>>) |->
                                  Normalise((<<DefaultUser>> \o <<>>)[i])]
        BY <2>1 DEF StartUsers
      <3>2. <<DefaultUser>> \o <<>> = <<DefaultUser>>
        OBVIOUS
      <3>3. StartUsers(<<>>) = [i \in 1..1 |-> Normalise(<<DefaultUser>>[i])]
        BY <3>1, <3>2
      <3>4. QED
        BY <3>3
    <2>3. Len(StartUsers(<<>>)) <= MaxObjects
      <3>1. 1 <= MaxObjects
        BY AccessControlAssumption
      <3>2. QED
        BY <2>2, <3>1, Zenon
    <2>4. PICK saved : saved = <<>>
      OBVIOUS
    <2>5. IsFile(saved)
      BY <2>1, <2>3, <2>4 DEF IsFile
    <2>6. QED
      BY <2>4, <2>5
  <1>5. file' = <<>>
    BY DEF SaveOpen
  <1>6. IsFile(file)'
    BY <1>4, <1>5 DEF IsFile, StartUsers
  <1>7. FileTidy'
    BY <1>5 DEF FileTidy
  <1>8. QED
    BY <1>2, <1>3, <1>6, <1>7 DEF IInv

(* What SAVE writes is a file, whose users fit into the list.              *)
LEMMA SaveWriteStep ==
    ASSUME IInv, NEW c \in Conn, SaveWrite(c)
    PROVE  IInv'
  <1> DEFINE saved == [i \in DOMAIN users |-> object[users[i]]]
  <1>1. AccessTypeOK /\ Distinct(users, object) /\ Named(users, object, default) # {}
    BY DistinctNames DEF IInv, UsersConsistent
  <1>2. ops' \in 0..MaxAclOps
    BY <1>1 DEF AccessTypeOK, SaveWrite
  <1>3. UsersConsistent' /\ ListTidy'
    BY <1>2, SavingStep DEF SaveWrite
  <1>4. file' = saved /\ users' = users /\ object' = object
        /\ untidy' = {object[id].Username : id \in touched \intersect Range(users)}
    BY DEF SaveWrite, Saving
  <1>5. SavesCurrent'
    BY <1>4 DEF SavesCurrent
  <1>6. /\ users \in Seq(Id) /\ Len(users) \in Nat /\ DOMAIN users = 1..Len(users)
        /\ Len(users) <= MaxObjects /\ \A i \in DOMAIN users : users[i] \in Range(users)
    BY <1>1, ListFits DEF AccessTypeOK, Range
  <1>7. \A i \in DOMAIN users : saved[i] = object[users[i]] /\ saved[i] \in User
    BY <1>1, <1>6 DEF AccessTypeOK
  <1>8. saved \in Seq(User) /\ DOMAIN saved = DOMAIN users /\ Len(saved) = Len(users)
    BY <1>6, <1>7
  <1> HIDE DEF saved
  <1>9. IsFile(saved)
    <2>1. \A i, j \in DOMAIN saved : saved[i].Username = saved[j].Username => i = j
      BY <1>1, <1>7, <1>8 DEF Distinct
    <2>2. \E i \in DOMAIN saved : saved[i].Username = default
      BY <1>1, <1>7, <1>8 DEF Named
    <2>3. StartUsers(saved) = [i \in 1..Len(users) |-> Normalise(saved[i])]
      BY <1>6, <1>8, <2>2 DEF StartUsers
    <2>4. Len(StartUsers(saved)) = Len(users)
      BY <1>6, <2>3
    <2>5. QED
      BY <1>6, <1>8, <2>1, <2>4 DEF IsFile
  <1>10. IsFile(file)'
    BY <1>4, <1>9 DEF IsFile, StartUsers
  <1>11. FileTidy'
    <2>1. ASSUME NEW i \in DOMAIN saved, saved[i].Username \notin untidy'
          PROVE  Normalise(saved[i]) = saved[i]
      <3>1. users[i] \in Range(users) /\ users[i] \notin touched
        BY <1>4, <1>6, <1>7, <1>8, <2>1
      <3>2. QED
        BY <1>7, <1>8, <3>1 DEF IInv, ListTidy
    <2>2. QED
      BY <1>4, <2>1 DEF FileTidy
  <1>12. QED
    BY <1>3, <1>5, <1>10, <1>11 DEF IInv

LEMMA SaveSyncStep ==
    ASSUME IInv, NEW c \in Conn, SaveSync(c)
    PROVE  IInv'
  <1>1. ops' \in 0..MaxAclOps
    BY DEF IInv, UsersConsistent, AccessTypeOK, SaveSync
  <1>2. UsersConsistent' /\ ListTidy' /\ \A d \in Conn : d # c => saving'[d] = saving[d]
    BY <1>1, SavingStep DEF SaveSync
  <1>3. saving[c] = "written" /\ UNCHANGED <<file, untidy, users, object>>
    BY DEF SaveSync, Saving
  <1>4. SavesCurrent'
    <2>1. ~Unlocked
      BY <1>3 DEF Unlocked
    <2>2. CASE \E d \in Conn : saving[d] = "opened"
      BY <1>2, <1>3, <2>2 DEF SavesCurrent
    <2>3. CASE file = [i \in DOMAIN users |-> object[users[i]]]
      BY <1>3, <2>3 DEF SavesCurrent
    <2>4. QED
      BY <2>1, <2>2, <2>3 DEF IInv, SavesCurrent
  <1>5. IsFile(file)'
    BY <1>3 DEF IInv, IsFile, StartUsers
  <1>6. FileTidy'
    BY <1>3 DEF IInv, FileTidy
  <1>7. QED
    BY <1>2, <1>4, <1>5, <1>6 DEF IInv

LEMMA EditStep ==
    ASSUME IInv, Edit
    PROVE  IInv'
  <1>1. UNCHANGED <<object, users, conns, cut, globs, saving, touched, uncompiled>>
        /\ file' \in Files /\ untidy' = {file'[i].Username : i \in DOMAIN file'}
        /\ Unlocked
    BY DEF Edit
  <1>2. ops' \in 0..MaxAclOps
    BY AccessControlAssumption DEF IInv, UsersConsistent, AccessTypeOK, Edit, AclCommand
  <1>3. AccessTypeOK'
    BY <1>1, <1>2 DEF IInv, UsersConsistent, AccessTypeOK, Attached
  <1>4. OneUserPerName'
    BY <1>1 DEF IInv, UsersConsistent, OneUserPerName, Listed, Named
  <1>5. ConnectionsFollowList'
    BY <1>1 DEF IInv, UsersConsistent, ConnectionsFollowList, Connected
  <1>6. PatternsCompiled'
    BY <1>1 DEF IInv, UsersConsistent, PatternsCompiled, Attached
  <1>7. IsFile(file)'
    <2>1. IsFile(file')
      BY <1>1, InputsAssumption
    <2>2. QED
      BY <2>1 DEF IsFile, StartUsers
  <1>8. ListTidy' /\ FileTidy'
    BY <1>1 DEF IInv, ListTidy, FileTidy
  <1>9. SavesCurrent'
    BY <1>1 DEF SavesCurrent, Unlocked
  <1>10. QED
    BY <1>3, <1>4, <1>5, <1>6, <1>7, <1>8, <1>9 DEF IInv, UsersConsistent

LEMMA RestartStep ==
    ASSUME IInv, Restart
    PROVE  IInv'
  <1>1. IsFile(file) /\ AccessTypeOK
    BY DEF IInv, UsersConsistent
  <1>2. PICK l, o : l = users' /\ o = object'
    OBVIOUS
  <1>3. l = StartList(file) /\ o = StartObjects(file)
    BY <1>2 DEF Restart, StartWith, StartList, StartObjects
  <1>4. /\ o \in [Id -> User \union {NoUser}] /\ l \in Seq(Id)
        /\ Distinct(l, o) /\ Named(l, o, default) # {}
        /\ \A id \in Range(l) : /\ o[id] \in User /\ Normalise(o[id]) = o[id]
                                /\ id \in DOMAIN StartUsers(file)
                                /\ o[id] = StartUsers(file)[id]
    BY <1>1, <1>3, Starting
  <1>5. conns' = [c \in Conn |-> [user |-> NoUser, authenticated |-> FALSE]]
        /\ cut' = {} /\ saving' = [c \in Conn |-> "no"] /\ touched' = {} /\ uncompiled' = {}
        /\ globs' = UNION {Patterns(StartUsers(file)[i]) : i \in DOMAIN StartUsers(file)}
        /\ AclCommand /\ UNCHANGED <<file, untidy>>
    BY DEF Restart, StartWith
  <1>6. Attached' = {} /\ \A c \in Conn : ~Connected(c)'
    BY <1>5 DEF Attached, Connected
  <1>7. /\ SavesCurrent' /\ FileTidy' /\ IsFile(file)' /\ ops' \in 0..MaxAclOps
        /\ saving' \in [Conn -> {"no", "opened", "written"}]
    BY <1>5, LockedStep
  <1>8. AccessTypeOK'
    BY <1>2, <1>4, <1>5, <1>6, <1>7 DEF AccessTypeOK
  <1>9. OneUserPerName'
    BY <1>2, <1>4 DEF OneUserPerName, Listed, Named, Distinct
  <1>10. ConnectionsFollowList'
    BY <1>6 DEF ConnectionsFollowList
  <1>11. PatternsCompiled'
    BY <1>2, <1>4, <1>5, <1>6 DEF PatternsCompiled
  <1>12. ListTidy'
    BY <1>2, <1>4 DEF ListTidy
  <1>13. QED
    BY <1>7, <1>8, <1>9, <1>10, <1>11, <1>12 DEF IInv, UsersConsistent

-----------------------------------------------------------------------------
(* The theorems.                                                           *)

LEMMA NextInvariant == IInv /\ [AccessNext]_accessVars => IInv'
  <1> SUFFICES ASSUME IInv, [AccessNext]_accessVars PROVE IInv'
    OBVIOUS
  <1>1. ASSUME NEW c \in Conn, RegisterConnection(c) PROVE IInv'
    BY <1>1, RegisterStep
  <1>2. ASSUME NEW c \in Conn, Close(c) PROVE IInv'
    BY <1>2, CloseStep
  <1>3. ASSUME NEW c \in Conn, NEW username \in Username, NEW secret \in Secret,
               AuthenticateConnection(c, username, secret)
        PROVE  IInv'
    BY <1>3, AuthenticateStep
  <1>4. ASSUME NEW c \in Conn, SaveOpen(c) PROVE IInv'
    BY <1>4, SaveOpenStep
  <1>5. ASSUME NEW c \in Conn, SaveWrite(c) PROVE IInv'
    BY <1>5, SaveWriteStep
  <1>6. ASSUME NEW c \in Conn, SaveSync(c) PROVE IInv'
    BY <1>6, SaveSyncStep
  <1>7. ASSUME NEW username \in Username, NEW rules \in Rules, SetUser(username, rules)
        PROVE  IInv'
    BY <1>7, SetUserStep
  <1>8. ASSUME NEW usernames \in SUBSET Username, DeleteUser(usernames) PROVE IInv'
    BY <1>8, DeleteUserStep
  <1>9. ASSUME NEW mode \in {"merge", "replace"}, LoadFile(mode) PROVE IInv'
    BY <1>9, LoadStep
  <1>10. CASE Restart
    BY <1>10, RestartStep
  <1>11. CASE Edit
    BY <1>11, EditStep
  <1>12. CASE UNCHANGED accessVars
    <2>1. UNCHANGED <<object, users, conns, cut, globs, file, saving, touched, untidy,
                      uncompiled, ops>>
      BY <1>12 DEF accessVars
    <2>2. AccessTypeOK'
      BY <2>1 DEF IInv, UsersConsistent, AccessTypeOK, Attached
    <2>3. OneUserPerName'
      BY <2>1 DEF IInv, UsersConsistent, OneUserPerName, Listed, Named
    <2>4. ConnectionsFollowList'
      BY <2>1 DEF IInv, UsersConsistent, ConnectionsFollowList, Connected
    <2>5. PatternsCompiled'
      BY <2>1 DEF IInv, UsersConsistent, PatternsCompiled, Attached
    <2>6. IsFile(file)'
      BY <2>1 DEF IInv, IsFile, StartUsers
    <2>7. ListTidy' /\ FileTidy'
      BY <2>1 DEF IInv, ListTidy, FileTidy
    <2>8. SavesCurrent'
      BY <2>1 DEF IInv, SavesCurrent, Unlocked
    <2>9. QED
      BY <2>2, <2>3, <2>4, <2>5, <2>6, <2>7, <2>8 DEF IInv, UsersConsistent
  <1>13. QED
    BY <1>1, <1>2, <1>3, <1>4, <1>5, <1>6, <1>7, <1>8, <1>9, <1>10, <1>11, <1>12 DEF AccessNext

LEMMA Invariant == AccessSpec => []IInv
  BY InitInvariant, NextInvariant, PTL DEF AccessSpec

(* SETUSER, DELUSER, LOAD, SAVE and restarts, beside connections that come *)
(* and go and authenticate, leave one user per name, the default user      *)
(* among them, connections that are cut or attached to a user of the list, *)
(* and the patterns of the users compiled, as UsersConsistent says.        *)
THEOREM UsersConsistentCorrect == AccessSpec => []UsersConsistent
  <1>1. IInv => UsersConsistent
    BY DEF IInv
  <1>2. QED
    BY Invariant, <1>1, PTL

(* Of SAVEs that run beside one another the last one to end leaves the     *)
(* users, as they are then, in the file.                                   *)
THEOREM SavedIsCurrentCorrect == AccessSpec => SavedIsCurrent
  <1> DEFINE A == ~Unlocked /\ Unlocked' /\ ops' = ops =>
                      file' = [i \in DOMAIN users |-> object[users[i]]]
  <1>1. IInv /\ [AccessNext]_accessVars => [A]_accessVars
    <2> SUFFICES ASSUME IInv, AccessNext, ~Unlocked, Unlocked', ops' = ops
                 PROVE  file' = [i \in DOMAIN users |-> object[users[i]]]
      OBVIOUS
    <2>1. ops \in Nat
      BY DEF IInv, UsersConsistent, AccessTypeOK
    <2>2. ~AclCommand
      BY <2>1 DEF AclCommand
    <2>3. saving' # saving
      BY DEF Unlocked
    <2>4. PICK c \in Conn : SaveWrite(c) \/ SaveSync(c)
      BY <2>2, <2>3 DEF AccessNext, RegisterConnection, Close, AuthenticateConnection, SaveOpen,
                        SetUser, DeleteUser, LoadFile, Edit, Restart
    <2>5. CASE SaveWrite(c)
      BY <2>5 DEF SaveWrite
    <2>6. CASE SaveSync(c)
      <3>1. saving \in [Conn -> {"no", "opened", "written"}] /\ saving[c] = "written"
            /\ saving' = [saving EXCEPT ![c] = "no"] /\ file' = file
        BY <2>6 DEF SaveSync, Saving, IInv, UsersConsistent, AccessTypeOK
      <3>2. \A d \in Conn : saving[d] # "opened"
        BY <3>1 DEF Unlocked
      <3>3. QED
        BY <3>1, <3>2 DEF IInv, SavesCurrent
    <2>7. QED
      BY <2>4, <2>5, <2>6
  <1>2. QED
    BY Invariant, <1>1, PTL DEF AccessSpec, SavedIsCurrent

(* A server that starts again has every user of the file, with its rules,  *)
(* but for those that SETUSER had changed in place before the SAVE.        *)
THEOREM RestartRestoresUsersCorrect == AccessSpec => RestartRestoresUsers
  <1> DEFINE A == Restart => \A i \in DOMAIN file : file[i].Username \notin untidy =>
                      /\ Named(users', object', file[i].Username) # {}
                      /\ object'[First(users', object', file[i].Username)] = file[i]
  <1>1. IInv /\ [AccessNext]_accessVars => [A]_accessVars
    <2> SUFFICES ASSUME IInv, Restart, NEW i \in DOMAIN file, file[i].Username \notin untidy
                 PROVE  /\ Named(users', object', file[i].Username) # {}
                        /\ object'[First(users', object', file[i].Username)] = file[i]
      OBVIOUS
    <2>1. users' = StartList(file) /\ object' = StartObjects(file)
      BY DEF Restart, StartWith, StartList, StartObjects
    <2>2. IsFile(file) /\ Normalise(file[i]) = file[i]
      BY DEF IInv, FileTidy
    <2>3. /\ Named(StartList(file), StartObjects(file), file[i].Username) # {}
          /\ StartObjects(file)[First(StartList(file), StartObjects(file), file[i].Username)]
                = Normalise(file[i])
      BY <2>2, Starting
    <2>4. QED
      BY <2>1, <2>2, <2>3
  <1>2. QED
    BY Invariant, <1>1, PTL DEF AccessSpec, RestartRestoresUsers
===============================================================================
