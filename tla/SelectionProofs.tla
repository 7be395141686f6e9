---------------------------- MODULE SelectionProofs ----------------------------
(* Theorems about what a run takes. Invocation, for any chats, accounts, routes   *)
(* and scopes: no turn walks a chat twice or leaves one out. Selection, for any   *)
(* history, options and page sizes: what the server is asked for hides no message *)
(* that the options select, and the topics of a chat share its scan budget.       *)
EXTENDS Invocation, Selection, SequenceTheorems, FiniteSetTheorems, FunctionTheorems,
        WellFoundedInduction, TLAPS

-----------------------------------------------------------------------------
(* Finite sets of numbers, and sequences *)

\* The members of a finite set with an integer each: one has the greatest.
LEMMA Greatest ==
    ASSUME NEW S, IsFiniteSet(S), S # {}, NEW f \in [S -> Int]
    PROVE  \E x \in S : \A y \in S : f[y] <= f[x]
<1> DEFINE Above(x) == {y \in S : f[y] > f[x]}
           Aboves == {Above(x) : x \in S}
<1>1. Aboves \subseteq FiniteSubsetsOf(S)
  <2> SUFFICES ASSUME NEW x \in S PROVE Above(x) \in SUBSET S /\ IsFiniteSet(Above(x))
    BY DEF FiniteSubsetsOf
  <2>1. Above(x) \in SUBSET S
    OBVIOUS
  <2> QED BY <2>1, FS_Subset
<1>2. Aboves # {}
  <2>1. PICK x \in S : TRUE
    OBVIOUS
  <2>2. Above(x) \in Aboves
    BY <2>1
  <2> QED BY <2>2
<1>3. IsWellFoundedOn(StrictSubsetOrdering(S), FiniteSubsetsOf(S))
  BY FS_StrictSubsetOrderingWellFounded
<1>4. PICK U \in Aboves : \A V \in Aboves : <<V, U>> \notin StrictSubsetOrdering(S)
  <2> HIDE DEF Aboves
  <2> QED BY <1>1, <1>2, <1>3, WFMin
<1>5. PICK x \in S : U = Above(x)
  OBVIOUS
<1>6. ASSUME NEW y \in S, f[y] > f[x] PROVE FALSE
  <2>1. \A z \in S : f[z] > f[y] => f[z] > f[x]
    BY <1>6
  <2>2. Above(y) \subseteq Above(x) /\ y \in Above(x) /\ y \notin Above(y)
    BY <2>1, <1>6
  <2>3. Above(y) \in SUBSET S /\ Above(x) \in SUBSET S
    OBVIOUS
  <2>4. <<Above(y), Above(x)>> \in StrictSubsetOrdering(S)
    <3> HIDE DEF Above
    <3> QED BY <2>2, <2>3 DEF StrictSubsetOrdering
  <2> QED BY <2>4, <1>4, <1>5
<1> QED BY <1>6

LEMMA Lowest ==
    ASSUME NEW S, IsFiniteSet(S), S # {}, NEW f \in [S -> Int]
    PROVE  \E x \in S : \A y \in S : f[x] <= f[y]
<1> DEFINE g == [x \in S |-> 0 - f[x]]
<1>1. g \in [S -> Int]
  OBVIOUS
<1>2. PICK x \in S : \A y \in S : g[y] <= g[x]
  <2> HIDE DEF g
  <2> QED BY <1>1, Greatest
<1> QED BY <1>2

LEMMA MaxMinShape ==
    ASSUME NEW T \in SUBSET Nat, IsFiniteSet(T), T # {}
    PROVE  /\ Max(T) \in T /\ \A x \in T : x <= Max(T)
           /\ Min(T) \in T /\ \A x \in T : Min(T) <= x
<1> DEFINE f == [x \in T |-> x]
<1>1. f \in [T -> Int]
  OBVIOUS
<1>2. \E x \in T : \A y \in T : f[y] <= f[x]
  <2> HIDE DEF f
  <2> QED BY <1>1, Greatest
<1>3. \E x \in T : \A y \in T : f[x] <= f[y]
  <2> HIDE DEF f
  <2> QED BY <1>1, Lowest
<1>4. Max(T) \in T /\ \A x \in T : x <= Max(T)
  <2>1. \E x \in T : \A y \in T : x >= y
    BY <1>2
  <2> QED BY <2>1 DEF Max
<1> QED BY <1>3, <1>4 DEF Min

LEMMA LeastNumber ==
    ASSUME NEW n \in Nat, NEW T \in SUBSET (1..n), T # {}
    PROVE  \E k \in T : \A m \in T : k <= m
<1>1. T \in SUBSET Nat /\ IsFiniteSet(T)
  <2>1. IsFiniteSet(1..n)
    BY FS_Interval
  <2>2. IsFiniteSet(T)
    BY <2>1, FS_Subset
  <2> QED BY <2>2
<1> QED BY <1>1, MaxMinShape

\* SetToSeq lists a finite set: every element, and none twice.
LEMMA SetToSeqShape ==
    ASSUME NEW S, IsFiniteSet(S)
    PROVE  /\ SetToSeq(S) \in Seq(S) /\ ToSet(SetToSeq(S)) = S
           /\ \A i, j \in DOMAIN SetToSeq(S) : SetToSeq(S)[i] = SetToSeq(S)[j] => i = j
<1> DEFINE n == Cardinality(S)
<1>1. n \in Nat /\ ExistsBijection(1..n, S)
  BY FS_CardinalityType
<1>2. PICK f \in [1..n -> S] : IsInjective(f)
  <2>1. PICK f \in Bijection(1..n, S) : TRUE
    BY <1>1 DEF ExistsBijection
  <2> QED BY <2>1 DEF Bijection, Injection, IsInjective
<1>3. SetToSeq(S) \in [1..n -> S] /\ IsInjective(SetToSeq(S))
  BY <1>2 DEF SetToSeq
<1>4. SetToSeq(S) \in Injection(1..n, S)
  BY <1>3 DEF Injection, IsInjective
<1>5. IsFiniteSet(1..n) /\ Cardinality(1..n) = n
  BY <1>1, FS_Interval
<1>6. SetToSeq(S) \in Surjection(1..n, S)
  BY <1>4, <1>5, FS_Injection
<1>7. SetToSeq(S) \in Seq(S) /\ DOMAIN SetToSeq(S) = 1..n
  BY <1>1, <1>3
<1>8. ToSet(SetToSeq(S)) = S
  <2>1. \A x \in S : \E i \in 1..n : SetToSeq(S)[i] = x
    BY <1>6 DEF Surjection
  <2>2. \A i \in 1..n : SetToSeq(S)[i] \in S
    BY <1>3
  <2> QED BY <2>1, <2>2, <1>7 DEF ToSet
<1> QED BY <1>3, <1>7, <1>8 DEF IsInjective

LEMMA HeadTailElements ==
    ASSUME NEW S, NEW s \in Seq(S), s # <<>>
    PROVE  /\ Head(s) \in S /\ Tail(s) \in Seq(S)
           /\ ToSet(s) = {Head(s)} \cup ToSet(Tail(s))
           /\ \A i \in DOMAIN Tail(s) : i + 1 \in DOMAIN s /\ Tail(s)[i] = s[i + 1]
           /\ \A i \in DOMAIN s : i # 1 => i - 1 \in DOMAIN Tail(s) /\ Tail(s)[i - 1] = s[i]
           /\ 1 \in DOMAIN s /\ Head(s) = s[1]
<1>1. /\ Len(s) \in Nat \ {0} /\ DOMAIN s = 1..Len(s) /\ Head(s) \in S /\ Head(s) = s[1]
      /\ Tail(s) \in Seq(S) /\ Len(Tail(s)) = Len(s) - 1
      /\ \A i \in 1..Len(Tail(s)) : Tail(s)[i] = s[i + 1]
  BY EmptySeq, LenProperties, HeadTailProperties
<1>2. DOMAIN Tail(s) = 1..(Len(s) - 1)
  BY <1>1, LenProperties
<1>3. \A i \in DOMAIN Tail(s) : i + 1 \in DOMAIN s /\ Tail(s)[i] = s[i + 1]
  BY <1>1, <1>2
<1>4. \A i \in DOMAIN s : i # 1 => i - 1 \in DOMAIN Tail(s) /\ Tail(s)[i - 1] = s[i]
  BY <1>1, <1>2
<1>5. 1 \in DOMAIN s
  BY <1>1
<1>6. \A x : x \in ToSet(s) <=> x = Head(s) \/ x \in ToSet(Tail(s))
  <2>1. ASSUME NEW x \in ToSet(s) PROVE x = Head(s) \/ x \in ToSet(Tail(s))
    <3>1. PICK i \in DOMAIN s : x = s[i]
      BY DEF ToSet
    <3> QED BY <3>1, <1>1, <1>4 DEF ToSet
  <2>2. ASSUME NEW x \in ToSet(Tail(s)) PROVE x \in ToSet(s)
    <3>1. PICK i \in DOMAIN Tail(s) : x = Tail(s)[i]
      BY DEF ToSet
    <3> QED BY <3>1, <1>3 DEF ToSet
  <2>3. Head(s) \in ToSet(s)
    BY <1>1, <1>5 DEF ToSet
  <2> QED BY <2>1, <2>2, <2>3
<1> QED BY <1>1, <1>3, <1>4, <1>5, <1>6

LEMMA FrontShape ==
    ASSUME NEW S, NEW s \in Seq(S), s # <<>>
    PROVE  /\ Last(s) \in S /\ Front(s) \in Seq(S)
           /\ ToSet(s) = ToSet(Front(s)) \cup {Last(s)}
           /\ (\A i, j \in DOMAIN s : s[i] = s[j] => i = j) =>
                 /\ Last(s) \notin ToSet(Front(s))
                 /\ \A i, j \in DOMAIN Front(s) : Front(s)[i] = Front(s)[j] => i = j
<1>1. Len(s) \in Nat \ {0} /\ DOMAIN s = 1..Len(s) /\ \A i \in 1..Len(s) : s[i] \in S
  BY LenProperties, ElementOfSeq, EmptySeq
<1>2. PICK n \in Nat : Len(s) = n + 1
  <2>1. Len(s) - 1 \in Nat /\ Len(s) = (Len(s) - 1) + 1
    BY <1>1
  <2> QED BY <2>1
<1>3. \A i \in 1..n : s[i] \in S
  BY <1>1, <1>2
<1>4. Front(s) = SubSeq(s, 1, n)
  <2>1. n + 1 - 1 = n
    BY <1>2
  <2> QED BY <2>1, <1>2 DEF Front
<1>5. /\ Front(s) \in Seq(S) /\ Len(Front(s)) = (IF 1 <= n THEN n - 1 + 1 ELSE 0)
      /\ \A i \in 1..(n - 1 + 1) : Front(s)[i] = s[1 + i - 1]
  BY <1>3, <1>4, SubSeqProperties
<1>6. Len(Front(s)) = n /\ \A i \in 1..n : Front(s)[i] = s[i]
  <2>1. n - 1 + 1 = n /\ (~(1 <= n) => n = 0) /\ \A i \in 1..n : 1 + i - 1 = i
    BY <1>2
  <2> QED BY <2>1, <1>5
<1>7. DOMAIN Front(s) = 1..n
  BY <1>5, <1>6, LenProperties
<1>8. Last(s) = s[n + 1]
  BY <1>2 DEF Last
<1>9. 1..Len(s) = 1..n \cup {n + 1} /\ n + 1 \notin 1..n
  BY <1>2
<1> QED BY <1>1, <1>5, <1>6, <1>7, <1>8, <1>9 DEF ToSet

LEMMA AppendShape ==
    ASSUME NEW S, NEW s \in Seq(S), NEW e \in S
    PROVE  /\ Append(s, e) \in Seq(S) /\ ToSet(Append(s, e)) = ToSet(s) \cup {e}
           /\ Len(Append(s, e)) = Len(s) + 1
           /\ e \notin ToSet(s) /\ (\A i, j \in DOMAIN s : s[i] = s[j] => i = j) =>
                 \A i, j \in DOMAIN Append(s, e) : Append(s, e)[i] = Append(s, e)[j] => i = j
<1> DEFINE t == Append(s, e)
<1>1. /\ t \in Seq(S) /\ Len(t) = Len(s) + 1 /\ Len(s) \in Nat
      /\ \A i \in 1..Len(s) : t[i] = s[i]
      /\ t[Len(s) + 1] = e
  BY AppendProperties, LenProperties
<1> HIDE DEF t
<1>2. DOMAIN s = 1..Len(s) /\ DOMAIN t = 1..Len(s) \cup {Len(s) + 1} /\ Len(s) + 1 \notin 1..Len(s)
  <2>1. DOMAIN s = 1..Len(s) /\ DOMAIN t = 1..(Len(s) + 1)
    BY <1>1, LenProperties
  <2> QED BY <2>1, <1>1
<1>3. ToSet(t) = ToSet(s) \cup {e}
  BY <1>1, <1>2 DEF ToSet
<1>4. ASSUME e \notin ToSet(s), \A i, j \in DOMAIN s : s[i] = s[j] => i = j
      PROVE  \A i, j \in DOMAIN t : t[i] = t[j] => i = j
  <2>1. \A i \in DOMAIN s : t[i] = s[i] /\ s[i] # e
    BY <1>1, <1>2, <1>4 DEF ToSet
  <2> QED BY <2>1, <1>1, <1>2, <1>4
<1> QED BY <1>1, <1>3, <1>4 DEF t

-----------------------------------------------------------------------------
(* The invocation *)

Kinds == {"main", "routing", "premium"}
Specs_ == [form : {"all", "saved", "id", "name"}, key : STRING]
OwedSessions == [kind : {"routing"}, account : Accounts, specs : Seq(Specs_)]

\* The session has not fixed its targets yet.
Resolving == pc \in {"decide", "init", "resolve"}
\* The chat was walked in full.
Walked(c) == \E i \in DOMAIN walked : walked[i][3] = c /\ walked[i][1] # "premium"
\* The chat is walked by the first session, or by the one of account a.
StaysHome(c) == Pinned \/ RoutesOf(c) = {}
GoesTo(c, a) == ~StaysHome(c) /\ FirstRoute(c).account = a

InvocationTypes ==
    /\ routes \in RouteTables /\ specs \in Seq(Specs_) /\ accounts \in Seq(Accounts)
    /\ pc \in {"account", "decide", "init", "resolve", "age", "walk", "done", "failed"}
    /\ kind \in Kinds /\ account \in Accounts
    /\ targets \in [Chats -> Nat] /\ walked \in Seq(Kinds \X Accounts \X Chats)
    /\ resolved \subseteq Chats
    /\ routed \subseteq {routes[i] : i \in DOMAIN routes}
    /\ kind # "premium" => left \in Seq(Specs_)
    /\ owed \in Seq(OwedSessions)

\* A chat in no routing pass is on no routing table; a routing pass is owed for
\* accounts other than the present one, each once, with all their specs.
RoutedInOrder ==
    /\ \A r \in routed : \E d \in resolved : ~StaysHome(d) /\ r = FirstRoute(d)
    /\ owed # <<>> => kind = "routing"
    /\ \A i \in DOMAIN owed :
          owed[i].account # account /\ ToSet(owed[i].specs) = RoutedTo(owed[i].account)
    /\ \A i, j \in DOMAIN owed : owed[i].account = owed[j].account => i = j
    /\ kind = "routing" /\ Resolving => ToSet(left) \subseteq RoutedTo(account)
    /\ kind = "main" /\ Resolving => walked = <<>> /\ routed = {} /\ resolved = {}

SavedAlone ==
    opts.savedOnly => /\ resolved \subseteq {Saved} /\ kind # "routing"
                      /\ kind = "main" => Targets \subseteq {Saved}

\* What keeps a chat of its session from being walked again.
WalkedApart(c) ==
    /\ targets[c] <= 1
    /\ targets[c] > 0 => ~Walked(c)
    /\ Resolving /\ ~opts.savedOnly => (targets[c] = 1 <=> ChatID(c) \in seen)
    /\ kind = "main" /\ Walked(c) => StaysHome(c)
    /\ kind = "main" /\ pc \in {"age", "walk"} /\ targets[c] > 0 => StaysHome(c)
    /\ kind = "routing" /\ targets[c] > 0 => GoesTo(c, account)
    /\ kind = "routing" /\ Resolving /\ GoesTo(c, account) => ~Walked(c)
    /\ \A i \in DOMAIN owed : GoesTo(c, owed[i].account) => ~Walked(c)
WalkedOnce ==
    /\ \A i, j \in DOMAIN walked :
          /\ walked[i][3] = walked[j][3]
          /\ walked[i][1] # "premium" /\ walked[j][1] # "premium"
          => i = j
    /\ kind # "premium" => \A c \in Chats : WalkedApart(c)

\* Where a chat of the scope is that has not been walked yet.
StillToCome(c) ==
    \/ kind # "premium" /\ targets[c] > 0
    \/ /\ ~StaysHome(c) /\ FirstRoute(c) \in routed
       /\ \/ kind = "main"
          \/ kind = "routing" /\ Resolving /\ GoesTo(c, account)
             /\ FirstRoute(c).spec \in ToSet(left)
          \/ \E i \in DOMAIN owed : GoesTo(c, owed[i].account)
NoneForgotten ==
    /\ pc # "failed" => \A c \in resolved : OldEnough(c) => Walked(c) \/ StillToCome(c)
    /\ pc \in {"account", "done"} => \A c \in resolved : OldEnough(c) => Walked(c)

\* Only a pinned invocation has several turns; it routes and defers nothing.
TurnsToCome ==
    /\ pc = "account" => kind = "main" /\ owed = <<>> /\ routed = {} /\ accounts # <<>>
    /\ Pinned => kind = "main" /\ deferrals = {}
    /\ ~Pinned => accounts = IF pc = "account" THEN <<Default>> ELSE <<>>

InvocationInv ==
    InvocationTypes /\ RoutedInOrder /\ SavedAlone /\ WalkedOnce /\ NoneForgotten /\ TurnsToCome

-----------------------------------------------------------------------------
(* Routes and the chats they match *)

LEMMA RouteShape ==
    ASSUME InvocationAssumption, routes \in RouteTables, NEW i \in DOMAIN routes
    PROVE  /\ routes[i].spec \in Specs_ /\ routes[i].account \in Accounts
           /\ routes[i].spec.form \in {"id", "name"} /\ routes[i].spec.key # ""
<1> DEFINE R == [spec : [form : {"id", "name"}, key : STRING \ {""}], account : DOMAIN Dialogs]
<1>1. routes \in Seq(R)
  BY DEF InvocationAssumption
<1>2. routes[i] \in R
  <2> HIDE DEF R
  <2> QED BY <1>1, LenProperties, ElementOfSeq
<1> QED BY <1>2 DEF Specs_, Accounts

LEMMA FirstRouteShape ==
    ASSUME InvocationAssumption, routes \in RouteTables, NEW c, RoutesOf(c) # {}
    PROVE  /\ FirstRoute(c) \in {routes[i] : i \in DOMAIN routes}
           /\ RouteMatches(FirstRoute(c), c)
           /\ FirstRoute(c).spec \in Specs_ /\ FirstRoute(c).account \in Accounts
           /\ FirstRoute(c).spec.form \in {"id", "name"} /\ FirstRoute(c).spec.key # ""
<1>1. DOMAIN routes = 1..Len(routes) /\ Len(routes) \in Nat
  BY LenProperties DEF InvocationAssumption
<1>2. \E k \in RoutesOf(c) : \A j \in RoutesOf(c) : k <= j
  <2>1. RoutesOf(c) \in SUBSET (1..Len(routes))
    BY <1>1 DEF RoutesOf
  <2> QED BY <2>1, <1>1, LeastNumber
<1>3. PICK k \in RoutesOf(c) : FirstRoute(c) = routes[k]
  BY <1>2 DEF FirstRoute
<1>4. k \in DOMAIN routes /\ RouteMatches(routes[k], c)
  BY DEF RoutesOf
<1> QED BY <1>3, <1>4, RouteShape

\* A route that matches a chat resolves to no other one.
LEMMA OneChatPerRoute ==
    ASSUME InvocationAssumption, routes \in RouteTables, NEW i \in DOMAIN routes,
           NEW c \in Chats, RouteMatches(routes[i], c), account \in Accounts
    PROVE  /\ \A d \in Chats : RouteMatches(routes[i], d) => d = c
           /\ routes[i].spec.form = "id" => ByID(routes[i].spec.key) \subseteq {c}
           /\ routes[i].spec.form = "name" => ByHandle(routes[i].spec.key) = {c}
<1>1. routes[i].spec.form \in {"id", "name"} /\ routes[i].spec.key # ""
  BY RouteShape
<1>2. /\ \A x, y \in Chats : World[x].id = World[y].id => x = y
      /\ \A x, y \in Chats : World[x].handle = World[y].handle /\ x # y => World[x].handle = ""
      /\ \A a \in Accounts : ToSet(Dialogs[a]) \subseteq Chats
  BY DEF InvocationAssumption, Chats, Accounts
<1>3. CASE routes[i].spec.form = "id"
  <2>1. World[c].id = routes[i].spec.key /\ routes[i].spec.key # "0"
    BY <1>3 DEF RouteMatches
  <2>2. \A d \in Chats : World[d].id = routes[i].spec.key => d = c
    BY <2>1, <1>2
  <2>3. \A d \in Chats : RouteMatches(routes[i], d) => d = c
    BY <2>1, <2>2, <1>3 DEF RouteMatches
  <2>4. ByID(routes[i].spec.key) \subseteq {c}
    <3>1. Listed \subseteq Chats
      BY <1>2 DEF Listed
    <3> QED BY <2>2, <3>1 DEF ByID
  <2> QED BY <2>3, <2>4, <1>3
<1>4. CASE routes[i].spec.form = "name"
  <2>1. World[c].handle = routes[i].spec.key
    BY <1>4 DEF RouteMatches
  <2>2. \A d \in Chats : World[d].handle = routes[i].spec.key => d = c
    BY <2>1, <1>1, <1>2
  <2>3. \A d \in Chats : RouteMatches(routes[i], d) => d = c
    BY <2>2, <1>4 DEF RouteMatches
  <2>4. ByHandle(routes[i].spec.key) = {c}
    BY <2>1, <2>2 DEF ByHandle
  <2> QED BY <2>3, <2>4, <1>4
<1> QED BY <1>1, <1>3, <1>4

LEMMA SavedShape ==
    ASSUME InvocationAssumption, routes \in RouteTables
    PROVE  Saved \in Chats /\ RoutesOf(Saved) = {}
<1>1. Saved \in Chats /\ World[Saved].peer = "self"
  BY DEF InvocationAssumption, Saved, Chats
<1>2. World[Saved].id = "0" /\ World[Saved].handle = ""
  BY <1>1 DEF InvocationAssumption, Chats
<1>3. \A i \in DOMAIN routes : ~RouteMatches(routes[i], Saved)
  BY <1>2, RouteShape DEF RouteMatches
<1> QED BY <1>1, <1>3 DEF RoutesOf
-----------------------------------------------------------------------------
(* The steps of an invocation *)

LEMMA SameRoutes ==
    ASSUME UNCHANGED <<routes, flags>>
    PROVE  \A c : /\ RoutesOf(c)' = RoutesOf(c) /\ FirstRoute(c)' = FirstRoute(c)
                  /\ StaysHome(c)' <=> StaysHome(c)
                  /\ \A a : GoesTo(c, a)' <=> GoesTo(c, a)
<1> SUFFICES ASSUME NEW c
             PROVE  /\ RoutesOf(c)' = RoutesOf(c) /\ FirstRoute(c)' = FirstRoute(c)
                    /\ StaysHome(c)' <=> StaysHome(c)
                    /\ \A a : GoesTo(c, a)' <=> GoesTo(c, a)
  OBVIOUS
<1>1. RoutesOf(c)' = RoutesOf(c)
  BY DEF RoutesOf, RouteMatches
<1>2. FirstRoute(c)' = FirstRoute(c)
  BY <1>1 DEF FirstRoute
<1>3. StaysHome(c)' <=> StaysHome(c)
  BY <1>1 DEF StaysHome, Pinned
<1> QED BY <1>1, <1>2, <1>3 DEF GoesTo

\* A session that fails, or has not come to its targets yet, keeps the invariant.
LEMMA SessionGoesOn ==
    ASSUME InvocationInv,
           UNCHANGED <<opts, specs, routes, flags, accounts, deferrals, kind, account, left,
                       seen, targets, routed, owed, walked, resolved>>,
           pc # "account", pc' = "failed" \/ (Resolving /\ pc' \in {"decide", "init", "resolve"})
    PROVE  InvocationInv'
<1>1. Resolving' => Resolving
  BY DEF Resolving
<1>2. InvocationTypes'
  BY DEF InvocationInv, InvocationTypes, OwedSessions, Resolving
<1>3. \A c : Walked(c)' <=> Walked(c)
  BY DEF Walked
<1>4. RoutedInOrder'
  <2>1. \A a : RoutedTo(a)' = RoutedTo(a)
    BY DEF RoutedTo
  <2> QED BY <1>1, <2>1, SameRoutes DEF InvocationInv, RoutedInOrder
<1>5. SavedAlone'
  <2>1. Targets' = Targets
    BY DEF Targets
  <2> QED BY <2>1 DEF InvocationInv, SavedAlone
<1>6. pc' \notin {"age", "walk", "done"}
  BY DEF Resolving
<1>7. WalkedOnce'
  <2>1. \A c : WalkedApart(c) => WalkedApart(c)'
    BY <1>1, <1>3, <1>6, SameRoutes DEF WalkedApart
  <2> QED BY <2>1 DEF InvocationInv, WalkedOnce
<1>8. NoneForgotten'
  <2>1. pc' # "failed" => Resolving /\ Resolving' /\ pc # "failed"
    BY DEF Resolving
  <2>2. \A c : StillToCome(c) /\ pc' # "failed" => StillToCome(c)'
    BY <2>1, SameRoutes DEF StillToCome
  <2>3. \A c : OldEnough(c)' <=> OldEnough(c)
    BY DEF OldEnough
  <2> QED BY <1>3, <1>6, <2>1, <2>2, <2>3 DEF InvocationInv, NoneForgotten
<1>t. TurnsToCome'
  BY DEF InvocationInv, TurnsToCome, Pinned, Resolving
<1> QED BY <1>2, <1>4, <1>5, <1>7, <1>8, <1>t DEF InvocationInv

LEMMA InvocationStarts == ASSUME InvocationAssumption, InvocationInit PROVE InvocationInv
<1>1. /\ pc = "account" /\ kind = "main" /\ account = Default /\ left = <<>> /\ accounts = AccountList
      /\ targets = NoTargets /\ routed = {} /\ deferrals = {} /\ owed = <<>> /\ walked = <<>>
      /\ resolved = {} /\ specs \in SpecLists /\ routes \in RouteTables
      /\ flags.account \in AccountLists
  BY DEF InvocationInit
<1>2. Default \in Accounts /\ specs \in Seq(Specs_) /\ flags.account \in Seq(Accounts)
  BY <1>1 DEF InvocationAssumption, Accounts, Specs_
<1>a. <<Default>> \in Seq(Accounts) /\ <<Default>> # <<>>
  BY <1>2
<1>3. targets \in [Chats -> Nat] /\ \A c \in Chats : targets[c] = 0
  BY <1>1 DEF NoTargets
<1>4. DOMAIN walked = {} /\ DOMAIN owed = {}
  BY <1>1
<1>5. accounts \in Seq(Accounts) /\ accounts # <<>> /\ (~Pinned => accounts = <<Default>>)
  BY <1>1, <1>2, <1>a DEF AccountList, Pinned
<1>6. InvocationTypes
  BY <1>1, <1>2, <1>3, <1>5, EmptySeq DEF InvocationTypes, Kinds
<1>7. RoutedInOrder
  BY <1>1, <1>4 DEF RoutedInOrder, Resolving
<1>8. SavedAlone
  <2>1. Targets = {}
    BY <1>3 DEF Targets
  <2> QED BY <1>1, <2>1 DEF SavedAlone
<1>9. WalkedOnce
  <2>1. \A c \in Chats : ~Walked(c) /\ WalkedApart(c)
    BY <1>1, <1>3, <1>4 DEF WalkedApart, Walked, Resolving
  <2> QED BY <2>1, <1>4 DEF WalkedOnce
<1>10. NoneForgotten
  BY <1>1 DEF NoneForgotten
<1>11. TurnsToCome
  BY <1>1, <1>5 DEF TurnsToCome
<1> QED BY <1>6, <1>7, <1>8, <1>9, <1>10, <1>11 DEF InvocationInv

\* The turn of an account starts afresh; nothing is owed from the turn before.
LEMMA NextAccountStep == ASSUME InvocationInv, NextAccount PROVE InvocationInv'
<1>1. /\ pc = "account" /\ pc' = "decide" /\ kind' = "main" /\ account' = Head(accounts)
      /\ accounts' = Tail(accounts) /\ left' = specs /\ seen' = {} /\ targets' = NoTargets
      /\ walked' = <<>> /\ resolved' = {}
      /\ UNCHANGED <<opts, specs, routes, flags, routed, deferrals, owed>>
  BY DEF NextAccount, input
<1>2. accounts # <<>> /\ owed = <<>> /\ routed = {} /\ InvocationTypes
  BY <1>1 DEF InvocationInv, TurnsToCome
<1>3. account' \in Accounts /\ accounts' \in Seq(Accounts)
  BY <1>1, <1>2, HeadTailElements DEF InvocationTypes
<1>4. targets' \in [Chats -> Nat] /\ \A c \in Chats : targets'[c] = 0
  BY <1>1 DEF NoTargets
<1>5. DOMAIN walked' = {} /\ DOMAIN owed' = {}
  BY <1>1, <1>2
<1>6. InvocationTypes'
  BY <1>1, <1>2, <1>3, <1>4, EmptySeq DEF InvocationTypes, OwedSessions, Kinds
<1>7. RoutedInOrder'
  BY <1>1, <1>2, <1>5 DEF RoutedInOrder
<1>8. SavedAlone'
  <2>1. Targets' = {}
    BY <1>4 DEF Targets
  <2> QED BY <1>1, <2>1 DEF SavedAlone
<1>9. WalkedOnce'
  <2>1. \A c \in Chats : ~Walked(c)' /\ WalkedApart(c)'
    BY <1>1, <1>4, <1>5 DEF WalkedApart, Walked, Resolving
  <2> QED BY <2>1, <1>5 DEF WalkedOnce
<1>10. NoneForgotten'
  BY <1>1 DEF NoneForgotten
<1>11. TurnsToCome'
  <2>1. ~Pinned => accounts = <<Default>>
    BY <1>1 DEF InvocationInv, TurnsToCome
  <2>2. Tail(<<Default>>) = <<>>
    OBVIOUS
  <2>3. Pinned => deferrals = {}
    BY DEF InvocationInv, TurnsToCome
  <2> QED BY <2>1, <2>2, <2>3, <1>1 DEF TurnsToCome, Pinned
<1> QED BY <1>6, <1>7, <1>8, <1>9, <1>10, <1>11 DEF InvocationInv

\* A spec adds its chats. In a routing pass they are those of its account, and the
\* chat routed under the spec is among them.
LEMMA AddsStep ==
    ASSUME InvocationAssumption, InvocationInv, pc = "resolve", left # <<>>, ~opts.savedOnly,
           NEW chats \in SUBSET Chats, Adds(chats),
           UNCHANGED <<opts, specs, routes, flags, accounts, deferrals, kind, account, routed,
                       owed, walked, resolved>>,
           kind = "routing" =>
               /\ \A c \in chats : GoesTo(c, account)
               /\ \A c \in Chats : /\ GoesTo(c, account) /\ FirstRoute(c) \in routed
                                   /\ FirstRoute(c).spec = Head(left)
                                   => c \in chats
    PROVE  InvocationInv'
<1>1. /\ targets' = [c \in Chats |-> IF c \in Unmet(chats) THEN targets[c] + 1 ELSE targets[c]]
      /\ seen' = seen \cup {ChatID(c) : c \in chats} /\ left' = Tail(left) /\ pc' = pc
  BY DEF Adds
<1>2. targets \in [Chats -> Nat] /\ targets' \in [Chats -> Nat]
  <2>1. targets \in [Chats -> Nat]
    BY DEF InvocationInv, InvocationTypes
  <2> QED BY <1>1, <2>1
<1>3. Resolving /\ Resolving' /\ pc' = "resolve"
  BY <1>1 DEF Resolving
<1>4. \A c : Walked(c)' <=> Walked(c)
  BY DEF Walked
<1>5. kind # "premium" => left' \in Seq(Specs_) /\ ToSet(left) = {Head(left)} \cup ToSet(left')
  BY <1>1, HeadTailElements DEF InvocationInv, InvocationTypes
<1>6. \A c \in Chats : ChatID(c) \in seen' <=> ChatID(c) \in seen \/ c \in chats
  <2>1. \A c, d \in Chats : ChatID(c) = ChatID(d) => c = d
    BY DEF InvocationAssumption, Chats, ChatID
  <2> QED BY <2>1, <1>1
<1>7. InvocationTypes'
  BY <1>1, <1>2, <1>5 DEF InvocationInv, InvocationTypes, OwedSessions
<1>8. RoutedInOrder'
  <2>1. \A a : RoutedTo(a)' = RoutedTo(a)
    BY DEF RoutedTo
  <2>2. kind = "routing" => ToSet(left') \subseteq RoutedTo(account)
    BY <1>3, <1>5 DEF InvocationInv, RoutedInOrder
  <2> QED BY <1>3, <2>1, <2>2, SameRoutes DEF InvocationInv, RoutedInOrder
<1>9. SavedAlone'
  BY DEF InvocationInv, SavedAlone
<1>10. ASSUME kind # "premium", NEW c \in Chats
       PROVE  /\ WalkedApart(c)'
              /\ targets[c] > 0 \/ c \in chats => targets'[c] > 0
  <2>1. WalkedApart(c)
    BY <1>10 DEF InvocationInv, WalkedOnce
  <2>2. targets[c] \in Nat /\ targets[c] <= 1 /\ (targets[c] = 1 <=> ChatID(c) \in seen)
    BY <2>1, <1>2, <1>3 DEF WalkedApart
  <2>3. c \in Unmet(chats) <=> c \in chats /\ ChatID(c) \notin seen
    BY DEF Unmet
  <2>4. targets'[c] = IF c \in chats \/ targets[c] = 1 THEN 1 ELSE 0
    BY <2>2, <2>3, <1>1
  <2>5. c \in chats => ~Walked(c)
    <3>1. kind = "main" => ~Walked(c)
      BY <1>3 DEF InvocationInv, RoutedInOrder, Walked
    <3>2. kind = "routing" /\ c \in chats => ~Walked(c)
      BY <2>1, <1>3 DEF WalkedApart
    <3> QED BY <3>1, <3>2, <1>10 DEF InvocationInv, InvocationTypes, Kinds
  <2>6. targets'[c] <= 1 /\ (targets'[c] > 0 <=> c \in chats \/ targets[c] > 0)
    BY <2>2, <2>4
  <2>7. targets'[c] = 1 <=> ChatID(c) \in seen'
    BY <2>2, <2>4, <1>6
  <2>8. WalkedApart(c)'
    BY <2>1, <2>5, <2>6, <2>7, <1>3, <1>4, SameRoutes DEF WalkedApart
  <2> QED BY <2>6, <2>8
<1>11. WalkedOnce'
  BY <1>10 DEF InvocationInv, WalkedOnce
<1>12. ASSUME NEW c \in Chats, StillToCome(c) PROVE StillToCome(c)'
  <2>1. CASE kind # "premium" /\ targets[c] > 0
    BY <2>1, <1>10 DEF StillToCome
  <2>2. CASE ~(kind # "premium" /\ targets[c] > 0)
    <3>1. /\ ~StaysHome(c) /\ FirstRoute(c) \in routed
          /\ \/ kind = "main"
             \/ kind = "routing" /\ Resolving /\ GoesTo(c, account)
                /\ FirstRoute(c).spec \in ToSet(left)
             \/ \E i \in DOMAIN owed : GoesTo(c, owed[i].account)
      BY <2>2, <1>12 DEF StillToCome
    <3>2. CASE /\ kind = "routing" /\ GoesTo(c, account)
               /\ FirstRoute(c).spec = Head(left)
      <4>1. c \in chats
        BY <3>1, <3>2
      <4> QED BY <4>1, <3>2, <1>10 DEF StillToCome
    <3>3. CASE ~(/\ kind = "routing" /\ GoesTo(c, account)
                 /\ FirstRoute(c).spec = Head(left))
      BY <3>1, <3>3, <1>3, <1>5, SameRoutes DEF StillToCome
    <3> QED BY <3>2, <3>3
  <2> QED BY <2>1, <2>2
<1>13. NoneForgotten'
  <2>1. \A c : OldEnough(c)' <=> OldEnough(c)
    BY DEF OldEnough
  <2>2. resolved \subseteq Chats
    BY DEF InvocationInv, InvocationTypes
  <2> QED BY <2>1, <2>2, <1>3, <1>4, <1>12 DEF InvocationInv, NoneForgotten
<1>t. TurnsToCome'
  BY <1>1 DEF InvocationInv, TurnsToCome, Pinned
<1> QED BY <1>7, <1>8, <1>9, <1>11, <1>13, <1>t DEF InvocationInv

\* The spec a routing pass comes to next is that of a route, and stands for one chat.
LEMMA NextRoute ==
    ASSUME InvocationAssumption, InvocationInv, kind = "routing", pc = "resolve", left # <<>>
    PROVE  \E d \in Chats :
              /\ GoesTo(d, account) /\ Head(left).form \in {"id", "name"}
              /\ Head(left).form = "id" => ByID(Head(left).key) \subseteq {d}
              /\ Head(left).form = "name" => ByHandle(Head(left).key) = {d}
              /\ \A c \in Chats : /\ GoesTo(c, account) /\ FirstRoute(c).spec = Head(left)
                                  => c = d
<1>1. /\ routes \in RouteTables /\ account \in Accounts /\ resolved \subseteq Chats
      /\ left \in Seq(Specs_)
  BY DEF InvocationInv, InvocationTypes
<1>2. Head(left) \in RoutedTo(account)
  <2>1. Head(left) \in ToSet(left)
    BY <1>1, HeadTailElements
  <2>2. ToSet(left) \subseteq RoutedTo(account)
    BY DEF InvocationInv, RoutedInOrder, Resolving
  <2> QED BY <2>1, <2>2
<1>3. PICK r \in routed : r.account = account /\ r.spec = Head(left)
  BY <1>2 DEF RoutedTo
<1>4. PICK d \in resolved : ~StaysHome(d) /\ r = FirstRoute(d)
  BY DEF InvocationInv, RoutedInOrder
<1>5. d \in Chats /\ RoutesOf(d) # {} /\ GoesTo(d, account)
  BY <1>1, <1>3, <1>4 DEF StaysHome, GoesTo
<1>6. PICK i \in DOMAIN routes : r = routes[i]
  BY <1>1, <1>4, <1>5, FirstRouteShape
<1>7. RouteMatches(routes[i], d) /\ routes[i].spec.form \in {"id", "name"}
  BY <1>1, <1>4, <1>5, <1>6, FirstRouteShape
<1>8. /\ \A c \in Chats : RouteMatches(routes[i], c) => c = d
      /\ routes[i].spec.form = "id" => ByID(routes[i].spec.key) \subseteq {d}
      /\ routes[i].spec.form = "name" => ByHandle(routes[i].spec.key) = {d}
  BY <1>1, <1>5, <1>7, OneChatPerRoute
<1>9. ASSUME NEW c \in Chats, GoesTo(c, account), FirstRoute(c).spec = Head(left)
      PROVE  c = d
  <2>1. RouteMatches(FirstRoute(c), c)
    BY <1>1, <1>9, FirstRouteShape DEF GoesTo, StaysHome
  <2>2. RouteMatches(routes[i], c)
    BY <2>1, <1>3, <1>6, <1>9 DEF RouteMatches
  <2> QED BY <2>2, <1>8
<1> QED BY <1>3, <1>5, <1>6, <1>7, <1>8, <1>9

LEMMA ResolveSpecStep ==
    ASSUME InvocationAssumption, InvocationInv, ResolveSpec
    PROVE  InvocationInv'
<1>1. /\ pc = "resolve" /\ left # <<>> /\ ~opts.savedOnly
      /\ UNCHANGED <<opts, specs, routes, flags, accounts, deferrals, kind, account, routed,
                     owed, walked, resolved>>
  BY DEF ResolveSpec, input
<1>2. /\ routes \in RouteTables /\ account \in Accounts
  BY DEF InvocationInv, InvocationTypes
<1>3. Listed \subseteq Chats
  BY <1>2 DEF InvocationAssumption, Listed, Chats, Accounts
<1>4. CASE Unknown
  <2>1. pc' = "failed" /\ UNCHANGED <<targets, seen, left>>
    BY <1>4 DEF Unknown, Fail
  <2> QED BY <2>1, <1>1, SessionGoesOn
<1>5. CASE Head(left).form = "all" /\ Adds({c \in Listed : Allows(c)})
  <2>1. kind # "routing"
    BY <1>1, <1>5, NextRoute
  <2>2. {c \in Listed : Allows(c)} \in SUBSET Chats
    BY <1>3
  <2> QED BY <2>1, <2>2, <1>1, <1>5, AddsStep
<1>6. CASE Head(left).form = "saved" /\ Adds({Saved})
  <2>1. kind # "routing"
    BY <1>1, <1>6, NextRoute
  <2>2. {Saved} \in SUBSET Chats
    BY <1>2, SavedShape
  <2> QED BY <2>1, <2>2, <1>1, <1>6, AddsStep
<1>7. ASSUME NEW chats \in SUBSET Chats, chats # {}, Adds(chats),
             \/ Head(left).form = "id" /\ chats = ByID(Head(left).key)
             \/ Head(left).form = "name" /\ chats = ByHandle(Head(left).key)
      PROVE  InvocationInv'
  <2>1. ASSUME kind = "routing"
        PROVE  /\ \A c \in chats : GoesTo(c, account)
               /\ \A c \in Chats : /\ GoesTo(c, account) /\ FirstRoute(c) \in routed
                                   /\ FirstRoute(c).spec = Head(left)
                                   => c \in chats
    <3>1. PICK d \in Chats :
              /\ GoesTo(d, account) /\ Head(left).form \in {"id", "name"}
              /\ Head(left).form = "id" => ByID(Head(left).key) \subseteq {d}
              /\ Head(left).form = "name" => ByHandle(Head(left).key) = {d}
              /\ \A c \in Chats : /\ GoesTo(c, account) /\ FirstRoute(c).spec = Head(left)
                                  => c = d
      BY <2>1, <1>1, NextRoute
    <3>2. chats = {d}
      BY <3>1, <1>7
    <3> QED BY <3>1, <3>2
  <2> QED BY <2>1, <1>1, <1>7, AddsStep
<1>8. ByID(Head(left).key) \in SUBSET Chats /\ ByHandle(Head(left).key) \in SUBSET Chats
  BY <1>3 DEF ByID, ByHandle
<1>9. \/ Unknown
      \/ Head(left).form = "all" /\ Adds({c \in Listed : Allows(c)})
      \/ Head(left).form = "saved" /\ Adds({Saved})
      \/ /\ Head(left).form = "id" /\ ByID(Head(left).key) # {} /\ Adds(ByID(Head(left).key))
      \/ /\ Head(left).form = "name" /\ ByHandle(Head(left).key) # {}
         /\ Adds(ByHandle(Head(left).key))
  BY DEF ResolveSpec, AddsKnown
<1> QED BY <1>4, <1>5, <1>6, <1>7, <1>8, <1>9

LEMMA ResolveSavedStep ==
    ASSUME InvocationAssumption, InvocationInv, ResolveSaved
    PROVE  InvocationInv'
<1>1. /\ pc = "resolve" /\ opts.savedOnly /\ left # <<>> /\ left' = <<>>
      /\ targets' = [NoTargets EXCEPT ![Saved] = 1]
      /\ UNCHANGED <<opts, specs, routes, flags, accounts, deferrals, pc, kind, account, seen,
                     routed, owed, walked, resolved>>
  BY DEF ResolveSaved, input
<1>2. Saved \in Chats
  BY SavedShape DEF InvocationInv, InvocationTypes
<1>3. targets' \in [Chats -> Nat] /\ \A c \in Chats : targets'[c] = IF c = Saved THEN 1 ELSE 0
  BY <1>1, <1>2 DEF NoTargets
<1>4. Resolving /\ Resolving' /\ kind # "routing"
  BY <1>1 DEF Resolving, InvocationInv, SavedAlone
<1>5. \A c : Walked(c)' <=> Walked(c)
  BY <1>1 DEF Walked
<1>6. DOMAIN owed = {}
  <2>1. owed = <<>>
    BY <1>4 DEF InvocationInv, RoutedInOrder
  <2> QED BY <2>1
<1>7. InvocationTypes'
  BY <1>1, <1>3, EmptySeq DEF InvocationInv, InvocationTypes, OwedSessions
<1>8. RoutedInOrder'
  <2>1. \A a : RoutedTo(a)' = RoutedTo(a)
    BY <1>1 DEF RoutedTo
  <2> QED BY <1>1, <1>4, <2>1, SameRoutes DEF InvocationInv, RoutedInOrder
<1>9. SavedAlone'
  <2>1. Targets' \subseteq {Saved}
    BY <1>3 DEF Targets
  <2> QED BY <2>1, <1>1 DEF InvocationInv, SavedAlone
<1>10. WalkedOnce'
  <2>1. ASSUME kind # "premium", NEW c \in Chats PROVE WalkedApart(c)'
    <3>1. kind = "main" /\ ~Walked(c)
      BY <2>1, <1>4 DEF InvocationInv, InvocationTypes, RoutedInOrder, Kinds, Walked
    <3>2. targets'[c] <= 1
      BY <1>3
    <3> QED BY <3>1, <3>2, <1>1, <1>4, <1>5, <1>6 DEF WalkedApart
  <2> QED BY <2>1, <1>1 DEF InvocationInv, WalkedOnce
<1>11. NoneForgotten'
  <2>1. ASSUME NEW c \in resolved, OldEnough(c), ~Walked(c) PROVE FALSE
    <3>1. kind = "premium"
      BY <2>1, <1>4 DEF InvocationInv, InvocationTypes, RoutedInOrder, Kinds
    <3>2. StillToCome(c)
      BY <2>1, <1>1 DEF InvocationInv, NoneForgotten
    <3> QED BY <3>1, <3>2, <1>6 DEF StillToCome
  <2>2. \A c : OldEnough(c)' <=> OldEnough(c)
    BY <1>1 DEF OldEnough
  <2> QED BY <2>1, <2>2, <1>1, <1>5 DEF NoneForgotten
<1>t. TurnsToCome'
  BY <1>1 DEF InvocationInv, TurnsToCome, Pinned
<1> QED BY <1>7, <1>8, <1>9, <1>10, <1>11, <1>t DEF InvocationInv

\* In the first session the routed chats leave; in a later one no chat does.
LEMMA SplitRoutedStep ==
    ASSUME InvocationAssumption, InvocationInv, SplitRouted
    PROVE  InvocationInv'
<1>1. /\ pc = "resolve" /\ left = <<>> /\ pc' = "age"
      /\ targets' = [c \in Chats |-> IF ~Routed(c) THEN targets[c] ELSE 0]
      /\ routed' = routed \cup {FirstRoute(c) : c \in {t \in Targets : Routed(t)}}
      /\ resolved' = IF kind = "main" THEN Targets ELSE resolved
      /\ UNCHANGED <<opts, specs, routes, flags, accounts, deferrals, kind, account, left, seen,
                     owed, walked>>
  BY DEF SplitRouted, Keep, input
<1>2. targets \in [Chats -> Nat] /\ targets' \in [Chats -> Nat]
  <2>1. targets \in [Chats -> Nat]
    BY DEF InvocationInv, InvocationTypes
  <2> QED BY <1>1, <2>1
<1>3. Resolving /\ ~Resolving'
  BY <1>1 DEF Resolving
<1>4. \A c : Walked(c)' <=> Walked(c)
  BY <1>1 DEF Walked
<1>5. \A c : Routed(c) <=> kind = "main" /\ ~StaysHome(c)
  BY DEF Routed, StaysHome
<1>6. \A c \in Chats : /\ targets'[c] = targets[c] \/ (targets'[c] = 0 /\ Routed(c))
                       /\ Routed(c) => targets'[c] = 0
  BY <1>1
<1>a. \A c \in Chats : /\ targets[c] \in Nat /\ targets'[c] \in Nat
                       /\ targets'[c] = targets[c] \/ targets'[c] = 0
  BY <1>1, <1>2
<1>b. \A c \in Chats : /\ targets'[c] <= targets[c] /\ (targets'[c] > 0 => targets[c] > 0)
                       /\ targets'[c] > 0 => targets'[c] # 0
  <2> SUFFICES ASSUME NEW c \in Chats
               PROVE  /\ targets'[c] <= targets[c] /\ (targets'[c] > 0 => targets[c] > 0)
                      /\ targets'[c] > 0 => targets'[c] # 0
    OBVIOUS
  <2>1. \A m, n \in Nat : m = n \/ m = 0 => m <= n /\ (m > 0 => n > 0) /\ (m > 0 => m # 0)
    OBVIOUS
  <2> QED BY <2>1, <1>a
<1>7. Targets \subseteq Chats
  BY DEF Targets
<1>8. routed' \subseteq {routes[i] : i \in DOMAIN routes}
  <2>1. routed \subseteq {routes[i] : i \in DOMAIN routes} /\ routes \in RouteTables
    BY DEF InvocationInv, InvocationTypes
  <2>2. ASSUME NEW c \in Chats, Routed(c)
        PROVE  FirstRoute(c) \in {routes[i] : i \in DOMAIN routes}
    BY <2>1, <2>2, <1>5, FirstRouteShape DEF StaysHome
  <2> QED BY <2>1, <2>2, <1>1, <1>7
<1>9. InvocationTypes'
  BY <1>1, <1>2, <1>7, <1>8 DEF InvocationInv, InvocationTypes, OwedSessions
<1>10. kind # "main" => UNCHANGED <<routed, resolved>> /\ \A c \in Chats : targets'[c] = targets[c]
  BY <1>1, <1>5, <1>6
<1>11. kind = "main" => /\ walked = <<>> /\ routed = {} /\ resolved' = Targets /\ owed = <<>>
                        /\ routed' = {FirstRoute(c) : c \in {t \in Targets : ~StaysHome(t)}}
  BY <1>1, <1>3, <1>5 DEF InvocationInv, RoutedInOrder
<1>12. RoutedInOrder'
  <2>1. CASE kind = "main"
    <3>1. \A r \in routed' : \E d \in resolved' : ~StaysHome(d) /\ r = FirstRoute(d)
      BY <2>1, <1>11
    <3>2. DOMAIN owed = {}
      BY <2>1, <1>11
    <3> QED BY <2>1, <3>1, <3>2, <1>1, <1>3, <1>11, SameRoutes DEF RoutedInOrder
  <2>2. CASE kind # "main"
    <3>1. \A a : RoutedTo(a)' = RoutedTo(a)
      BY <2>2, <1>10 DEF RoutedTo
    <3> QED BY <2>2, <3>1, <1>1, <1>3, <1>10, SameRoutes DEF InvocationInv, RoutedInOrder
  <2> QED BY <2>1, <2>2
<1>13. SavedAlone'
  <2>1. Targets' \subseteq Targets
    BY <1>b DEF Targets
  <2> QED BY <2>1, <1>1 DEF InvocationInv, SavedAlone
<1>14. WalkedOnce'
  <2>1. ASSUME kind # "premium", NEW c \in Chats PROVE WalkedApart(c)'
    <3>1. WalkedApart(c) /\ targets[c] \in Nat /\ targets'[c] \in Nat
      BY <2>1, <1>2 DEF InvocationInv, WalkedOnce
    <3>2. targets[c] <= 1
      BY <3>1 DEF WalkedApart
    <3>3. targets'[c] <= 1 /\ (targets'[c] > 0 => targets[c] > 0)
      BY <3>1, <3>2, <1>b
    <3>4. kind = "main" /\ targets'[c] > 0 => StaysHome(c)
      BY <1>5, <1>6, <1>b
    <3> QED BY <3>1, <3>3, <3>4, <1>1, <1>3, <1>4, SameRoutes DEF WalkedApart
  <2> QED BY <2>1, <1>1 DEF InvocationInv, WalkedOnce
<1>15. NoneForgotten'
  <2>1. \A c : OldEnough(c)' <=> OldEnough(c)
    BY <1>1 DEF OldEnough
  <2>2. CASE kind = "main"
    <3>1. ASSUME NEW c \in Targets PROVE StillToCome(c)'
      <4>1. CASE StaysHome(c)
        <5>a. c \in Chats /\ targets[c] > 0
          BY <3>1 DEF Targets
        <5>b. ~Routed(c)
          BY <4>1, <1>5
        <5>1. targets'[c] > 0
          BY <5>a, <5>b, <1>1
        <5> QED BY <5>1, <2>2, <1>1 DEF StillToCome
      <4>2. CASE ~StaysHome(c)
        <5>1. FirstRoute(c) \in routed'
          BY <2>2, <3>1, <4>2, <1>11
        <5> QED BY <5>1, <4>2, <2>2, <1>1, SameRoutes DEF StillToCome
      <4> QED BY <4>1, <4>2
    <3> QED BY <3>1, <2>2, <1>1, <1>11 DEF NoneForgotten
  <2>3. CASE kind # "main"
    <3>1. ASSUME NEW c \in Chats, StillToCome(c) PROVE StillToCome(c)'
      <4>1. ToSet(left) = {}
        BY <1>1 DEF ToSet
      <4>2. \/ kind # "premium" /\ targets'[c] > 0
            \/ /\ ~StaysHome(c) /\ FirstRoute(c) \in routed
               /\ \E i \in DOMAIN owed : GoesTo(c, owed[i].account)
        BY <2>3, <3>1, <4>1, <1>10 DEF StillToCome
      <4> QED BY <4>2, <2>3, <1>1, <1>10, SameRoutes DEF StillToCome
    <3>2. resolved \subseteq Chats
      BY DEF InvocationInv, InvocationTypes
    <3> QED BY <3>1, <3>2, <2>1, <2>3, <1>1, <1>4, <1>10 DEF InvocationInv, NoneForgotten
  <2> QED BY <2>2, <2>3
<1>t. TurnsToCome'
  BY <1>1 DEF InvocationInv, TurnsToCome, Pinned
<1> QED BY <1>9, <1>12, <1>13, <1>14, <1>15, <1>t DEF InvocationInv

LEMMA FilterByMinAgeStep == ASSUME InvocationInv, FilterByMinAge PROVE InvocationInv'
<1>1. /\ pc = "age" /\ pc' = "walk"
      /\ targets' = [c \in Chats |-> IF OldEnough(c) THEN targets[c] ELSE 0]
      /\ UNCHANGED <<opts, specs, routes, flags, accounts, deferrals, kind, account, left, seen,
                     routed, owed, walked, resolved>>
  BY DEF FilterByMinAge, Keep, input
<1>2. targets \in [Chats -> Nat] /\ targets' \in [Chats -> Nat]
  <2>1. targets \in [Chats -> Nat]
    BY DEF InvocationInv, InvocationTypes
  <2> QED BY <1>1, <2>1
<1>3. ~Resolving /\ ~Resolving'
  BY <1>1 DEF Resolving
<1>4. \A c : Walked(c)' <=> Walked(c)
  BY <1>1 DEF Walked
<1>5. \A c \in Chats : /\ targets'[c] > 0 => targets'[c] = targets[c]
                       /\ OldEnough(c) => targets'[c] = targets[c]
  BY <1>1
<1>a. \A c \in Chats : /\ targets[c] \in Nat /\ targets'[c] \in Nat
                       /\ targets'[c] = targets[c] \/ targets'[c] = 0
  BY <1>1, <1>2
<1>b. \A c \in Chats : targets'[c] <= targets[c] /\ (targets'[c] > 0 => targets[c] > 0)
  <2>1. \A m, n \in Nat : m = n \/ m = 0 => m <= n /\ (m > 0 => n > 0)
    OBVIOUS
  <2> QED BY <2>1, <1>a
<1>6. InvocationTypes'
  BY <1>1, <1>2 DEF InvocationInv, InvocationTypes, OwedSessions
<1>7. RoutedInOrder'
  <2>1. \A a : RoutedTo(a)' = RoutedTo(a)
    BY <1>1 DEF RoutedTo
  <2> QED BY <1>1, <1>3, <2>1, SameRoutes DEF InvocationInv, RoutedInOrder
<1>8. SavedAlone'
  <2>1. Targets' \subseteq Targets
    BY <1>b DEF Targets
  <2> QED BY <2>1, <1>1 DEF InvocationInv, SavedAlone
<1>9. WalkedOnce'
  <2>1. ASSUME kind # "premium", NEW c \in Chats PROVE WalkedApart(c)'
    <3>1. WalkedApart(c) /\ targets[c] \in Nat /\ targets'[c] \in Nat
      BY <2>1, <1>2 DEF InvocationInv, WalkedOnce
    <3>2. targets'[c] <= 1
      <4>1. targets[c] <= 1
        BY <3>1 DEF WalkedApart
      <4> QED BY <4>1, <3>1, <1>b
    <3>3. targets'[c] > 0 => targets[c] > 0
      BY <1>b
    <3> QED BY <3>1, <3>2, <3>3, <1>1, <1>3, <1>4, SameRoutes DEF WalkedApart
  <2> QED BY <2>1, <1>1 DEF InvocationInv, WalkedOnce
<1>10. NoneForgotten'
  <2>1. \A c : OldEnough(c)' <=> OldEnough(c)
    BY <1>1 DEF OldEnough
  <2>2. ASSUME NEW c \in Chats, OldEnough(c), StillToCome(c) PROVE StillToCome(c)'
    BY <2>2, <1>1, <1>3, <1>5, SameRoutes DEF StillToCome
  <2>3. resolved \subseteq Chats
    BY DEF InvocationInv, InvocationTypes
  <2> QED BY <2>1, <2>2, <2>3, <1>1, <1>4 DEF InvocationInv, NoneForgotten
<1>t. TurnsToCome'
  BY <1>1 DEF InvocationInv, TurnsToCome, Pinned
<1> QED BY <1>6, <1>7, <1>8, <1>9, <1>10, <1>t DEF InvocationInv

LEMMA WalkStep == ASSUME InvocationInv, Walk PROVE InvocationInv'
<1>1. PICK c \in Targets :
         /\ walked' = Append(walked, <<kind, account, c>>)
         /\ targets' = [targets EXCEPT ![c] = @ - 1]
  BY DEF Walk
<1>2. /\ pc = "walk"
      /\ UNCHANGED <<opts, specs, routes, flags, accounts, deferrals, pc, kind, account, left,
                     seen, routed, owed, resolved>>
  BY DEF Walk, input
<1>3. c \in Chats /\ targets[c] > 0 /\ targets \in [Chats -> Nat]
  BY DEF Targets, InvocationInv, InvocationTypes
<1>4. targets' \in [Chats -> Nat] /\ \A d \in Chats : d # c => targets'[d] = targets[d]
  <2>1. targets[c] - 1 \in Nat
    BY <1>3
  <2> QED BY <2>1, <1>1, <1>3
<1>5. ~Resolving /\ ~Resolving'
  BY <1>2 DEF Resolving
<1> DEFINE w == <<kind, account, c>>
           W == Kinds \X Accounts \X Chats
           n == Len(walked)
<1>6. walked \in Seq(W) /\ w \in W /\ n \in Nat /\ DOMAIN walked = 1..n
  BY <1>3, LenProperties DEF InvocationInv, InvocationTypes
<1>7. /\ walked' \in Seq(W) /\ DOMAIN walked' = DOMAIN walked \cup {n + 1}
      /\ n + 1 \notin DOMAIN walked
      /\ \A i \in DOMAIN walked : walked'[i] = walked[i]
      /\ walked'[n + 1] = w
  <2> DEFINE v == walked'
  <2>1. /\ v \in Seq(W) /\ Len(v) = n + 1 /\ v[n + 1] = w
        /\ \A i \in 1..n : v[i] = walked[i]
    <3> HIDE DEF W, w
    <3> QED BY <1>1, <1>6, AppendProperties DEF w
  <2> HIDE DEF v, W, w
  <2>2. DOMAIN v = 1..(n + 1)
    BY <2>1, LenProperties
  <2>3. 1..(n + 1) = 1..n \cup {n + 1} /\ n + 1 \notin 1..n
    BY <1>6
  <2> QED BY <2>1, <2>2, <2>3, <1>6 DEF v
<1>8. w[1] = kind /\ w[3] = c
  OBVIOUS
<1>9. \A d : Walked(d)' <=> Walked(d) \/ (d = c /\ kind # "premium")
  <2> HIDE DEF w, n, W
  <2> QED BY <1>7, <1>8 DEF Walked
<1>10. InvocationTypes'
  BY <1>2, <1>4, <1>7 DEF InvocationInv, InvocationTypes, OwedSessions
<1>11. RoutedInOrder'
  <2>1. \A a : RoutedTo(a)' = RoutedTo(a)
    BY <1>2 DEF RoutedTo
  <2> QED BY <1>2, <1>5, <2>1, SameRoutes DEF InvocationInv, RoutedInOrder
<1>12. SavedAlone'
  <2>1. Targets' \subseteq Targets
    BY <1>3, <1>4 DEF Targets
  <2> QED BY <2>1, <1>2 DEF InvocationInv, SavedAlone
<1>13. ASSUME kind # "premium"
       PROVE  /\ ~Walked(c) /\ targets[c] = 1 /\ targets'[c] = 0
              /\ kind = "main" => StaysHome(c)
              /\ kind = "routing" => GoesTo(c, account)
  <2>1. WalkedApart(c)
    BY <1>3, <1>13 DEF InvocationInv, WalkedOnce
  <2>2. ~Walked(c) /\ targets[c] <= 1
    BY <2>1, <1>3 DEF WalkedApart
  <2>3. /\ kind = "main" => StaysHome(c)
        /\ kind = "routing" => GoesTo(c, account)
    BY <2>1, <1>2, <1>3 DEF WalkedApart
  <2>4. targets[c] = 1
    BY <2>2, <1>3
  <2>5. targets'[c] = 0
    BY <2>4, <1>1, <1>3
  <2> QED BY <2>2, <2>3, <2>4, <2>5
<1>14. ASSUME kind # "premium", NEW d \in Chats PROVE WalkedApart(d)'
  <2>1. WalkedApart(d) /\ targets[d] \in Nat
    BY <1>3, <1>14 DEF InvocationInv, WalkedOnce
  <2>2. CASE d # c
    <3>1. (Walked(d)' <=> Walked(d)) /\ targets'[d] = targets[d]
      BY <2>2, <1>4, <1>9
    <3> QED BY <2>1, <3>1, <1>2, <1>5, SameRoutes DEF WalkedApart
  <2>3. CASE d = c
    <3>1. targets'[d] = 0 /\ Walked(d)'
      BY <2>3, <1>9, <1>13, <1>14
    <3>2. kind = "main" => StaysHome(d)
      BY <2>3, <1>13, <1>14
    <3>3. \A i \in DOMAIN owed : ~GoesTo(d, owed[i].account)
      <4> SUFFICES ASSUME NEW i \in DOMAIN owed PROVE ~GoesTo(d, owed[i].account)
        OBVIOUS
      <4>1. kind = "routing" /\ owed[i].account # account
        <5>1. owed # <<>>
          OBVIOUS
        <5> QED BY <5>1 DEF InvocationInv, RoutedInOrder
      <4>2. GoesTo(d, account)
        BY <2>3, <4>1, <1>13
      <4> QED BY <4>1, <4>2 DEF GoesTo
    <3> QED BY <3>1, <3>2, <3>3, <1>2, <1>5, SameRoutes DEF WalkedApart
  <2> QED BY <2>2, <2>3
<1>15. WalkedOnce'
  <2>1. ASSUME NEW i \in DOMAIN walked', NEW j \in DOMAIN walked',
               walked'[i][3] = walked'[j][3],
               walked'[i][1] # "premium", walked'[j][1] # "premium"
        PROVE  i = j
    <3> HIDE DEF w, n, W
    <3>1. CASE i \in DOMAIN walked /\ j \in DOMAIN walked
      BY <2>1, <3>1, <1>7 DEF InvocationInv, WalkedOnce
    <3>2. CASE i \in DOMAIN walked /\ j = n + 1
      <4>1. walked[i][3] = c /\ walked[i][1] # "premium" /\ kind # "premium"
        BY <2>1, <3>2, <1>7, <1>8
      <4> QED BY <3>2, <4>1, <1>13 DEF Walked
    <3>3. CASE i = n + 1 /\ j \in DOMAIN walked
      <4>1. walked[j][3] = c /\ walked[j][1] # "premium" /\ kind # "premium"
        BY <2>1, <3>3, <1>7, <1>8
      <4> QED BY <3>3, <4>1, <1>13 DEF Walked
    <3> QED BY <3>1, <3>2, <3>3, <1>7
  <2> QED BY <2>1, <1>2, <1>14 DEF WalkedOnce
<1>16. NoneForgotten'
  <2>1. \A d : OldEnough(d)' <=> OldEnough(d)
    BY <1>2 DEF OldEnough
  <2>2. ASSUME NEW d \in Chats, Walked(d) \/ StillToCome(d) PROVE Walked(d)' \/ StillToCome(d)'
    <3>1. CASE d = c /\ kind # "premium"
      BY <3>1, <1>9
    <3>2. CASE d # c \/ kind = "premium"
      <4>1. kind # "premium" => targets'[d] = targets[d]
        BY <3>2, <1>4
      <4> QED BY <2>2, <4>1, <1>2, <1>5, <1>9, SameRoutes DEF StillToCome
    <3> QED BY <3>1, <3>2
  <2>3. resolved \subseteq Chats
    BY DEF InvocationInv, InvocationTypes
  <2> QED BY <2>1, <2>2, <2>3, <1>2 DEF InvocationInv, NoneForgotten
<1>t. TurnsToCome'
  BY <1>2 DEF InvocationInv, TurnsToCome, Pinned
<1> QED BY <1>10, <1>11, <1>12, <1>15, <1>16, <1>t DEF InvocationInv

\* The next session is a routing pass, the first of those still owed.
LEMMA OpenPass ==
    ASSUME InvocationInv, Targets = {}, ~opts.savedOnly, ~Pinned, accounts = <<>>,
           NEW passes \in Seq(OwedSessions), passes # <<>>, Open(passes), seen' = {},
           UNCHANGED <<opts, specs, routes, flags, accounts, targets, routed, walked, resolved>>,
           \A i \in DOMAIN passes : ToSet(passes[i].specs) = RoutedTo(passes[i].account),
           \A i, j \in DOMAIN passes : passes[i].account = passes[j].account => i = j,
           \A c \in Chats, i \in DOMAIN passes : GoesTo(c, passes[i].account) => ~Walked(c),
           \A c \in resolved : OldEnough(c) =>
              \/ Walked(c)
              \/ /\ ~StaysHome(c) /\ FirstRoute(c) \in routed
                 /\ \E i \in DOMAIN passes : GoesTo(c, passes[i].account)
    PROVE  InvocationInv'
<1> DEFINE first == Head(passes)
<1>1. /\ pc' = "decide" /\ owed' = Tail(passes)
      /\ kind' = first.kind /\ account' = first.account /\ left' = first.specs
  BY DEF Open
<1>2. /\ first \in OwedSessions /\ owed' \in Seq(OwedSessions) /\ 1 \in DOMAIN passes
      /\ first = passes[1]
      /\ \A i \in DOMAIN owed' : i + 1 \in DOMAIN passes /\ owed'[i] = passes[i + 1]
      /\ \A i \in DOMAIN passes : i # 1 => i - 1 \in DOMAIN owed' /\ owed'[i - 1] = passes[i]
  BY <1>1, HeadTailElements
<1>3. kind' = "routing" /\ account' \in Accounts /\ left' \in Seq(Specs_)
  <2> HIDE DEF first
  <2> QED BY <1>1, <1>2 DEF OwedSessions
<1>4. \A c \in Chats : targets[c] = 0
  BY DEF Targets, InvocationInv, InvocationTypes
<1>5. Resolving'
  BY <1>1 DEF Resolving
<1>6. \A c : (Walked(c)' <=> Walked(c)) /\ (OldEnough(c)' <=> OldEnough(c))
  BY DEF Walked, OldEnough
<1>7. \A a : RoutedTo(a)' = RoutedTo(a)
  BY DEF RoutedTo
<1>8. InvocationTypes'
  BY <1>1, <1>2, <1>3 DEF InvocationInv, InvocationTypes, OwedSessions, Kinds
<1>9. \A i \in DOMAIN owed' : i \in Int /\ i > 0
  BY <1>2, LenProperties
<1>10. RoutedInOrder'
  <2>1. \A r \in routed' : \E d \in resolved' : ~StaysHome(d)' /\ r = FirstRoute(d)'
    BY SameRoutes DEF InvocationInv, RoutedInOrder
  <2>2. ASSUME NEW i \in DOMAIN owed'
        PROVE  /\ owed'[i].account # account'
               /\ ToSet(owed'[i].specs) = RoutedTo(owed[i].account)'
    <3>1. i + 1 # 1 /\ i + 1 \in DOMAIN passes /\ owed'[i] = passes[i + 1]
      BY <1>2, <1>9
    <3>2. passes[i + 1].account # passes[1].account
      BY <3>1, <1>2
    <3>3. ToSet(passes[i + 1].specs) = RoutedTo(passes[i + 1].account)
      BY <3>1
    <3>4. RoutedTo(passes[i + 1].account) = RoutedTo(owed[i].account)'
      BY <3>1 DEF RoutedTo
    <3> QED BY <3>1, <3>2, <3>3, <3>4, <1>1, <1>2
  <2>3. ASSUME NEW i \in DOMAIN owed', NEW j \in DOMAIN owed', owed'[i].account = owed'[j].account
        PROVE  i = j
    <3>1. i + 1 = j + 1
      BY <2>3, <1>2
    <3> QED BY <3>1, <1>9
  <2>4. ToSet(left') \subseteq RoutedTo(account)'
    <3>1. ToSet(passes[1].specs) = RoutedTo(passes[1].account)
      BY <1>2
    <3>2. RoutedTo(account') = RoutedTo(account)'
      BY DEF RoutedTo
    <3> QED BY <3>1, <3>2, <1>1, <1>2
  <2> QED BY <2>1, <2>2, <2>3, <2>4, <1>3 DEF RoutedInOrder
<1>11. SavedAlone'
  BY DEF SavedAlone
<1>12. WalkedOnce'
  <2>1. ASSUME NEW c \in Chats PROVE WalkedApart(c)'
    <3>1. GoesTo(c, account)' => ~Walked(c)
      BY <1>1, <1>2, SameRoutes
    <3>2. \A i \in DOMAIN owed' : GoesTo(c, owed[i].account)' => ~Walked(c)
      BY <1>2, SameRoutes
    <3>3. targets'[c] = 0 /\ ChatID(c) \notin seen'
      BY <1>4
    <3> QED BY <3>1, <3>2, <3>3, <1>1, <1>3, <1>6 DEF WalkedApart, ChatID
  <2> QED BY <2>1 DEF InvocationInv, WalkedOnce
<1>13. NoneForgotten'
  <2>1. ASSUME NEW c \in resolved, OldEnough(c), ~Walked(c) PROVE StillToCome(c)'
    <3>1. PICK i \in DOMAIN passes :
             ~StaysHome(c) /\ FirstRoute(c) \in routed /\ GoesTo(c, passes[i].account)
      BY <2>1
    <3>2. CASE i = 1
      <4>1. GoesTo(c, account') /\ GoesTo(c, account)'
        BY <3>1, <3>2, <1>1, <1>2, SameRoutes
      <4>2. FirstRoute(c).spec \in RoutedTo(account')
        BY <4>1, <3>1 DEF GoesTo, RoutedTo
      <4>3. ToSet(left') = RoutedTo(account')
        BY <1>1, <1>2
      <4> QED BY <4>1, <4>2, <4>3, <3>1, <1>3, <1>5, SameRoutes DEF StillToCome
    <3>3. CASE i # 1
      <4>1. i - 1 \in DOMAIN owed' /\ owed'[i - 1] = passes[i]
        BY <3>3, <1>2
      <4>2. \E j \in DOMAIN owed' : GoesTo(c, owed[j].account)'
        BY <4>1, <3>1, SameRoutes
      <4> QED BY <4>2, <3>1, <1>3, SameRoutes DEF StillToCome
    <3> QED BY <3>2, <3>3
  <2> QED BY <2>1, <1>1, <1>6 DEF NoneForgotten
<1>t. TurnsToCome'
  BY <1>1 DEF TurnsToCome, Pinned
<1> QED BY <1>8, <1>10, <1>11, <1>12, <1>13, <1>t DEF InvocationInv

\* Nothing is owed any more and every chat was walked: a premium pass, or the end.
LEMMA OpenLast ==
    ASSUME InvocationAssumption, InvocationInv, Targets = {}, owed = <<>>, accounts = <<>>, NEW ids,
           \/ Open(<<>>)
           \/ kind # "premium" /\ Open(PremiumPass(ids)),
           seen' = {}, pc = "walk",
           UNCHANGED <<opts, specs, routes, flags, accounts, targets, routed, walked, resolved>>,
           Pinned => kind = "main" /\ ids = {} /\ deferrals' = {},
           \A c \in resolved : OldEnough(c) => Walked(c)
    PROVE  InvocationInv'
<1>1. \A c \in Chats : targets[c] = 0
  BY DEF Targets, InvocationInv, InvocationTypes
<1>2. \A c : (Walked(c)' <=> Walked(c)) /\ (OldEnough(c)' <=> OldEnough(c))
  BY DEF Walked, OldEnough
<1>3. \A a : RoutedTo(a)' = RoutedTo(a)
  BY DEF RoutedTo
<1>4. CASE Open(<<>>)
  <2>1. pc' = "done" /\ UNCHANGED <<kind, account, left, owed>>
    BY <1>4 DEF Open
  <2>2. ~Resolving'
    BY <2>1 DEF Resolving
  <2>3. InvocationTypes'
    BY <2>1 DEF InvocationInv, InvocationTypes, OwedSessions
  <2>4. RoutedInOrder'
    BY <2>1, <2>2, <1>3, SameRoutes DEF InvocationInv, RoutedInOrder
  <2>5. SavedAlone'
    BY <2>1 DEF InvocationInv, SavedAlone, Targets
  <2>6. WalkedOnce'
    <3>1. \A c \in Chats : WalkedApart(c) => WalkedApart(c)'
      BY <2>1, <2>2, <1>1, <1>2, SameRoutes DEF WalkedApart
    <3> QED BY <3>1, <2>1 DEF InvocationInv, WalkedOnce
  <2>7. NoneForgotten'
    BY <1>2 DEF NoneForgotten
  <2>8. TurnsToCome'
    BY <2>1 DEF TurnsToCome, Pinned
  <2> QED BY <2>3, <2>4, <2>5, <2>6, <2>7, <2>8 DEF InvocationInv
<1>5. CASE ~Open(<<>>)
  <2>1. PremiumPass(ids) # <<>> /\ Open(PremiumPass(ids))
    BY <1>5
  <2> DEFINE pass == Session("premium", Premium, {Spec_("id", id) : id \in ids})
  <2>2. PremiumPass(ids) = <<pass>> /\ Premium # NoAccount
    BY <2>1 DEF PremiumPass
  <2>3. Head(<<pass>>) = pass /\ Tail(<<pass>>) = <<>>
    OBVIOUS
  <2>4. pass.kind = "premium" /\ pass.account = Premium
    BY DEF Session
  <2>5. pc' = "decide" /\ kind' = "premium" /\ account' = Premium /\ owed' = <<>>
    <3> HIDE DEF pass
    <3> QED BY <2>1, <2>2, <2>3, <2>4 DEF Open
  <2>6. Premium \in Accounts
    BY <2>2 DEF InvocationAssumption, Accounts
  <2>7. InvocationTypes'
    BY <2>5, <2>6, EmptySeq DEF InvocationInv, InvocationTypes, OwedSessions, Kinds
  <2>8. RoutedInOrder'
    <3>1. \A r \in routed' : \E d \in resolved' : ~StaysHome(d)' /\ r = FirstRoute(d)'
      BY SameRoutes DEF InvocationInv, RoutedInOrder
    <3>2. DOMAIN owed' = {}
      BY <2>5
    <3> QED BY <3>1, <3>2, <2>5 DEF RoutedInOrder
  <2>9. SavedAlone'
    BY <2>5 DEF InvocationInv, SavedAlone
  <2>10. WalkedOnce'
    BY <2>5 DEF InvocationInv, WalkedOnce
  <2>11. NoneForgotten'
    BY <2>5, <1>2 DEF NoneForgotten
  <2>12. TurnsToCome'
    <3>1. ids # {}
      BY <2>1 DEF PremiumPass
    <3> QED BY <3>1, <2>5 DEF TurnsToCome, Pinned
  <2> QED BY <2>7, <2>8, <2>9, <2>10, <2>11, <2>12 DEF InvocationInv
<1> QED BY <1>4, <1>5

LEMMA RoutedIsFinite ==
    ASSUME InvocationAssumption, InvocationTypes
    PROVE  IsFiniteSet({r.account : r \in routed}) /\ \A a : IsFiniteSet(RoutedTo(a))
<1>1. /\ DOMAIN routes = 1..Len(routes) /\ Len(routes) \in Nat
      /\ routed \subseteq {routes[i] : i \in DOMAIN routes}
  BY LenProperties DEF InvocationAssumption, InvocationTypes
<1>2. IsFiniteSet(1..Len(routes))
  <2>1. 1 \in Int /\ Len(routes) \in Int
    BY <1>1
  <2> QED BY <2>1, FS_Interval
<1>3. IsFiniteSet({r.account : r \in routed})
  <2> DEFINE I == {i \in 1..Len(routes) : routes[i] \in routed}
             f == [i \in I |-> routes[i].account]
  <2>1. IsFiniteSet(I)
    BY <1>2, FS_Subset
  <2>2. f \in Surjection(I, {r.account : r \in routed})
    BY <1>1 DEF Surjection
  <2> QED BY <2>1, <2>2, FS_Surjection
<1>4. ASSUME NEW a PROVE IsFiniteSet(RoutedTo(a))
  <2> DEFINE I == {i \in 1..Len(routes) : routes[i] \in routed /\ routes[i].account = a}
             f == [i \in I |-> routes[i].spec]
  <2>1. IsFiniteSet(I)
    BY <1>2, FS_Subset
  <2>2. f \in Surjection(I, RoutedTo(a))
    BY <1>1 DEF Surjection, RoutedTo
  <2> QED BY <2>1, <2>2, FS_Surjection
<1> QED BY <1>3, <1>4

\* The routing passes: one per account that has routed chats, with all their specs.
LEMMA RoutingPassesShape ==
    ASSUME InvocationAssumption, InvocationTypes
    PROVE  /\ RoutingPasses \in Seq(OwedSessions)
           /\ \A i \in DOMAIN RoutingPasses :
                 ToSet(RoutingPasses[i].specs) = RoutedTo(RoutingPasses[i].account)
           /\ \A i, j \in DOMAIN RoutingPasses :
                 RoutingPasses[i].account = RoutingPasses[j].account => i = j
           /\ \A r \in routed :
                 \E i \in DOMAIN RoutingPasses : RoutingPasses[i].account = r.account
           /\ routed = {} => RoutingPasses = <<>>
<1> DEFINE A == {r.account : r \in routed}
           names == SetToSeq(A)
<1>1. /\ names \in Seq(A) /\ ToSet(names) = A
      /\ \A i, j \in DOMAIN names : names[i] = names[j] => i = j
  <2>1. IsFiniteSet(A)
    BY RoutedIsFinite
  <2> HIDE DEF A
  <2> QED BY <2>1, SetToSeqShape
<1>2. RoutingPasses = [i \in DOMAIN names |->
                         [kind |-> "routing", account |-> names[i],
                          specs |-> SetToSeq(RoutedTo(names[i]))]]
  BY DEF RoutingPasses, Session
<1> HIDE DEF names
<1>3. /\ DOMAIN names = 1..Len(names) /\ Len(names) \in Nat
      /\ \A i \in DOMAIN names : names[i] \in A
  <2> HIDE DEF A
  <2> QED BY <1>1, LenProperties, ElementOfSeq
<1>4. routed \subseteq {routes[i] : i \in DOMAIN routes} /\ routes \in RouteTables
  BY DEF InvocationTypes
<1>5. A \subseteq Accounts /\ \A a : RoutedTo(a) \subseteq Specs_
  BY <1>4, RouteShape DEF RoutedTo
<1>6. \A a : /\ SetToSeq(RoutedTo(a)) \in Seq(RoutedTo(a))
             /\ ToSet(SetToSeq(RoutedTo(a))) = RoutedTo(a)
  BY RoutedIsFinite, SetToSeqShape
<1>7. \A a : SetToSeq(RoutedTo(a)) \in Seq(Specs_)
  BY <1>5, <1>6, SeqMonotonic
<1>8. RoutingPasses \in Seq(OwedSessions)
  <2>1. \A i \in 1..Len(names) : RoutingPasses[i] \in OwedSessions
    BY <1>2, <1>3, <1>5, <1>7 DEF OwedSessions
  <2>2. RoutingPasses \in [1..Len(names) -> OwedSessions]
    BY <2>1, <1>2, <1>3
  <2> QED BY <2>2, <1>3
<1>9. DOMAIN RoutingPasses = DOMAIN names
  BY <1>2
<1>10. \A i \in DOMAIN names :
         /\ RoutingPasses[i].account = names[i]
         /\ RoutingPasses[i].specs = SetToSeq(RoutedTo(names[i]))
  BY <1>2
<1>11. \A i \in DOMAIN RoutingPasses :
         ToSet(RoutingPasses[i].specs) = RoutedTo(RoutingPasses[i].account)
  BY <1>6, <1>9, <1>10
<1>12. \A i, j \in DOMAIN RoutingPasses :
         RoutingPasses[i].account = RoutingPasses[j].account => i = j
  BY <1>1, <1>9, <1>10
<1>13. \A r \in routed : \E i \in DOMAIN RoutingPasses : RoutingPasses[i].account = r.account
  <2> SUFFICES ASSUME NEW r \in routed
               PROVE  \E i \in DOMAIN RoutingPasses : RoutingPasses[i].account = r.account
    OBVIOUS
  <2>1. r.account \in ToSet(names)
    BY <1>1
  <2>2. PICK i \in DOMAIN names : names[i] = r.account
    BY <2>1 DEF ToSet
  <2> QED BY <2>2, <1>9, <1>10
<1>14. routed = {} => RoutingPasses = <<>>
  <2> SUFFICES ASSUME routed = {} PROVE RoutingPasses = <<>>
    OBVIOUS
  <2>1. DOMAIN RoutingPasses = {}
    BY <1>3, <1>9
  <2>2. Len(RoutingPasses) = 0
    BY <2>1, <1>8, LenProperties
  <2> QED BY <2>2, <1>8, EmptySeq
<1> QED BY <1>8, <1>11, <1>12, <1>13, <1>14

LEMMA EndSessionStep ==
    ASSUME InvocationAssumption, InvocationInv, EndSession
    PROVE  InvocationInv'
<1> DEFINE next == IF kind = "main" /\ Extras THEN RoutingPasses ELSE owed
<1>1. /\ pc = "walk" /\ Targets = {} /\ seen' = {}
      /\ UNCHANGED <<opts, specs, routes, flags, accounts, targets, routed, walked, resolved>>
      /\ deferrals' = deferrals \cup Deferred
      /\ IF accounts # <<>> THEN pc' = "account" /\ UNCHANGED <<kind, account, left, owed>>
         ELSE Open(IF next = <<>> /\ kind # "premium" THEN PremiumPass(deferrals') ELSE next)
  BY DEF EndSession, input
<1>2. InvocationTypes /\ kind \in Kinds /\ resolved \subseteq Chats
  BY DEF InvocationInv, InvocationTypes
<1>3. \A c \in Chats : ~(targets[c] > 0)
  BY <1>1 DEF Targets
<1>4. ASSUME NEW c \in resolved, OldEnough(c), ~Walked(c)
      PROVE  /\ ~StaysHome(c) /\ FirstRoute(c) \in routed
             /\ kind = "main" \/ \E i \in DOMAIN owed : GoesTo(c, owed[i].account)
  <2>1. StillToCome(c)
    BY <1>1, <1>4 DEF InvocationInv, NoneForgotten
  <2>2. ~Resolving
    BY <1>1 DEF Resolving
  <2> QED BY <2>1, <2>2, <1>2, <1>3 DEF StillToCome
<1>5. ASSUME kind = "main", routed # {}
      PROVE  Extras /\ owed = <<>> /\ ~opts.savedOnly
  <2>1. PICK d \in resolved : ~StaysHome(d)
    BY <1>5 DEF InvocationInv, RoutedInOrder
  <2>2. ~Pinned /\ RoutesOf(d) # {}
    BY <2>1 DEF StaysHome
  <2>3. routes # <<>>
    BY <2>2 DEF RoutesOf
  <2>4. d # Saved
    BY <2>2, <1>2, SavedShape DEF InvocationTypes
  <2> QED BY <2>1, <2>2, <2>3, <2>4, <1>5 DEF Extras, InvocationInv, RoutedInOrder, SavedAlone
<1>a. /\ Pinned => kind = "main" /\ deferrals' = {} /\ routed = {} /\ owed = <<>>
      /\ accounts # <<>> => Pinned
  <2>1. accounts # <<>> => Pinned
    BY <1>1 DEF InvocationInv, TurnsToCome
  <2>2. Pinned => Deferred = {}
    BY DEF Deferred, Defers, Extras
  <2>3. Pinned => kind = "main" /\ deferrals = {}
    BY DEF InvocationInv, TurnsToCome
  <2>4. Pinned => routed = {}
    BY DEF InvocationInv, RoutedInOrder, StaysHome
  <2>5. kind = "main" => owed = <<>>
    BY DEF InvocationInv, RoutedInOrder
  <2> QED BY <2>1, <2>2, <2>3, <2>4, <2>5, <1>1
<1>6. CASE kind = "main" /\ routed # {} /\ accounts = <<>>
  <2>1. next = RoutingPasses
    BY <1>5, <1>6
  <2>2. RoutingPasses # <<>>
    <3>1. \E i : i \in DOMAIN RoutingPasses
      BY <1>2, <1>6, RoutingPassesShape
    <3> QED BY <3>1
  <2>3. Open(RoutingPasses)
    BY <1>1, <1>6, <2>1, <2>2
  <2>4. \A c \in Chats : \A a : GoesTo(c, a) => ~Walked(c)
    <3>1. \A c \in Chats : WalkedApart(c)
      BY <1>6 DEF InvocationInv, WalkedOnce
    <3> QED BY <3>1, <1>6 DEF WalkedApart, GoesTo
  <2>5. \A c \in resolved : OldEnough(c) =>
           \/ Walked(c)
           \/ /\ ~StaysHome(c) /\ FirstRoute(c) \in routed
              /\ \E i \in DOMAIN RoutingPasses : GoesTo(c, RoutingPasses[i].account)
    <3> SUFFICES ASSUME NEW c \in resolved, OldEnough(c), ~Walked(c)
                 PROVE  /\ ~StaysHome(c) /\ FirstRoute(c) \in routed
                        /\ \E i \in DOMAIN RoutingPasses : GoesTo(c, RoutingPasses[i].account)
      OBVIOUS
    <3>1. ~StaysHome(c) /\ FirstRoute(c) \in routed
      BY <1>4
    <3>2. PICK i \in DOMAIN RoutingPasses : RoutingPasses[i].account = FirstRoute(c).account
      BY <3>1, <1>2, RoutingPassesShape
    <3> QED BY <3>1, <3>2 DEF GoesTo
  <2> DEFINE passes == RoutingPasses
  <2>6. /\ passes \in Seq(OwedSessions)
        /\ \A i \in DOMAIN passes : ToSet(passes[i].specs) = RoutedTo(passes[i].account)
        /\ \A i, j \in DOMAIN passes : passes[i].account = passes[j].account => i = j
    BY <1>2, RoutingPassesShape
  <2> HIDE DEF passes
  <2>7. passes # <<>> /\ Open(passes) /\ ~opts.savedOnly
    BY <2>2, <2>3, <1>5, <1>6 DEF passes
  <2>8. \A c \in Chats, i \in DOMAIN passes : GoesTo(c, passes[i].account) => ~Walked(c)
    BY <2>4
  <2>9. \A c \in resolved : OldEnough(c) =>
           \/ Walked(c)
           \/ /\ ~StaysHome(c) /\ FirstRoute(c) \in routed
              /\ \E i \in DOMAIN passes : GoesTo(c, passes[i].account)
    BY <2>5 DEF passes
  <2>10. ~Pinned
    BY <1>6, <1>a
  <2> QED BY <2>6, <2>7, <2>8, <2>9, <2>10, <1>1, <1>6, OpenPass
<1>7. CASE owed # <<>> /\ accounts = <<>>
  <2>1. kind = "routing" /\ ~opts.savedOnly
    BY <1>7 DEF InvocationInv, RoutedInOrder, SavedAlone
  <2>2. Open(owed)
    BY <1>1, <1>7, <2>1
  <2>3. owed \in Seq(OwedSessions)
    BY <1>2 DEF InvocationTypes
  <2>4. /\ \A i \in DOMAIN owed : ToSet(owed[i].specs) = RoutedTo(owed[i].account)
        /\ \A i, j \in DOMAIN owed : owed[i].account = owed[j].account => i = j
    BY DEF InvocationInv, RoutedInOrder
  <2>5. \A c \in Chats, i \in DOMAIN owed : GoesTo(c, owed[i].account) => ~Walked(c)
    BY <2>1 DEF InvocationInv, WalkedOnce, WalkedApart
  <2>6. \A c \in resolved : OldEnough(c) =>
           \/ Walked(c)
           \/ /\ ~StaysHome(c) /\ FirstRoute(c) \in routed
              /\ \E i \in DOMAIN owed : GoesTo(c, owed[i].account)
    BY <1>4, <2>1
  <2>7. ~Pinned
    BY <1>7, <1>a
  <2> QED BY <2>1, <2>2, <2>3, <2>4, <2>5, <2>6, <2>7, <1>1, <1>7, OpenPass
<1>8. CASE owed = <<>> /\ ~(kind = "main" /\ routed # {}) /\ accounts = <<>>
  <2>1. next = <<>>
    BY <1>2, <1>8, RoutingPassesShape
  <2>2. \/ Open(<<>>)
        \/ kind # "premium" /\ Open(PremiumPass(deferrals'))
    BY <1>1, <1>8, <2>1
  <2>3. DOMAIN owed = {}
    BY <1>8
  <2>4. \A c \in resolved : OldEnough(c) => Walked(c)
    BY <1>4, <1>8, <2>3
  <2>5. Pinned => kind = "main" /\ deferrals' = {}
    BY <1>a
  <2> QED BY <2>2, <2>4, <2>5, <1>1, <1>8, OpenLast
<1>9. CASE accounts # <<>>
  <2>1. /\ pc' = "account" /\ UNCHANGED <<kind, account, left, owed>>
        /\ kind = "main" /\ deferrals' = {} /\ routed = {} /\ owed = <<>> /\ Pinned
    BY <1>1, <1>9, <1>a
  <2>2. ~Resolving'
    BY <2>1 DEF Resolving
  <2>3. \A c : (Walked(c)' <=> Walked(c)) /\ (OldEnough(c)' <=> OldEnough(c))
    BY <1>1 DEF Walked, OldEnough
  <2>4. InvocationTypes'
    BY <2>1, <1>1 DEF InvocationInv, InvocationTypes, OwedSessions
  <2>5. RoutedInOrder'
    <3>1. DOMAIN owed' = {}
      BY <2>1
    <3> QED BY <3>1, <2>1, <2>2, <1>1 DEF RoutedInOrder
  <2>6. SavedAlone'
    BY <2>1, <1>1 DEF InvocationInv, SavedAlone, Targets
  <2>7. WalkedOnce'
    <3>1. \A c \in Chats : WalkedApart(c) => WalkedApart(c)'
      BY <2>1, <2>2, <2>3, <1>1, <1>3, SameRoutes DEF WalkedApart
    <3> QED BY <3>1, <2>1, <1>1 DEF InvocationInv, WalkedOnce
  <2>8. \A c \in resolved : OldEnough(c) => Walked(c)
    BY <2>1, <1>4
  <2>9. NoneForgotten'
    BY <2>3, <2>8, <1>1 DEF NoneForgotten
  <2>10. TurnsToCome'
    BY <2>1, <1>1, <1>9 DEF TurnsToCome, Pinned
  <2> QED BY <2>4, <2>5, <2>6, <2>7, <2>9, <2>10 DEF InvocationInv
<1> QED BY <1>5, <1>6, <1>7, <1>8, <1>9

LEMMA InvocationStep ==
    ASSUME InvocationAssumption, InvocationInv, [InvocationNext]_invocationVars
    PROVE  InvocationInv'
<1>1. CASE DecideTakeout
  <2>1. /\ pc = "decide" /\ pc' \in {"resolve", "init"}
        /\ UNCHANGED <<opts, specs, routes, flags, accounts, deferrals, kind, account, left,
                       seen, targets, routed, owed, walked, resolved>>
    BY <1>1 DEF DecideTakeout, input
  <2> QED BY <2>1, SessionGoesOn DEF Resolving
<1>2. CASE TakeoutStarts \/ TakeoutRefused
  <2>1. /\ pc = "init" /\ pc' \in {"resolve", "failed"}
        /\ UNCHANGED <<opts, specs, routes, flags, accounts, deferrals, kind, account, left,
                       seen, targets, routed, owed, walked, resolved>>
    BY <1>2 DEF TakeoutStarts, TakeoutRefused, Fail, input
  <2> QED BY <2>1, SessionGoesOn DEF Resolving
<1>3. CASE SessionFails
  <2>1. /\ pc' = "failed" /\ pc # "account"
        /\ UNCHANGED <<opts, specs, routes, flags, accounts, deferrals, kind, account, left,
                       seen, targets, routed, owed, walked, resolved>>
    BY <1>3 DEF SessionFails, Fail, input
  <2> QED BY <2>1, SessionGoesOn
<1>4. CASE ResolveSpec
  BY <1>4, ResolveSpecStep
<1>5. CASE ResolveSaved
  BY <1>5, ResolveSavedStep
<1>6. CASE SplitRouted
  BY <1>6, SplitRoutedStep
<1>7. CASE FilterByMinAge
  BY <1>7, FilterByMinAgeStep
<1>8. CASE Walk
  BY <1>8, WalkStep
<1>9. CASE EndSession
  BY <1>9, EndSessionStep
<1>10. CASE UNCHANGED invocationVars
  <2>1. \A c : Walked(c)' <=> Walked(c)
    BY <1>10 DEF invocationVars, Walked
  <2> USE <1>10 DEF invocationVars, input
  <2>2. InvocationTypes'
    BY DEF InvocationInv, InvocationTypes, OwedSessions
  <2>3. Resolving' <=> Resolving
    BY DEF Resolving
  <2>4. RoutedInOrder'
    <3>1. \A a : RoutedTo(a)' = RoutedTo(a)
      BY DEF RoutedTo
    <3> QED BY <2>3, <3>1, SameRoutes DEF InvocationInv, RoutedInOrder
  <2>5. SavedAlone'
    BY DEF InvocationInv, SavedAlone, Targets
  <2>6. WalkedOnce'
    <3>1. \A c : WalkedApart(c) => WalkedApart(c)'
      BY <2>1, <2>3, SameRoutes DEF WalkedApart
    <3> QED BY <3>1 DEF InvocationInv, WalkedOnce
  <2>7. NoneForgotten'
    <3>1. \A c : StillToCome(c) => StillToCome(c)'
      BY <2>3, SameRoutes DEF StillToCome
    <3> QED BY <2>1, <3>1 DEF InvocationInv, NoneForgotten, OldEnough
  <2>8. TurnsToCome'
    BY DEF InvocationInv, TurnsToCome, Pinned
  <2> QED BY <2>2, <2>4, <2>5, <2>6, <2>7, <2>8 DEF InvocationInv
<1>11. CASE NextAccount
  BY <1>11, NextAccountStep
<1> QED BY <1>1, <1>2, <1>3, <1>4, <1>5, <1>6, <1>7, <1>8, <1>9, <1>10, <1>11 DEF InvocationNext

\* The history counts a chat once or not at all.
LEMMA CountedOnce ==
    ASSUME InvocationAssumption, InvocationInv, NEW c \in Chats
    PROVE  TimesWalked(c) <= 1 /\ (Walked(c) => TimesWalked(c) = 1)
<1> DEFINE I == Of(OtherWalks, ChatID(c))
<1>1. TimesWalked(c) = Cardinality(I)
  BY DEF TimesWalked
<1>2. \A i \in DOMAIN walked : walked[i][3] \in Chats
  BY ElementOfSeq, LenProperties DEF InvocationInv, InvocationTypes
<1>3. \A d \in Chats : ChatID(d) = ChatID(c) => d = c
  BY DEF InvocationAssumption, ChatID, Chats
<1>4. I = {i \in DOMAIN walked : walked[i][3] = c /\ walked[i][1] # "premium"}
  BY <1>2, <1>3 DEF Of, OtherWalks, PremiumWalks
<1> HIDE DEF I
<1>5. \A i, j \in I : i = j
  BY <1>4 DEF InvocationInv, WalkedOnce
<1>6. CASE I = {}
  <2>1. Cardinality(I) = 0
    BY <1>6, FS_EmptySet
  <2>2. ~Walked(c)
    BY <1>4, <1>6 DEF Walked
  <2> QED BY <2>1, <2>2, <1>1
<1>7. CASE I # {}
  <2>1. PICK i : I = {i}
    BY <1>5, <1>7
  <2>2. Cardinality(I) = 1
    BY <2>1, FS_Singleton
  <2> QED BY <2>2, <1>1
<1> QED BY <1>6, <1>7

-----------------------------------------------------------------------------
(* The premium pass *)

PremiumWalked(c) == \E i \in PremiumWalks : walked[i][3] = c
DeferralSpecs == {Spec_("id", id) : id \in deferrals}

\* What the walks so far and the deferrals have to do with each other.
PremiumHistory ==
    /\ IsFiniteSet(deferrals) /\ (deferrals # {} => Premium # NoAccount)
    /\ deferrals \subseteq {ChatID(c) : c \in Chats}
    /\ \A c \in Chats : ChatID(c) \in deferrals => Walked(c)
    /\ \A i \in DOMAIN walked : OldEnough(walked[i][3]) /\ (opts.savedOnly => walked[i][3] = Saved)
    /\ \A i \in PremiumWalks :
          /\ ChatID(walked[i][3]) \in deferrals
          /\ \E j \in OtherWalks : j < i /\ walked[j][3] = walked[i][3]
          /\ \A j \in PremiumWalks : walked[i][3] = walked[j][3] => i = j

\* A chat in the premium session: deferred, not walked there before, and not lost.
PremiumApart(c) ==
    /\ targets[c] <= 1
    /\ targets[c] > 0 => ChatID(c) \in deferrals /\ ~PremiumWalked(c)
    /\ Resolving => ~PremiumWalked(c)
    /\ Resolving /\ ~opts.savedOnly => (targets[c] = 1 <=> ChatID(c) \in seen)
    /\ pc # "failed" /\ ChatID(c) \in deferrals =>
          \/ PremiumWalked(c) \/ targets[c] > 0
          \/ Resolving /\ left # <<>> /\ (opts.savedOnly \/ Spec_("id", ChatID(c)) \in ToSet(left))
PremiumSession ==
    /\ pc = "account" => deferrals = {}
    /\ pc = "walk" => \A c \in Targets : OldEnough(c)
    /\ kind # "premium" => PremiumWalks = {}
    /\ kind = "premium" => /\ deferrals # {} /\ left \in Seq(DeferralSpecs)
                           /\ \A c \in Chats : PremiumApart(c)
    /\ pc = "done" => \A c \in Chats : ChatID(c) \in deferrals => PremiumWalked(c)
PremiumInv == PremiumHistory /\ PremiumSession

LEMMA ChatsHaveTheirIDs ==
    ASSUME InvocationAssumption
    PROVE  \A c, d \in Chats : ChatID(c) = ChatID(d) => c = d
BY DEF InvocationAssumption, ChatID, Chats

\* Nothing of the history changes but by a walk or the end of a session.
LEMMA HistoryStays ==
    ASSUME UNCHANGED <<opts, deferrals, walked>>
    PROVE  /\ PremiumHistory => PremiumHistory'
           /\ PremiumWalks' = PremiumWalks /\ DeferralSpecs' = DeferralSpecs
           /\ \A c : (PremiumWalked(c)' <=> PremiumWalked(c)) /\ (OldEnough(c)' <=> OldEnough(c))
<1>1. PremiumWalks' = PremiumWalks /\ OtherWalks' = OtherWalks
  BY DEF PremiumWalks, OtherWalks
<1>2. \A c : /\ Walked(c)' <=> Walked(c)
             /\ PremiumWalked(c)' <=> PremiumWalked(c)
             /\ OldEnough(c)' <=> OldEnough(c)
  BY <1>1 DEF Walked, PremiumWalked, OldEnough
<1>3. DeferralSpecs' = DeferralSpecs
  BY DEF DeferralSpecs
<1> QED BY <1>1, <1>2, <1>3 DEF PremiumHistory, ChatID

LEMMA PremiumGoesOn ==
    ASSUME PremiumInv, UNCHANGED <<opts, deferrals, walked, kind, left, seen, targets>>,
           \/ pc' = pc \/ pc' = "failed"
           \/ Resolving /\ pc' \in {"decide", "init", "resolve"}
    PROVE  PremiumInv'
<1>1. Resolving' => Resolving
  BY DEF Resolving
<1>2. /\ pc' # "failed" => (Resolving' <=> Resolving) /\ pc # "failed"
      /\ pc' \in {"account", "walk", "done"} => pc = pc'
  BY DEF Resolving
<1>3. \A c : PremiumApart(c) => PremiumApart(c)'
  BY <1>1, <1>2, HistoryStays DEF PremiumApart, ChatID
<1>4. Targets' = Targets
  BY DEF Targets
<1> QED BY <1>2, <1>3, <1>4, HistoryStays DEF PremiumInv, PremiumSession, ChatID

LEMMA PremiumStarts == ASSUME InvocationInit PROVE PremiumInv
<1>1. /\ pc = "account" /\ kind = "main" /\ deferrals = {} /\ walked = <<>>
  BY DEF InvocationInit
<1>2. PremiumWalks = {} /\ DOMAIN walked = {}
  BY <1>1 DEF PremiumWalks
<1>3. PremiumHistory
  BY <1>1, <1>2, FS_EmptySet DEF PremiumHistory
<1> QED BY <1>1, <1>2, <1>3 DEF PremiumInv, PremiumSession

LEMMA PremiumNextAccount == ASSUME PremiumInv, NextAccount PROVE PremiumInv'
<1>1. /\ pc = "account" /\ pc' = "decide" /\ kind' = "main" /\ deferrals' = {} /\ walked' = <<>>
  BY DEF NextAccount, PremiumInv, PremiumSession
<1>2. PremiumWalks' = {} /\ DOMAIN walked' = {}
  BY <1>1 DEF PremiumWalks
<1>3. PremiumHistory'
  BY <1>1, <1>2, FS_EmptySet DEF PremiumHistory
<1> QED BY <1>1, <1>2, <1>3 DEF PremiumInv, PremiumSession

\* The specs of a premium session are the ids of the deferred chats.
LEMMA PremiumResolves ==
    ASSUME InvocationAssumption, InvocationInv, PremiumInv, ResolveSpec
    PROVE  PremiumInv'
<1>1. /\ pc = "resolve" /\ left # <<>> /\ ~opts.savedOnly
      /\ UNCHANGED <<opts, kind, deferrals, walked>>
  BY DEF ResolveSpec, input
<1>2. CASE Unknown
  <2>1. pc' = "failed" /\ UNCHANGED <<targets, seen, left>>
    BY <1>2 DEF Unknown, Fail
  <2> QED BY <2>1, <1>1, PremiumGoesOn
<1>3. ASSUME NEW chats \in SUBSET Chats, Adds(chats), kind # "premium" PROVE PremiumInv'
  <2>1. pc' = "resolve"
    BY <1>1, <1>3 DEF Adds
  <2> QED BY <2>1, <1>1, <1>3, HistoryStays DEF PremiumInv, PremiumSession
<1>4. /\ \A c \in Listed : c \in Chats
      /\ ByHandle(Head(left).key) \in SUBSET Chats /\ Saved \in Chats
  <2>1. account \in Accounts /\ routes \in RouteTables
    BY DEF InvocationInv, InvocationTypes
  <2> QED BY <2>1, SavedShape DEF InvocationAssumption, Listed, Chats, Accounts, ByHandle
<1>5. \/ Unknown
      \/ \E chats \in SUBSET Chats :
            Adds(chats) /\ (Head(left).form = "id" => chats = ByID(Head(left).key) /\ chats # {})
  <2>1. CASE Head(left).form = "all" /\ Adds({c \in Listed : Allows(c)})
    BY <2>1, <1>4
  <2>2. CASE Head(left).form = "saved" /\ Adds({Saved})
    BY <2>2, <1>4
  <2>3. CASE Head(left).form = "id" /\ AddsKnown(ByID(Head(left).key))
    <3>1. ByID(Head(left).key) \in SUBSET Chats
      BY <1>4 DEF ByID
    <3> QED BY <3>1, <2>3 DEF AddsKnown
  <2>4. CASE Head(left).form = "name" /\ AddsKnown(ByHandle(Head(left).key))
    BY <2>4, <1>4 DEF AddsKnown
  <2> QED BY <2>1, <2>2, <2>3, <2>4 DEF ResolveSpec
<1>6. ASSUME kind = "premium", ~Unknown PROVE PremiumInv'
  <2>1. left \in Seq(DeferralSpecs) /\ deferrals # {}
    BY <1>6 DEF PremiumInv, PremiumSession
  <2>2. /\ Head(left) \in DeferralSpecs /\ Tail(left) \in Seq(DeferralSpecs)
        /\ ToSet(left) = {Head(left)} \cup ToSet(Tail(left))
    BY <2>1, <1>1, HeadTailElements
  <2>3. Head(left).form = "id" /\ Head(left).key \in deferrals
        /\ Head(left) = Spec_("id", Head(left).key)
    BY <2>2 DEF DeferralSpecs, Spec_
  <2>4. PICK chats \in SUBSET Chats :
           Adds(chats) /\ chats = ByID(Head(left).key) /\ chats # {}
    BY <2>3, <1>5, <1>6
  <2>5. \A c \in Chats : c \in chats <=> ChatID(c) = Head(left).key
    <3>1. \A c \in chats : ChatID(c) = Head(left).key
      BY <2>4 DEF ByID, ChatID
    <3>2. PICK d \in chats : d \in Chats
      BY <2>4
    <3> QED BY <3>1, <3>2, ChatsHaveTheirIDs
  <2>6. /\ targets' = [c \in Chats |-> IF c \in Unmet(chats) THEN targets[c] + 1 ELSE targets[c]]
        /\ seen' = seen \cup {ChatID(c) : c \in chats} /\ left' = Tail(left) /\ pc' = "resolve"
    BY <2>4, <1>1 DEF Adds
  <2>7. Resolving /\ Resolving' /\ targets \in [Chats -> Nat]
    BY <1>1, <2>6 DEF Resolving, InvocationInv, InvocationTypes
  <2>8. ASSUME NEW c \in Chats PROVE PremiumApart(c)'
    <3>1. PremiumApart(c)
      BY <1>6 DEF PremiumInv, PremiumSession
    <3>2. targets[c] \in Nat /\ targets[c] <= 1 /\ (targets[c] = 1 <=> ChatID(c) \in seen)
          /\ ~PremiumWalked(c)
      BY <3>1, <2>7, <1>1 DEF PremiumApart
    <3>3. targets'[c] = IF c \in chats \/ targets[c] = 1 THEN 1 ELSE 0
      BY <3>2, <2>6 DEF Unmet
    <3>4. ChatID(c) \in seen' <=> ChatID(c) \in seen \/ c \in chats
      BY <2>6, ChatsHaveTheirIDs
    <3>5. targets'[c] > 0 => ChatID(c) \in deferrals
      <4>1. c \in chats => ChatID(c) \in deferrals
        BY <2>3, <2>5
      <4>2. targets[c] = 1 => ChatID(c) \in deferrals
        BY <3>1 DEF PremiumApart
      <4> QED BY <4>1, <4>2, <3>3
    <3>6. ChatID(c) \in deferrals => targets'[c] > 0 \/ Spec_("id", ChatID(c)) \in ToSet(left')
      <4>1. ChatID(c) \in deferrals => targets[c] > 0 \/ Spec_("id", ChatID(c)) \in ToSet(left)
        BY <3>1, <3>2, <1>1 DEF PremiumApart
      <4>2. Spec_("id", ChatID(c)) = Head(left) => c \in chats
        BY <2>3, <2>5 DEF Spec_
      <4>3. targets[c] > 0 => targets[c] = 1
        BY <3>2
      <4> QED BY <4>1, <4>2, <4>3, <3>3, <2>2, <2>6
    <3>7. Spec_("id", ChatID(c)) \in ToSet(left') => left' # <<>>
      BY DEF ToSet
    <3>8. targets'[c] <= 1 /\ (targets'[c] = 1 <=> ChatID(c) \in seen')
      BY <3>2, <3>3, <3>4
    <3>9. UNCHANGED <<opts, deferrals>> /\ (PremiumWalked(c)' <=> PremiumWalked(c))
      BY <1>1, HistoryStays
    <3> QED BY <3>2, <3>5, <3>6, <3>7, <3>8, <3>9, <2>7 DEF PremiumApart, ChatID
  <2>9. left' \in Seq(DeferralSpecs) /\ DeferralSpecs' = DeferralSpecs /\ PremiumHistory'
    BY <2>2, <2>6, <1>1, HistoryStays DEF PremiumInv
  <2> QED BY <2>1, <2>6, <2>8, <2>9, <1>1, <1>6 DEF PremiumInv, PremiumSession
<1> QED BY <1>2, <1>3, <1>5, <1>6

\* With --saved a deferral is of the saved messages, and they are its target.
LEMMA PremiumResolvesSaved ==
    ASSUME InvocationAssumption, InvocationInv, PremiumInv, ResolveSaved
    PROVE  PremiumInv'
<1>1. /\ pc = "resolve" /\ pc' = pc /\ opts.savedOnly /\ left # <<>> /\ left' = <<>>
      /\ targets' = [NoTargets EXCEPT ![Saved] = 1]
      /\ UNCHANGED <<opts, kind, deferrals, walked>>
  BY DEF ResolveSaved, input
<1>2. Saved \in Chats
  BY SavedShape DEF InvocationInv, InvocationTypes
<1>3. \A c \in Chats : targets'[c] = IF c = Saved THEN 1 ELSE 0
  BY <1>1, <1>2 DEF NoTargets
<1>4. Resolving /\ Resolving'
  BY <1>1 DEF Resolving
<1>5. \A c \in Chats : ChatID(c) \in deferrals => c = Saved
  BY <1>1 DEF PremiumInv, PremiumHistory, Walked
<1>6. ASSUME kind = "premium", NEW c \in Chats PROVE PremiumApart(c)'
  <2>1. ~PremiumWalked(c) /\ deferrals # {}
    BY <1>4, <1>6 DEF PremiumInv, PremiumSession, PremiumApart
  <2>2. ChatID(Saved) \in deferrals
    <3>1. \A id \in deferrals : \E d \in Chats : ChatID(d) = id
      BY DEF PremiumInv, PremiumHistory
    <3> QED BY <3>1, <2>1, <1>5
  <2>3. UNCHANGED <<opts, deferrals>> /\ (PremiumWalked(c)' <=> PremiumWalked(c))
    BY <1>1, HistoryStays
  <2> QED BY <2>1, <2>2, <2>3, <1>1, <1>3, <1>5 DEF PremiumApart, ChatID
<1>7. <<>> \in Seq(DeferralSpecs)
  BY EmptySeq
<1> QED BY <1>1, <1>6, <1>7, HistoryStays DEF PremiumInv, PremiumSession

\* Only the first session routes, and the chats walked once are old enough again.
LEMMA PremiumKeeps ==
    ASSUME InvocationInv, PremiumInv, SplitRouted \/ FilterByMinAge
    PROVE  PremiumInv'
<1>1. /\ UNCHANGED <<opts, kind, deferrals, walked, left, seen>> /\ ~Resolving'
      /\ pc # "failed" /\ pc' \in {"age", "walk"} /\ (Resolving => left = <<>>)
  BY DEF SplitRouted, FilterByMinAge, input, Resolving
<1>2. targets \in [Chats -> Nat]
  BY DEF InvocationInv, InvocationTypes
<1>3. \A c \in Chats : /\ targets'[c] = targets[c] \/ targets'[c] = 0
                       /\ kind = "premium" /\ OldEnough(c) => targets'[c] = targets[c]
                       /\ pc' = "walk" /\ targets'[c] > 0 => OldEnough(c)
  <2>1. CASE SplitRouted
    <3>1. pc' = "age" /\ \A c \in Chats : targets'[c] = IF ~Routed(c) THEN targets[c] ELSE 0
      BY <2>1 DEF SplitRouted, Keep
    <3>2. kind = "premium" => \A c : ~Routed(c)
      BY DEF Routed
    <3> QED BY <3>1, <3>2
  <2>2. CASE FilterByMinAge
    <3>1. \A c \in Chats : targets'[c] = IF OldEnough(c) THEN targets[c] ELSE 0
      BY <2>2 DEF FilterByMinAge, Keep
    <3> QED BY <3>1
  <2> QED BY <2>1, <2>2
<1>4. ASSUME kind = "premium", NEW c \in Chats PROVE PremiumApart(c)'
  <2>1. PremiumApart(c) /\ targets[c] \in Nat
    BY <1>2, <1>4 DEF PremiumInv, PremiumSession
  <2>2. targets'[c] <= 1 /\ (targets'[c] > 0 => targets[c] > 0)
    BY <2>1, <1>3 DEF PremiumApart
  <2>3. UNCHANGED <<opts, deferrals>> /\ (PremiumWalked(c)' <=> PremiumWalked(c))
    BY <1>1, HistoryStays
  <2>4. ASSUME ChatID(c) \in deferrals PROVE PremiumWalked(c) \/ targets'[c] > 0
    <3>1. OldEnough(c)
      BY <2>4 DEF PremiumInv, PremiumHistory, Walked
    <3>2. PremiumWalked(c) \/ targets[c] > 0
      BY <2>1, <2>4, <1>1 DEF PremiumApart
    <3> QED BY <3>1, <3>2, <1>3, <1>4
  <2> QED BY <2>1, <2>2, <2>3, <2>4, <1>1 DEF PremiumApart, ChatID
<1>5. pc' = "walk" => \A c \in Targets' : OldEnough(c)'
  BY <1>1, <1>3, HistoryStays DEF Targets
<1> QED BY <1>1, <1>4, <1>5, HistoryStays DEF PremiumInv, PremiumSession

\* A walk adds one to the history; in the premium pass of a chat not walked there yet.
LEMMA PremiumWalk ==
    ASSUME InvocationAssumption, InvocationInv, PremiumInv, Walk
    PROVE  PremiumInv'
<1>1. PICK c \in Targets :
         /\ walked' = Append(walked, <<kind, account, c>>)
         /\ targets' = [targets EXCEPT ![c] = @ - 1]
  BY DEF Walk
<1>2. pc = "walk" /\ UNCHANGED <<opts, flags, kind, deferrals, left, seen, pc>>
  BY DEF Walk, input
<1>3. c \in Chats /\ targets[c] > 0 /\ targets \in [Chats -> Nat]
  BY DEF Targets, InvocationInv, InvocationTypes
<1>4. ~Resolving /\ ~Resolving'
  BY <1>2 DEF Resolving
<1> DEFINE w == <<kind, account, c>>
           W == Kinds \X Accounts \X Chats
           n == Len(walked)
<1>5. /\ walked \in Seq(W) /\ w \in W /\ n \in Nat /\ DOMAIN walked = 1..n
      /\ w[1] = kind /\ w[3] = c
  BY <1>3, LenProperties DEF InvocationInv, InvocationTypes
<1>6. /\ DOMAIN walked' = DOMAIN walked \cup {n + 1} /\ n + 1 \notin DOMAIN walked
      /\ \A i \in DOMAIN walked : walked'[i] = walked[i] /\ i < n + 1
      /\ walked'[n + 1] = w
  <2> DEFINE v == walked'
  <2>1. /\ v \in Seq(W) /\ Len(v) = n + 1 /\ v[n + 1] = w
        /\ \A i \in 1..n : v[i] = walked[i]
    <3> HIDE DEF W, w
    <3> QED BY <1>1, <1>5, AppendProperties DEF w
  <2> HIDE DEF v, W, w
  <2>2. DOMAIN v = 1..(n + 1)
    BY <2>1, LenProperties
  <2>3. 1..(n + 1) = 1..n \cup {n + 1} /\ n + 1 \notin 1..n /\ \A i \in 1..n : i < n + 1
    BY <1>5
  <2> QED BY <2>1, <2>2, <2>3, <1>5 DEF v
<1> HIDE DEF w, W, n
<1>7. /\ PremiumWalks \subseteq DOMAIN walked /\ OtherWalks \subseteq DOMAIN walked
      /\ PremiumWalks' = IF kind = "premium" THEN PremiumWalks \cup {n + 1} ELSE PremiumWalks
      /\ OtherWalks' = IF kind = "premium" THEN OtherWalks ELSE OtherWalks \cup {n + 1}
  BY <1>5, <1>6 DEF PremiumWalks, OtherWalks
<1>8. /\ \A d : Walked(d) => Walked(d)'
      /\ \A d : PremiumWalked(d)' <=> PremiumWalked(d) \/ (kind = "premium" /\ d = c)
  BY <1>5, <1>6, <1>7 DEF Walked, PremiumWalked
<1>9. \A d : OldEnough(d)' <=> OldEnough(d)
  BY <1>2 DEF OldEnough
<1>10. OldEnough(c)
  BY <1>2 DEF PremiumInv, PremiumSession
<1>11. ASSUME kind = "premium"
       PROVE  /\ targets[c] = 1 /\ targets'[c] = 0 /\ ~PremiumWalked(c)
              /\ ChatID(c) \in deferrals
  <2>1. PremiumApart(c)
    BY <1>3, <1>11 DEF PremiumInv, PremiumSession
  <2>2. targets[c] <= 1 /\ ~PremiumWalked(c) /\ ChatID(c) \in deferrals
    BY <2>1, <1>3 DEF PremiumApart
  <2>3. targets[c] = 1
    BY <2>2, <1>3
  <2>4. targets'[c] = 0
    BY <2>3, <1>1, <1>3
  <2> QED BY <2>2, <2>3, <2>4
<1>12. opts.savedOnly => c = Saved
  <2>1. CASE kind = "premium" /\ opts.savedOnly
    <3>1. Walked(c)
      BY <2>1, <1>3, <1>11 DEF PremiumInv, PremiumHistory
    <3> QED BY <3>1, <2>1 DEF Walked, PremiumInv, PremiumHistory
  <2>2. CASE kind # "premium" /\ opts.savedOnly
    BY <2>2 DEF InvocationInv, SavedAlone, InvocationTypes, Kinds
  <2> QED BY <2>1, <2>2
<1>13. PremiumHistory'
  <2>1. \A i \in DOMAIN walked' : OldEnough(walked[i][3])' /\ (opts'.savedOnly => walked'[i][3] = Saved)
    BY <1>2, <1>5, <1>6, <1>9, <1>10, <1>12 DEF PremiumInv, PremiumHistory
  <2>2. ASSUME NEW i \in PremiumWalks'
        PROVE  /\ ChatID(walked'[i][3]) \in deferrals
               /\ \E j \in OtherWalks' : j < i /\ walked'[j][3] = walked'[i][3]
               /\ \A j \in PremiumWalks' : walked'[i][3] = walked'[j][3] => i = j
    <3>1. CASE i \in PremiumWalks
      <4>1. /\ ChatID(walked[i][3]) \in deferrals
            /\ \E j \in OtherWalks : j < i /\ walked[j][3] = walked[i][3]
            /\ \A j \in PremiumWalks : walked[i][3] = walked[j][3] => i = j
        BY <3>1 DEF PremiumInv, PremiumHistory
      <4>2. walked'[i] = walked[i] /\ OtherWalks \subseteq OtherWalks'
        BY <3>1, <1>6, <1>7
      <4>3. kind = "premium" => walked[i][3] # c
        BY <3>1, <1>11 DEF PremiumWalked
      <4> QED BY <4>1, <4>2, <4>3, <1>5, <1>6, <1>7
    <3>2. CASE i \notin PremiumWalks
      <4>1. kind = "premium" /\ i = n + 1 /\ walked'[i] = w
        BY <3>2, <1>6, <1>7
      <4>2. Walked(c)
        BY <4>1, <1>3, <1>11 DEF PremiumInv, PremiumHistory
      <4>3. PICK j \in OtherWalks : walked[j][3] = c
        BY <4>2 DEF Walked, OtherWalks, PremiumWalks
      <4>4. \A k \in PremiumWalks : walked[k][3] # c
        BY <4>1, <1>11 DEF PremiumWalked
      <4> QED BY <4>1, <4>3, <4>4, <1>5, <1>6, <1>7, <1>11
    <3> QED BY <3>1, <3>2
  <2> QED BY <2>1, <2>2, <1>2, <1>8 DEF PremiumInv, PremiumHistory, ChatID
<1>14. ASSUME kind = "premium", NEW d \in Chats PROVE PremiumApart(d)'
  <2>1. PremiumApart(d)
    BY <1>14 DEF PremiumInv, PremiumSession
  <2>2. CASE d = c
    BY <2>2, <1>2, <1>4, <1>8, <1>11, <1>14 DEF PremiumApart, ChatID
  <2>3. CASE d # c
    <3>1. targets'[d] = targets[d]
      BY <2>3, <1>1, <1>3
    <3> QED BY <2>1, <2>3, <3>1, <1>2, <1>4, <1>8 DEF PremiumApart, ChatID
  <2> QED BY <2>2, <2>3
<1>15. Targets' \subseteq Targets
  <2>1. \A d \in Chats : d # c => targets'[d] = targets[d]
    BY <1>1, <1>3
  <2> QED BY <2>1, <1>3 DEF Targets
<1>16. PremiumSession'
  <2>1. DeferralSpecs' = DeferralSpecs
    BY <1>2 DEF DeferralSpecs
  <2> QED BY <2>1, <1>2, <1>7, <1>9, <1>14, <1>15 DEF PremiumInv, PremiumSession
<1> QED BY <1>13, <1>16 DEF PremiumInv

\* What a session defers are chats it walked itself.
LEMMA DeferredShape ==
    ASSUME InvocationInv
    PROVE  /\ IsFiniteSet(Deferred) /\ Deferred \subseteq {ChatID(c) : c \in Chats}
           /\ \A id \in Deferred : \E c \in Chats : ChatID(c) = id /\ Walked(c)
           /\ Deferred # {} => Premium # NoAccount /\ kind # "premium"
<1>1. /\ walked \in Seq(Kinds \X Accounts \X Chats)
      /\ DOMAIN walked = 1..Len(walked) /\ Len(walked) \in Nat
  BY LenProperties DEF InvocationInv, InvocationTypes
<1>2. \A i \in DOMAIN walked : walked[i][3] \in Chats
  BY <1>1, ElementOfSeq
<1> DEFINE I == {i \in 1..Len(walked) : OfSession(walked[i]) /\ Defers(walked[i][3])}
           f == [i \in I |-> ChatID(walked[i][3])]
<1>3. IsFiniteSet(I)
  <2>1. IsFiniteSet(1..Len(walked))
    BY <1>1, FS_Interval
  <2> QED BY <2>1, FS_Subset
<1>4. Deferred = {ChatID(walked[i][3]) : i \in I}
  BY <1>1 DEF Deferred, ToSet
<1>5. f \in Surjection(I, Deferred)
  BY <1>4 DEF Surjection
<1>6. IsFiniteSet(Deferred)
  <2> HIDE DEF I, f
  <2> QED BY <1>3, <1>5, FS_Surjection
<1>7. \A i \in I : /\ Walked(walked[i][3]) /\ walked[i][3] \in Chats
                   /\ Premium # NoAccount /\ kind # "premium"
  BY <1>1, <1>2 DEF OfSession, Defers, Walked
<1> QED BY <1>4, <1>6, <1>7

LEMMA PremiumEndSession ==
    ASSUME InvocationAssumption, InvocationInv, PremiumInv, EndSession
    PROVE  PremiumInv'
<1> DEFINE next == IF kind = "main" /\ Extras THEN RoutingPasses ELSE owed
<1>1. /\ pc = "walk" /\ Targets = {} /\ seen' = {}
      /\ UNCHANGED <<opts, routes, flags, targets, walked>>
      /\ deferrals' = deferrals \cup Deferred
      /\ IF accounts # <<>> THEN pc' = "account" /\ UNCHANGED <<kind, account, left, owed>>
         ELSE Open(IF next = <<>> /\ kind # "premium" THEN PremiumPass(deferrals') ELSE next)
  BY DEF EndSession, input
<1>2. /\ \A c \in Chats : targets[c] = 0
      /\ kind \in Kinds /\ owed \in Seq(OwedSessions) /\ InvocationTypes
  BY <1>1 DEF Targets, InvocationInv, InvocationTypes
<1>3. /\ PremiumWalks' = PremiumWalks /\ OtherWalks' = OtherWalks
      /\ \A c : /\ Walked(c)' <=> Walked(c)
                /\ PremiumWalked(c)' <=> PremiumWalked(c)
                /\ OldEnough(c)' <=> OldEnough(c)
  BY <1>1 DEF PremiumWalks, OtherWalks, Walked, PremiumWalked, OldEnough
<1>4. \A c \in Chats : ChatID(c) \in deferrals' => Walked(c)
  <2>1. \A c \in Chats : ChatID(c) \in Deferred => Walked(c)
    BY DeferredShape, ChatsHaveTheirIDs
  <2> QED BY <2>1, <1>1 DEF PremiumInv, PremiumHistory
<1>5. IsFiniteSet(deferrals')
  BY <1>1, DeferredShape, FS_Union DEF PremiumInv, PremiumHistory
<1>6. PremiumHistory'
  BY <1>1, <1>3, <1>4, <1>5, DeferredShape DEF PremiumInv, PremiumHistory, ChatID
<1>7. Targets' = {}
  BY <1>1 DEF Targets
<1>8. CASE accounts # <<>>
  <2>1. Pinned /\ kind = "main" /\ deferrals = {}
    BY <1>1, <1>8 DEF InvocationInv, TurnsToCome
  <2>2. Deferred = {}
    BY <2>1 DEF Deferred, Defers, Extras
  <2>3. pc' = "account" /\ kind' = "main" /\ deferrals' = {}
    BY <2>1, <2>2, <1>1, <1>8
  <2> QED BY <2>1, <2>3, <1>3, <1>6 DEF PremiumInv, PremiumSession
<1>9. CASE accounts = <<>> /\ kind = "premium"
  <2>1. owed = <<>>
    BY <1>9 DEF InvocationInv, RoutedInOrder
  <2>2. Open(<<>>)
    BY <2>1, <1>1, <1>9
  <2>3. pc' = "done" /\ UNCHANGED <<kind, left>>
    BY <2>2 DEF Open
  <2>4. deferrals' = deferrals
    BY <1>1, <1>9, DeferredShape
  <2>5. \A c \in Chats : ChatID(c) \in deferrals => PremiumWalked(c)
    BY <1>1, <1>2, <1>9 DEF PremiumInv, PremiumSession, PremiumApart, Resolving
  <2>6. ~Resolving' /\ DeferralSpecs' = DeferralSpecs
    BY <2>3, <2>4 DEF Resolving, DeferralSpecs
  <2>7. \A c \in Chats : PremiumApart(c)'
    BY <2>3, <2>4, <2>5, <2>6, <1>1, <1>2, <1>3 DEF PremiumApart, ChatID
  <2> QED BY <2>3, <2>4, <2>5, <2>6, <2>7, <1>3, <1>6, <1>9
      DEF PremiumInv, PremiumSession, ChatID
<1>10. CASE accounts = <<>> /\ kind # "premium" /\ next # <<>>
  <2>1. next \in Seq(OwedSessions)
    BY <1>2, RoutingPassesShape
  <2>2. pc' = "decide" /\ kind' = Head(next).kind
    BY <1>1, <1>10 DEF Open
  <2>3. Head(next) \in OwedSessions
    <3> HIDE DEF next
    <3> QED BY <2>1, <1>10, HeadTailElements
  <2>4. kind' = "routing"
    <3> HIDE DEF next
    <3> QED BY <2>2, <2>3 DEF OwedSessions
  <2> QED BY <2>2, <2>4, <1>3, <1>6, <1>10 DEF PremiumInv, PremiumSession
<1>11. CASE accounts = <<>> /\ kind # "premium" /\ next = <<>>
  <2>1. Open(PremiumPass(deferrals'))
    BY <1>1, <1>11
  <2>2. PremiumWalks = {}
    BY <1>11 DEF PremiumInv, PremiumSession
  <2>3. CASE PremiumPass(deferrals') = <<>>
    <3>1. pc' = "done" /\ kind' = kind
      BY <2>1, <2>3 DEF Open
    <3>2. deferrals' = {}
      <4>1. deferrals' = {} \/ Premium = NoAccount
        BY <2>3 DEF PremiumPass
      <4> QED BY <4>1, <1>6 DEF PremiumHistory
    <3> QED BY <3>1, <3>2, <2>2, <1>3, <1>6, <1>11 DEF PremiumInv, PremiumSession
  <2>4. CASE PremiumPass(deferrals') # <<>>
    <3> DEFINE S == {Spec_("id", id) : id \in deferrals'}
               pass == Session("premium", Premium, S)
    <3>1. PremiumPass(deferrals') = <<pass>> /\ deferrals' # {}
      BY <2>4 DEF PremiumPass
    <3>2. Head(<<pass>>) = pass /\ pass.kind = "premium" /\ pass.specs = SetToSeq(S)
      BY DEF Session
    <3>3. pc' = "decide" /\ kind' = "premium" /\ left' = SetToSeq(S)
      <4> HIDE DEF pass, S
      <4> QED BY <2>1, <2>4, <3>1, <3>2 DEF Open
    <3>4. S = DeferralSpecs'
      BY DEF DeferralSpecs
    <3>5. IsFiniteSet(S)
      <4> DEFINE g == [id \in deferrals' |-> Spec_("id", id)]
      <4>1. g \in Surjection(deferrals', S)
        BY DEF Surjection
      <4> HIDE DEF g, S
      <4> QED BY <4>1, <1>5, FS_Surjection
    <3>6. SetToSeq(S) \in Seq(S) /\ ToSet(SetToSeq(S)) = S
      <4> HIDE DEF S
      <4> QED BY <3>5, SetToSeqShape
    <3>7. ASSUME NEW c \in Chats PROVE PremiumApart(c)'
      <4>1. ~PremiumWalked(c)' /\ targets'[c] = 0 /\ ChatID(c) \notin seen'
        BY <2>2, <1>1, <1>2, <1>3 DEF PremiumWalked
      <4>2. ChatID(c) \in deferrals' => Spec_("id", ChatID(c)) \in ToSet(left')
        BY <3>3, <3>6
      <4>3. Spec_("id", ChatID(c)) \in ToSet(left') => left' # <<>>
        BY DEF ToSet
      <4>4. Resolving'
        BY <3>3 DEF Resolving
      <4> QED BY <4>1, <4>2, <4>3, <4>4, <3>3 DEF PremiumApart, ChatID
    <3> QED BY <3>1, <3>3, <3>4, <3>6, <3>7, <1>6 DEF PremiumInv, PremiumSession
  <2> QED BY <2>3, <2>4
<1> QED BY <1>8, <1>9, <1>10, <1>11

LEMMA PremiumStep ==
    ASSUME InvocationAssumption, InvocationInv, PremiumInv, [InvocationNext]_invocationVars
    PROVE  PremiumInv'
<1>1. CASE NextAccount
  BY <1>1, PremiumNextAccount
<1>2. CASE DecideTakeout \/ TakeoutStarts \/ TakeoutRefused
  <2>1. /\ Resolving /\ pc' \in {"resolve", "init", "failed"}
        /\ UNCHANGED <<opts, deferrals, walked, kind, left, seen, targets>>
    BY <1>2 DEF DecideTakeout, TakeoutStarts, TakeoutRefused, Fail, input, Resolving
  <2> QED BY <2>1, PremiumGoesOn
<1>3. CASE SessionFails \/ UNCHANGED invocationVars
  <2>1. /\ pc' = "failed" \/ pc' = pc
        /\ UNCHANGED <<opts, deferrals, walked, kind, left, seen, targets>>
    BY <1>3 DEF SessionFails, Fail, input, invocationVars
  <2> QED BY <2>1, PremiumGoesOn
<1>4. CASE ResolveSpec
  BY <1>4, PremiumResolves
<1>5. CASE ResolveSaved
  BY <1>5, PremiumResolvesSaved
<1>6. CASE SplitRouted \/ FilterByMinAge
  BY <1>6, PremiumKeeps
<1>7. CASE Walk
  BY <1>7, PremiumWalk
<1>8. CASE EndSession
  BY <1>8, PremiumEndSession
<1> QED BY <1>1, <1>2, <1>3, <1>4, <1>5, <1>6, <1>7, <1>8 DEF InvocationNext

LEMMA TurnsInOrder ==
    ASSUME InvocationAssumption, InvocationInv, PremiumInv
    PROVE  WalkedOncePerTurn
<1>1. \A c \in Chats : TimesWalked(c) <= 1 /\ (Walked(c) => TimesWalked(c) = 1)
  BY CountedOnce
<1>2. resolved \subseteq Chats
  BY DEF InvocationInv, InvocationTypes
<1>3. pc \in {"account", "done"} => \A c \in resolved : OldEnough(c) => Walked(c)
  BY DEF InvocationInv, NoneForgotten
<1>4. \A i \in PremiumWalks :
        /\ ChatID(walked[i][3]) \in deferrals
        /\ \E j \in Of(OtherWalks, ChatID(walked[i][3])) : j < i
        /\ \A j \in PremiumWalks : walked[i][3] = walked[j][3] => i = j
  BY DEF PremiumInv, PremiumHistory, Of
<1>5. ASSUME pc = "done", NEW id \in deferrals PROVE Of(PremiumWalks, id) # {}
  <2>1. PICK c \in Chats : ChatID(c) = id
    BY DEF PremiumInv, PremiumHistory
  <2>2. PremiumWalked(c)
    BY <2>1, <1>5 DEF PremiumInv, PremiumSession
  <2> QED BY <2>1, <2>2 DEF PremiumWalked, Of
<1> QED BY <1>1, <1>2, <1>3, <1>4, <1>5 DEF WalkedOncePerTurn

\* README.md:95 and :368: for any chats, dialogs, accounts, scopes and routing tables,
\* and whatever the listings, the takeout probe and the resolutions answer, no chat of
\* the scope is walked twice in a turn, a turn that ends well has walked every one that
\* passes --chat-min-age, and the premium account walks again, once each, the chats
\* that files were deferred of and no other.
THEOREM TurnsWalkOnce ==
    ASSUME InvocationAssumption PROVE InvocationSpec => []WalkedOncePerTurn
<1>1. InvocationInit => InvocationInv /\ PremiumInv
  BY InvocationStarts, PremiumStarts
<1>2. InvocationInv /\ PremiumInv /\ [InvocationNext]_invocationVars => InvocationInv' /\ PremiumInv'
  BY InvocationStep, PremiumStep
<1>3. InvocationInv /\ PremiumInv => WalkedOncePerTurn
  BY TurnsInOrder
<1> QED BY <1>1, <1>2, <1>3, PTL DEF InvocationSpec
-----------------------------------------------------------------------------
(* The walk of a chat *)

\* What the server has for this walk, and what of it the walk has still to come to:
\* the rest of the page, what is older than the page, and the topics left.
There == {m \in Visited : Serves(options, m.topic, m)}
OfFeed(m) == TopicMode(options) => m.topic = topic
ToCome ==
    {m \in There : \/ m \in page
                   \/ TopicMode(options) /\ m.topic \in todo
                   \/ step = "feed" /\ OfFeed(m) /\ Below(offset, m)}

WalkTypes ==
    /\ options \in Settings
    /\ step \in {"refused", "topics", "next", "feed", "flush", "done", "failed"}
    /\ todo \subseteq LiveTopics /\ topic \in Nat /\ offset \in Nat
    /\ page \subseteq There /\ read \subseteq There /\ unknown \subseteq read
    /\ buffer \in Seq(History) /\ emitted \in Seq(History)
    /\ step \in {"topics", "next"} => TopicMode(options)

\* The topics listed so far are the live ones up to the last of them.
TopicsInOrder ==
    /\ step = "topics" => todo = {t \in LiveTopics : t <= topic} /\ read = {}
    /\ step = "feed" /\ TopicMode(options) => topic \in LiveTopics \ todo

\* What is left of a page is newer than all the pages to come.
PageOnTop ==
    /\ page # {} => step \in {"feed", "failed"} /\ offset # 0
    /\ \A m \in page : OfFeed(m) /\ m.id >= offset

\* No message is scanned twice, and none is passed over before the limit.
ReadOnce ==
    /\ read \cap ToCome = {} /\ scanned = Cardinality(read)
    /\ options.limit > 0 => scanned <= options.limit
    /\ step \in {"next", "feed"} => There \subseteq read \cup ToCome \/ LimitReached
    /\ step \in {"flush", "done"} => There \subseteq read \/ LimitReached

\* What was scanned and selected is in the buffer or was emitted, once.
SelectedOnce ==
    /\ ToSet(emitted) \cup ToSet(buffer) = {m \in read : Selected(m)}
    /\ ToSet(emitted) \cap ToSet(buffer) = {}
    /\ Len(emitted) = Cardinality(ToSet(emitted))
    /\ \A i, j \in DOMAIN buffer : buffer[i] = buffer[j] => i = j
    /\ step = "done" => buffer = <<>>

WalkInv == WalkTypes /\ TopicsInOrder /\ PageOnTop /\ ReadOnce /\ SelectedOnce
-----------------------------------------------------------------------------
(* What the server is asked for *)

DocumentKinds == {"sticker", "voice", "audio", "gif", "video-note", "video", "document"}

LEMMA KindOfDocument == ASSUME NEW attrs PROVE DocumentKind(attrs) \in DocumentKinds
<1>1. CASE "sticker" \in attrs
  BY <1>1 DEF DocumentKind, DocumentKinds
<1>2. CASE "sticker" \notin attrs /\ "audio" \in attrs
  BY <1>2 DEF DocumentKind, DocumentKinds
<1>3. CASE "sticker" \notin attrs /\ "audio" \notin attrs
  BY <1>3 DEF DocumentKind, DocumentKinds
<1> QED BY <1>1, <1>2, <1>3

\* The kind of a file tells the constructor of its medium, whenever a server
\* filter is derived from that kind.
LEMMA KindOfMedium ==
    ASSUME NEW media, media.type \in MediaTypes, MapMedia(media).present
    PROVE  /\ MapMedia(media).kind = "photo" => media.type = "photo"
           /\ MapMedia(media).kind \in DocumentKinds =>
                 /\ media.type = "document" /\ ~media.gone
                 /\ MapMedia(media).kind = DocumentKind(media.attrs)
           /\ MapMedia(media).kind = "geo" => media.type \in {"geo", "geo_live", "venue"}
           /\ MapMedia(media).kind \in {"contact", "webpage"} => media.type = MapMedia(media).kind
<1>1. \A k : File(k).kind = k /\ NoFile.present = FALSE
  BY DEF File, NoFile
<1>2. MapPhoto(media).kind = "photo"
  BY DEF MapPhoto, File, NoFile
<1>3. MapDocument(media).kind = DocumentKind(media.attrs)
  BY DEF MapDocument, File, NoFile
<1>4. CASE media.type \in {"none", "empty"}
  <2>1. MapMedia(media) = NoFile
    <3>1. CASE media.type = "none"
      BY <3>1 DEF MapMedia, MediaTypes, MediaKinds
    <3>2. CASE media.type = "empty"
      BY <3>2 DEF MapMedia, MediaTypes, MediaKinds
    <3> QED BY <3>1, <3>2, <1>4
  <2> QED BY <2>1, <1>1
<1>5. CASE media.type = "photo"
  <2>1. MapMedia(media) = MapPhoto(media)
    BY <1>5 DEF MapMedia
  <2> QED BY <2>1, <1>2, <1>5 DEF DocumentKinds
<1>6. CASE media.type = "document"
  <2>1. MapMedia(media) = IF media.gone THEN NoFile ELSE MapDocument(media)
    BY <1>6 DEF MapMedia
  <2>2. ~media.gone /\ MapMedia(media) = MapDocument(media)
    BY <2>1, <1>1
  <2> QED BY <2>2, <1>3, <1>6, KindOfDocument DEF DocumentKinds
<1>7. CASE media.type \in {"geo", "geo_live", "venue"}
  <2>1. MapMedia(media) = File("geo")
    <3>1. CASE media.type = "geo"
      BY <3>1 DEF MapMedia, MediaTypes, MediaKinds
    <3>2. CASE media.type = "geo_live"
      BY <3>2 DEF MapMedia, MediaTypes, MediaKinds
    <3>3. CASE media.type = "venue"
      BY <3>3 DEF MapMedia, MediaTypes, MediaKinds
    <3> QED BY <3>1, <3>2, <3>3, <1>7
  <2> QED BY <2>1, <1>1, <1>7 DEF DocumentKinds
<1>8. CASE media.type \in (MediaTypes \cap MediaKinds) \ {"photo", "document", "geo"}
  <2>1. media.type \notin DocumentKinds /\ media.type \notin {"none", "empty", "geo_live", "venue"}
    BY <1>8 DEF MediaTypes, MediaKinds, DocumentKinds
  <2>2. MapMedia(media) = File(media.type)
    BY <2>1, <1>8 DEF MapMedia
  <2> QED BY <2>1, <2>2, <1>1, <1>8
<1>9. CASE media.type = "other"
  <2>1. MapMedia(media) = File("unsupported")
    BY <1>9 DEF MapMedia, MediaKinds
  <2> QED BY <2>1, <1>1, <1>9 DEF DocumentKinds
<1> QED BY <1>4, <1>5, <1>6, <1>7, <1>8, <1>9 DEF MediaTypes, MediaKinds

\* A medium whose kind is asked for is one the server returns.
LEMMA FilterServes ==
    ASSUME NEW m, m.media.type \in MediaTypes, MapMedia(m.media).present, NEW kinds,
           MapMedia(m.media).kind \in kinds, MessagesFilterFor(kinds) # ""
    PROVE  MessagesFilterFor(kinds) \in ServerKinds(m)
<1> DEFINE k == MapMedia(m.media).kind
           film == DocumentKind(m.media.attrs)
<1> HIDE DEF k, film
<1>1. /\ k = "photo" => m.media.type = "photo"
      /\ k \in DocumentKinds => m.media.type = "document" /\ ~m.media.gone /\ k = film
      /\ k = "geo" => m.media.type \in {"geo", "geo_live", "venue"}
      /\ k \in {"contact", "webpage"} => m.media.type = k
  BY KindOfMedium DEF k, film
<1>2. k \in kinds
  BY DEF k
<1>3. CASE kinds = {"photo", "video"}
  <2>1. MessagesFilterFor(kinds) = "photo_video"
    BY <1>3 DEF MessagesFilterFor
  <2>2. CASE k = "photo"
    BY <2>1, <2>2, <1>1 DEF ServerKinds
  <2>3. CASE k = "video"
    BY <2>1, <2>3, <1>1 DEF ServerKinds, DocumentKinds, film
  <2> QED BY <2>2, <2>3, <1>2, <1>3
<1>4. ASSUME NEW asked \in {"photo", "video", "voice", "document", "gif", "geo", "contact"},
             kinds = {asked}
      PROVE  MessagesFilterFor(kinds) \in ServerKinds(m)
  <2>1. MessagesFilterFor(kinds) = asked /\ k = asked
    <3>1. k = asked
      BY <1>2, <1>4
    <3>2. (CHOOSE x \in kinds : TRUE) = asked
      BY <1>4
    <3>3. kinds # {"photo", "video"}
      <4>1. "photo" \notin kinds \/ "video" \notin kinds
        BY <1>4
      <4> QED BY <4>1
    <3> QED BY <3>1, <3>2, <3>3, <1>4 DEF MessagesFilterFor
  <2>2. CASE asked = "photo"
    BY <2>1, <2>2, <1>1 DEF ServerKinds
  <2>3. CASE asked \in {"video", "voice", "document", "gif"}
    BY <2>1, <2>3, <1>1 DEF ServerKinds, DocumentKinds, film
  <2>4. CASE asked = "geo"
    BY <2>1, <2>4, <1>1 DEF ServerKinds
  <2>5. CASE asked = "contact"
    BY <2>1, <2>5, <1>1 DEF ServerKinds
  <2> QED BY <2>2, <2>3, <2>4, <2>5
<1>5. CASE kinds = {"video-note"}
  <2>1. MessagesFilterFor(kinds) = "round_video" /\ k = "video-note"
    BY <1>2, <1>5 DEF MessagesFilterFor
  <2> QED BY <2>1, <1>1 DEF ServerKinds, DocumentKinds, film
<1>6. CASE kinds = {"audio"}
  <2>1. MessagesFilterFor(kinds) = "music" /\ k = "audio"
    BY <1>2, <1>6 DEF MessagesFilterFor
  <2> QED BY <2>1, <1>1 DEF ServerKinds, DocumentKinds, film
<1>7. CASE kinds = {"webpage"}
  <2>1. MessagesFilterFor(kinds) = "url" /\ k = "webpage"
    BY <1>2, <1>7 DEF MessagesFilterFor
  <2> QED BY <2>1, <1>1 DEF ServerKinds
<1> QED BY <1>3, <1>4, <1>5, <1>6, <1>7 DEF MessagesFilterFor

\* What the predicates accept, off the bounds of the ids, the server returns.
LEMMA MatchesAreServed ==
    ASSUME SelectionAssumption, NEW o \in Settings, NEW m \in History, NEW sender,
           Matches(o, MapMessage(m, sender)), m.id \notin {o.least["id"], o.most["id"]}
    PROVE  Serves(o, m.topic, m)
<1> DEFINE x == MapMessage(m, sender)
<1>1. x.file = MapMedia(m.media) /\ x.measure.id = m.id /\ x.measure.date = m.date
  BY DEF MapMessage
<1>2. MediaPredicates(o, x) /\ DatePredicates(o, x) /\ MiscPredicates(o, x)
  BY DEF Matches
<1> HIDE DEF x
<1>3. Within(o, "id", m.id) /\ Within(o, "date", m.date)
  BY <1>1, <1>2 DEF MiscPredicates, DatePredicates
<1>4. m.id \in Nat /\ o.least["id"] \in Nat /\ o.most["id"] \in Nat /\ m.media.type \in MediaTypes
  BY DEF SelectionAssumption, Bounds
<1>5. /\ o.least["id"] = 0 \/ m.id > o.least["id"]
      /\ o.most["id"] = 0 \/ m.id < o.most["id"]
  BY <1>3, <1>4 DEF Within
<1>6. ASSUME Filter(o) # "" PROVE Filter(o) \in ServerKinds(m)
  <2>1. o.any["media"] # {}
    BY <1>6 DEF Filter, MessagesFilterFor
  <2>2. o.any["media"] \cap OfFile(x, x.file.kind) # {}
    BY <2>1, <1>2 DEF MediaPredicates, Among
  <2>3. MapMedia(m.media).present /\ MapMedia(m.media).kind \in o.any["media"]
    BY <2>2, <1>1 DEF OfFile
  <2> QED BY <2>3, <1>4, <1>6, FilterServes DEF Filter
<1> QED BY <1>3, <1>5, <1>6 DEF Serves
-----------------------------------------------------------------------------
(* Pages and listings *)

LEMMA NewestShape ==
    ASSUME SelectionAssumption, NEW T \in SUBSET History, T # {}
    PROVE  /\ Newest(T) \in T /\ \A m \in T : m.id <= Newest(T).id
           /\ Oldest(T) \in T /\ \A m \in T : Oldest(T).id <= m.id
<1> DEFINE f == [m \in T |-> m.id]
<1>1. f \in [T -> Int] /\ IsFiniteSet(T)
  <2>1. \A m \in T : m.id \in Int
    BY DEF SelectionAssumption
  <2> QED BY <2>1, FS_Subset DEF SelectionAssumption
<1>2. \E x \in T : \A y \in T : f[y] <= f[x]
  <2> HIDE DEF f
  <2> QED BY <1>1, Greatest
<1>3. \E x \in T : \A y \in T : f[x] <= f[y]
  <2> HIDE DEF f
  <2> QED BY <1>1, Lowest
<1> QED BY <1>2, <1>3 DEF Newest, Oldest

\* A page is the newest part of what is below the offset, and not empty while
\* there is something.
LEMMA PageShape ==
    ASSUME SelectionAssumption, NEW o, NEW t, NEW off \in Nat
    PROVE  LET next == PageAfter(o, t, off)
               rest == {m \in Served(o, t) : Below(off, m)}
           IN  /\ next \subseteq rest
               /\ rest # {} => next # {}
               /\ \A m \in rest : \A x \in next : m \in next \/ m.id < x.id
<1> DEFINE rest == {m \in Served(o, t) : Below(off, m)}
           Newer(m) == {x \in rest : x.id > m.id}
           next == {m \in rest : Cardinality(Newer(m)) < PageSize}
<1>1. PageAfter(o, t, off) = next
  BY DEF PageAfter
<1>2. rest \in SUBSET History
  BY DEF Served
<1>3. PageSize \in Nat \ {0} /\ IsFiniteSet(History)
  BY DEF SelectionAssumption
<1>4. \A m \in rest : m.id \in Nat /\ \A x \in rest : x.id = m.id => x = m
  BY <1>2 DEF SelectionAssumption
<1>5. IsFiniteSet(rest)
  BY <1>2, <1>3, FS_Subset
<1> HIDE DEF rest
<1>6. ASSUME NEW m \in rest
      PROVE  IsFiniteSet(Newer(m)) /\ Cardinality(Newer(m)) \in Nat
  <2>1. Newer(m) \in SUBSET rest
    OBVIOUS
  <2> QED BY <2>1, <1>5, FS_Subset, FS_CardinalityType
<1>7. ASSUME rest # {} PROVE next # {}
  <2> DEFINE m == Newest(rest)
  <2>1. m \in rest /\ \A x \in rest : x.id <= m.id
    BY <1>2, <1>7, NewestShape
  <2> HIDE DEF m
  <2>2. Newer(m) = {}
    BY <2>1, <1>4
  <2>3. Cardinality(Newer(m)) = 0
    BY <2>2, FS_EmptySet
  <2> QED BY <2>1, <2>3, <1>3
<1>8. ASSUME NEW m \in rest, NEW x \in next, m.id >= x.id PROVE m \in next
  <2>1. \A y \in rest : y.id > m.id => y.id > x.id
    BY <1>4, <1>8
  <2>2. Newer(m) \in SUBSET Newer(x)
    BY <2>1
  <2>3. Cardinality(Newer(m)) <= Cardinality(Newer(x)) /\ Cardinality(Newer(x)) < PageSize
    BY <2>2, <1>6, FS_Subset
  <2> QED BY <2>3, <1>3, <1>6
<1>9. \A m \in rest : \A x \in next : m \in next \/ m.id < x.id
  BY <1>8, <1>4
<1> QED BY <1>1, <1>7, <1>9 DEF rest

\* A listing is the first part of the topics behind t, and all of them when it is
\* shorter than a page.
LEMMA ListingShape ==
    ASSUME SelectionAssumption, NEW t \in Nat
    PROVE  LET listed == TopicsAfter(t)
               rest == {x \in Topics : x.id > t}
           IN  /\ listed \subseteq rest
               /\ \A x \in listed : \A y \in rest : y.id < x.id => y \in listed
               /\ Cardinality(listed) < TopicsPage => listed = rest
<1> DEFINE rest == {x \in Topics : x.id > t}
           Before(x) == {y \in rest : y.id < x.id}
           listed == {x \in rest : Cardinality(Before(x)) < TopicsPage}
<1>1. TopicsAfter(t) = listed
  BY DEF TopicsAfter
<1>2. rest \in SUBSET Topics /\ IsFiniteSet(Topics) /\ TopicsPage \in Nat \ {0}
      /\ \A x \in rest : x.id \in Nat
  BY DEF SelectionAssumption
<1>3. IsFiniteSet(rest)
  BY <1>2, FS_Subset
<1> HIDE DEF rest
<1>4. ASSUME NEW x \in rest
      PROVE  IsFiniteSet(Before(x)) /\ Cardinality(Before(x)) \in Nat
  <2>1. Before(x) \in SUBSET rest
    OBVIOUS
  <2> QED BY <2>1, <1>3, FS_Subset, FS_CardinalityType
<1>5. ASSUME NEW x \in listed, NEW y \in rest, y.id < x.id PROVE y \in listed
  <2>1. \A z \in rest : z.id < y.id => z.id < x.id
    BY <1>2, <1>5
  <2>2. Before(y) \in SUBSET Before(x)
    BY <2>1
  <2>3. Cardinality(Before(y)) <= Cardinality(Before(x)) /\ Cardinality(Before(x)) < TopicsPage
    BY <2>2, <1>4, FS_Subset
  <2> QED BY <2>3, <1>2, <1>4
<1>6. ASSUME Cardinality(listed) < TopicsPage, rest \ listed # {} PROVE FALSE
  <2> DEFINE others == rest \ listed
             f == [x \in others |-> x.id]
  <2>1. others \in SUBSET rest /\ IsFiniteSet(others) /\ f \in [others -> Int]
    <3>1. others \in SUBSET rest
      OBVIOUS
    <3>2. IsFiniteSet(others)
      BY <3>1, <1>3, FS_Subset
    <3>3. \A x \in others : x.id \in Int
      BY <3>1, <1>2
    <3> QED BY <3>1, <3>2, <3>3
  <2>2. PICK x \in others : \A y \in others : f[x] <= f[y]
    <3> HIDE DEF others, f
    <3> QED BY <2>1, <1>6, Lowest DEF others
  <2>3. \A y \in others : x.id <= y.id
    BY <2>2
  <2>4. Before(x) \in SUBSET listed
    BY <2>3, <1>2
  <2>5. IsFiniteSet(listed) /\ Cardinality(listed) \in Nat
    <3>1. listed \in SUBSET rest
      OBVIOUS
    <3> QED BY <3>1, <1>3, FS_Subset, FS_CardinalityType
  <2>6. Cardinality(Before(x)) <= Cardinality(listed) /\ Cardinality(Before(x)) \in Nat
    <3> HIDE DEF listed, Before
    <3> QED BY <2>4, <2>5, FS_Subset, FS_CardinalityType
  <2> QED BY <2>5, <2>6, <1>2, <1>6
<1>7. listed \subseteq rest
  OBVIOUS
<1> QED BY <1>1, <1>5, <1>6, <1>7 DEF rest
-----------------------------------------------------------------------------
(* The steps of a walk *)

LEMMA LiveShape ==
    ASSUME SelectionAssumption
    PROVE  IsFiniteSet(LiveTopics) /\ LiveTopics \subseteq Nat \ {0}
<1> DEFINE f == [x \in {y \in Topics : ~y.deleted} |-> x.id]
<1>1. LiveTopics \subseteq Nat \ {0}
  BY DEF SelectionAssumption, LiveTopics
<1>2. IsFiniteSet({y \in Topics : ~y.deleted})
  BY FS_Subset DEF SelectionAssumption
<1>3. f \in Surjection({y \in Topics : ~y.deleted}, LiveTopics)
  BY DEF LiveTopics, Surjection
<1> QED BY <1>1, <1>2, <1>3, FS_Surjection

LEMMA ThereShape ==
    ASSUME SelectionAssumption, WalkInv
    PROVE  /\ There \subseteq History /\ IsFiniteSet(There) /\ IsFiniteSet(read)
           /\ scanned \in Nat /\ options.limit \in Nat
           /\ \A m \in There : m.id \in Nat \ {0}
<1>1. There \subseteq History
  BY DEF There, Visited
<1>2. read \in SUBSET There
  BY DEF WalkInv, WalkTypes
<1>3. IsFiniteSet(There)
  BY <1>1, FS_Subset DEF SelectionAssumption
<1>4. IsFiniteSet(read) /\ scanned \in Nat
  BY <1>2, <1>3, FS_Subset, FS_CardinalityType DEF WalkInv, ReadOnce
<1> QED BY <1>1, <1>3, <1>4 DEF SelectionAssumption, WalkInv, WalkTypes

\* The feed under way serves what the server has for it.
LEMMA ServedShape ==
    ASSUME SelectionAssumption, WalkInv, step = "feed"
    PROVE  Served(options, topic) = {m \in There : OfFeed(m)}
<1>1. CASE TopicMode(options)
  <2>1. topic \in LiveTopics
    BY <1>1 DEF WalkInv, TopicsInOrder
  <2>2. \A m \in History : Serves(options, topic, m) <=> m.topic = topic /\ Serves(options, m.topic, m)
    BY <1>1 DEF Serves
  <2> QED BY <2>1, <2>2, <1>1 DEF Served, There, Visited, OfFeed
<1>2. CASE ~TopicMode(options)
  <2>1. \A m \in History : Serves(options, topic, m) <=> Serves(options, m.topic, m)
    BY <1>2 DEF Serves
  <2> QED BY <2>1, <1>2 DEF Served, There, Visited, OfFeed
<1> QED BY <1>1, <1>2

LEMMA SameChat ==
    ASSUME options' = options
    PROVE  /\ There' = There /\ Visited' = Visited /\ LiveTopics' = LiveTopics
           /\ TopicMode(options)' = TopicMode(options)
<1>1. TopicMode(options)' = TopicMode(options) /\ LiveTopics' = LiveTopics
  BY DEF TopicMode, LiveTopics
<1>2. Visited' = Visited
  BY <1>1 DEF Visited
<1>3. \A m : Serves(options, m.topic, m)' = Serves(options, m.topic, m)
  BY DEF Serves, Searches, TopicMode, Filter, Within
<1> QED BY <1>1, <1>2, <1>3 DEF There

\* A step that scans and emits nothing.
LEMMA SelectionKept ==
    ASSUME WalkInv, UNCHANGED <<options, read, unknown, buffer, emitted>>,
           step' = "done" => buffer = <<>>
    PROVE  SelectedOnce'
<1>1. \A m \in read : Selected(m)' <=> Selected(m)
  BY DEF Selected
<1> QED BY <1>1 DEF WalkInv, SelectedOnce

LEMMA WalkStart == ASSUME SelectionAssumption, WalkInit PROVE WalkInv
<1>1. /\ step \in {"refused", "topics", "feed"} /\ todo = {} /\ topic = 0 /\ offset = 0
      /\ page = {} /\ scanned = 0 /\ read = {} /\ unknown = {} /\ buffer = <<>> /\ emitted = <<>>
      /\ options \in Settings /\ (step = "topics" => TopicMode(options))
      /\ (step = "feed" => ~TopicMode(options))
  BY DEF WalkInit, NoTopic
<1>2. WalkTypes
  BY <1>1 DEF WalkTypes
<1>3. TopicsInOrder
  BY <1>1, LiveShape DEF TopicsInOrder
<1>4. PageOnTop
  BY <1>1 DEF PageOnTop
<1>5. ReadOnce
  <2>1. options.limit \in Nat /\ Cardinality({}) = 0
    BY <1>1, FS_EmptySet DEF SelectionAssumption
  <2>2. step = "feed" => There \subseteq ToCome
    BY <1>1 DEF ToCome, OfFeed, Below
  <2> QED BY <1>1, <2>1, <2>2 DEF ReadOnce
<1>6. SelectedOnce
  <2>1. ToSet(<<>>) = {} /\ Len(<<>>) = 0 /\ DOMAIN <<>> = {} /\ Cardinality({}) = 0
    BY FS_EmptySet DEF ToSet
  <2> QED BY <1>1, <2>1 DEF SelectedOnce
<1> QED BY <1>2, <1>3, <1>4, <1>5, <1>6 DEF WalkInv

LEMMA ListTopicsStep == ASSUME SelectionAssumption, WalkInv, ListTopics PROVE WalkInv'
<1> DEFINE listed == TopicsAfter(topic)
           rest == {x \in Topics : x.id > topic}
           live == {x.id : x \in {y \in listed : ~y.deleted}}
<1>1. /\ step = "topics" /\ todo' = todo \cup live
      /\ UNCHANGED <<options, offset, page, scanned, read, unknown, buffer, emitted>>
      /\ \/ Cardinality(listed) < TopicsPage /\ step' = "next" /\ topic' = 0
         \/ ~(Cardinality(listed) < TopicsPage) /\ step' = "topics" /\ todo' # {} /\ topic' = Max(todo')
  BY DEF ListTopics, NoTopic, senderVars
<1>2. /\ todo = {t \in LiveTopics : t <= topic} /\ read = {} /\ page = {} /\ topic \in Nat
      /\ TopicMode(options) /\ unknown = {}
  BY <1>1 DEF WalkInv, WalkTypes, TopicsInOrder, PageOnTop
<1>3. /\ listed \subseteq rest
      /\ \A x \in listed : \A y \in rest : y.id < x.id => y \in listed
      /\ Cardinality(listed) < TopicsPage => listed = rest
  BY <1>2, ListingShape
<1>4. /\ There' = There /\ LiveTopics' = LiveTopics /\ TopicMode(options)'
      /\ IsFiniteSet(LiveTopics) /\ LiveTopics \subseteq Nat \ {0}
  BY <1>1, <1>2, SameChat, LiveShape
<1> HIDE DEF listed
<1>5. live \subseteq LiveTopics
  BY <1>3 DEF LiveTopics
<1>6. todo' \subseteq LiveTopics
  BY <1>1, <1>2, <1>5
<1>7. ASSUME todo' # {}
      PROVE  Max(todo') \in todo' /\ \A t \in todo' : t <= Max(todo')
  <2>1. todo' \in SUBSET Nat /\ IsFiniteSet(todo')
    BY <1>4, <1>6, FS_Subset
  <2> QED BY <2>1, <1>7, MaxMinShape
<1>8. ASSUME step' = "topics" PROVE todo' = {t \in LiveTopics : t <= topic'}
  <2>1. topic' \in todo' /\ \A t \in todo' : t <= topic'
    BY <1>1, <1>7, <1>8
  <2>2. ASSUME NEW t \in LiveTopics, t <= topic' PROVE t \in todo'
    <3>1. CASE t <= topic
      BY <3>1, <1>1, <1>2
    <3>2. CASE t > topic
      <4>1. t \in Nat /\ topic' \in Nat /\ topic' \in live
        BY <2>1, <2>2, <3>2, <1>1, <1>2, <1>4, <1>6
      <4>2. PICK x \in listed : ~x.deleted /\ topic' = x.id
        BY <4>1
      <4>3. PICK y \in Topics : ~y.deleted /\ t = y.id
        BY DEF LiveTopics
      <4>4. y \in rest /\ (y.id < x.id \/ y.id = x.id)
        BY <3>2, <2>2, <4>1, <4>2, <4>3
      <4>5. y \in listed
        BY <4>2, <4>4, <1>3 DEF SelectionAssumption
      <4> QED BY <4>3, <4>5, <1>1
    <3> QED BY <3>1, <3>2, <1>2, <1>4
  <2> QED BY <2>1, <2>2, <1>6
<1>9. ASSUME step' = "next" PROVE todo' = LiveTopics
  <2>1. listed = rest
    BY <1>1, <1>3, <1>9
  <2>2. ASSUME NEW t \in LiveTopics, ~(t <= topic) PROVE t \in live
    <3>1. PICK y \in Topics : ~y.deleted /\ t = y.id
      BY DEF LiveTopics
    <3>2. y \in listed
      BY <2>1, <2>2, <3>1, <1>2, <1>4
    <3> QED BY <3>1, <3>2
  <2> QED BY <2>2, <1>1, <1>2, <1>6
<1> HIDE DEF live, rest
<1>10. WalkTypes'
  <2>1. topic' \in Nat
    <3>1. topic' = 0 \/ topic' \in todo'
      BY <1>1, <1>7
    <3>2. \A t \in todo' : t \in Nat
      BY <1>4, <1>6
    <3> QED BY <3>1, <3>2
  <2> QED BY <2>1, <1>1, <1>2, <1>4, <1>6 DEF WalkInv, WalkTypes
<1>11. TopicsInOrder'
  BY <1>1, <1>2, <1>4, <1>8 DEF TopicsInOrder
<1>12. PageOnTop'
  BY <1>1, <1>2 DEF PageOnTop
<1>13. ReadOnce'
  <2>1. step' = "next" => There' \subseteq ToCome'
    BY <1>2, <1>4, <1>9, SameChat, <1>1 DEF ToCome, There, Visited
  <2> QED BY <2>1, <1>1, <1>2 DEF WalkInv, ReadOnce
<1>14. SelectedOnce'
  BY <1>1, SelectionKept
<1> QED BY <1>10, <1>11, <1>12, <1>13, <1>14 DEF WalkInv

LEMMA NextFeedStep == ASSUME SelectionAssumption, WalkInv, NextFeed PROVE WalkInv'
<1>1. /\ step = "next" /\ offset' = 0
      /\ UNCHANGED <<options, page, scanned, read, unknown, buffer, emitted>>
      /\ \/ (todo = {} \/ LimitReached) /\ step' = "flush" /\ UNCHANGED <<todo, topic>>
         \/ /\ todo # {} /\ step' = "feed"
            /\ todo' = todo \ {Min(todo)} /\ topic' = Min(todo)
  BY DEF NextFeed, senderVars
<1>2. /\ page = {} /\ TopicMode(options) /\ todo \subseteq LiveTopics /\ topic \in Nat
      /\ read \cap ToCome = {} /\ (There \subseteq read \cup ToCome \/ LimitReached)
  BY <1>1 DEF WalkInv, WalkTypes, PageOnTop, ReadOnce
<1>3. /\ There' = There /\ LiveTopics' = LiveTopics /\ TopicMode(options)'
      /\ IsFiniteSet(LiveTopics) /\ LiveTopics \subseteq Nat \ {0}
  BY <1>1, <1>2, SameChat, LiveShape
<1>4. todo # {} => Min(todo) \in todo
  <2>1. todo \in SUBSET Nat /\ IsFiniteSet(todo)
    BY <1>2, <1>3, FS_Subset
  <2> QED BY <2>1, MaxMinShape
<1>5. ToCome' = ToCome
  BY <1>1, <1>2, <1>3, <1>4 DEF ToCome, OfFeed, Below
<1>6. WalkTypes'
  BY <1>1, <1>2, <1>3, <1>4 DEF WalkInv, WalkTypes
<1>7. TopicsInOrder' /\ PageOnTop'
  BY <1>1, <1>2, <1>3, <1>4 DEF TopicsInOrder, PageOnTop
<1>8. ReadOnce'
  <2>1. LimitReached' = LimitReached
    BY <1>1 DEF LimitReached
  <2>2. todo = {} => ToCome = {}
    BY <1>1, <1>2 DEF ToCome
  <2> QED BY <2>1, <2>2, <1>1, <1>2, <1>3, <1>5 DEF WalkInv, ReadOnce
<1>9. SelectedOnce'
  BY <1>1, SelectionKept
<1> QED BY <1>6, <1>7, <1>8, <1>9 DEF WalkInv

LEMMA FetchStep == ASSUME SelectionAssumption, WalkInv, Fetch PROVE WalkInv'
<1> DEFINE next == PageAfter(options, topic, offset)
           rest == {m \in There : OfFeed(m) /\ Below(offset, m)}
<1>1. /\ step = "feed" /\ page = {}
      /\ UNCHANGED <<options, todo, topic, scanned, read, unknown, buffer, emitted>>
      /\ \/ /\ next = {} /\ UNCHANGED <<page, offset>>
            /\ step' = IF TopicMode(options) THEN "next" ELSE "flush"
         \/ next # {} /\ page' = next /\ offset' = Oldest(next).id /\ step' = step
  BY DEF Fetch, EndFeed
<1>2. /\ topic \in Nat /\ offset \in Nat /\ options \in Settings /\ todo \subseteq LiveTopics
      /\ read \cap ToCome = {} /\ (There \subseteq read \cup ToCome \/ LimitReached)
  BY <1>1 DEF WalkInv, WalkTypes, ReadOnce
<1>3. There' = There /\ LiveTopics' = LiveTopics /\ TopicMode(options)' = TopicMode(options)
  BY <1>1, SameChat
<1>4. /\ next \subseteq rest /\ (rest # {} => next # {})
      /\ \A m \in rest : \A x \in next : m \in next \/ m.id < x.id
  <2>1. rest = {m \in Served(options, topic) : Below(offset, m)}
    BY <1>1, ServedShape
  <2> HIDE DEF rest
  <2> QED BY <2>1, <1>2, PageShape
<1>5. \A m : OfFeed(m)' <=> OfFeed(m)
  BY <1>1, <1>3 DEF OfFeed
<1>6. ToCome = {m \in There : (TopicMode(options) /\ m.topic \in todo) \/ m \in rest}
  BY <1>1 DEF ToCome
<1> HIDE DEF next
<1>7. LimitReached' <=> LimitReached
  BY <1>1 DEF LimitReached
<1>8. SelectedOnce'
  BY <1>1, SelectionKept
<1>9. CASE next = {}
  <2>1. rest = {} /\ step' = IF TopicMode(options) THEN "next" ELSE "flush"
    BY <1>1, <1>4, <1>9
  <2>2. ToCome' = ToCome /\ (~TopicMode(options) => ToCome = {})
    BY <2>1, <1>1, <1>3, <1>6, <1>9 DEF ToCome
  <2>3. WalkTypes' /\ TopicsInOrder' /\ PageOnTop'
    BY <2>1, <1>1, <1>2, <1>3, <1>9 DEF WalkInv, WalkTypes, TopicsInOrder, PageOnTop
  <2>4. ReadOnce'
    BY <2>1, <2>2, <1>1, <1>2, <1>3, <1>7 DEF WalkInv, ReadOnce
  <2> QED BY <2>3, <2>4, <1>8 DEF WalkInv
<1>10. CASE next # {}
  <2>1. page' = next /\ offset' = Oldest(next).id /\ step' = "feed"
    BY <1>1, <1>10
  <2>2. Oldest(next) \in next /\ \A m \in next : Oldest(next).id <= m.id
    <3>1. next \in SUBSET History
      BY <1>4 DEF There, Visited
    <3> QED BY <3>1, <1>10, NewestShape
  <2>3. offset' \in Nat \ {0} /\ \A m \in There : m.id \in Nat
    BY <2>1, <2>2, <1>4, ThereShape
  <2>4. ASSUME NEW m \in There, OfFeed(m)
        PROVE  Below(offset, m) <=> m \in next \/ Below(offset', m)
    <3>1. Oldest(next) \in rest
      BY <2>2, <1>4
    <3>2. ASSUME Below(offset, m), m \notin next PROVE Below(offset', m)
      BY <2>1, <2>2, <2>4, <3>2, <1>4 DEF Below
    <3>3. ASSUME Below(offset', m) PROVE Below(offset, m)
      BY <2>1, <2>3, <3>1, <3>3, <1>2 DEF Below
    <3> QED BY <3>2, <3>3, <1>4
  <2>5. \A m : Below(offset, m)' <=> Below(offset', m)
    BY DEF Below
  <2>6. ToCome' = ToCome
    BY <2>1, <2>4, <2>5, <1>1, <1>3, <1>4, <1>5 DEF ToCome
  <2>7. WalkTypes' /\ TopicsInOrder'
    BY <2>1, <2>3, <1>1, <1>2, <1>3, <1>4 DEF WalkInv, WalkTypes, TopicsInOrder
  <2>8. PageOnTop'
    BY <2>1, <2>2, <2>3, <1>4, <1>5 DEF PageOnTop
  <2>9. ReadOnce'
    BY <2>1, <2>6, <1>1, <1>2, <1>3, <1>7 DEF WalkInv, ReadOnce
  <2> QED BY <2>7, <2>8, <2>9, <1>8 DEF WalkInv
<1> QED BY <1>9, <1>10

\* The walk fails, or the page is dropped at the limit: less is to come.
LEMMA WalkStopsStep ==
    ASSUME SelectionAssumption, WalkInv, WalkFails \/ StopAtLimit
    PROVE  WalkInv'
<1>1. /\ UNCHANGED <<options, todo, topic, offset, scanned, read, unknown, buffer, emitted>>
      /\ page' \subseteq page /\ (page' = {} \/ step' = "failed")
      /\ \/ step' = "failed"
         \/ LimitReached /\ step = "feed" /\ step' = IF TopicMode(options) THEN "next" ELSE "flush"
  BY DEF WalkFails, StopAtLimit, EndFeed, feedVars, senderVars
<1>2. There' = There /\ LiveTopics' = LiveTopics /\ TopicMode(options)' = TopicMode(options)
  BY <1>1, SameChat
<1>3. (LimitReached' <=> LimitReached) /\ \A m : OfFeed(m)' <=> OfFeed(m)
  BY <1>1, <1>2 DEF LimitReached, OfFeed
<1>4. ToCome' \subseteq ToCome
  BY <1>1, <1>2 DEF ToCome
<1>5. WalkTypes' /\ TopicsInOrder'
  BY <1>1, <1>2 DEF WalkInv, WalkTypes, TopicsInOrder
<1>6. PageOnTop'
  BY <1>1, <1>3 DEF WalkInv, PageOnTop
<1>7. ReadOnce'
  BY <1>1, <1>2, <1>3, <1>4 DEF WalkInv, ReadOnce
<1>8. SelectedOnce'
  BY <1>1, SelectionKept
<1> QED BY <1>5, <1>6, <1>7, <1>8 DEF WalkInv

LEMMA ScanStep == ASSUME SelectionAssumption, WalkInv, Scan PROVE WalkInv'
<1>0. PICK m : m = Newest(page)
  OBVIOUS
<1>1. /\ step = "feed" /\ step' = "feed" /\ page # {} /\ ~LimitReached
      /\ scanned' = scanned + 1 /\ read' = read \cup {m} /\ page' = page \ {m}
      /\ UNCHANGED <<options, todo, topic, offset>>
  BY <1>0 DEF Scan
<1>2. PICK found \in BOOLEAN :
        LET match == Matches(options, MapMessage(m, SenderOf(m, found)))
        IN  /\ ResolveSender(m.from, found)
            /\ unknown' = IF found THEN unknown ELSE unknown \cup {m}
            /\ buffer' = IF match /\ options.reverse THEN Append(buffer, m) ELSE buffer
            /\ emitted' = IF match /\ ~options.reverse THEN Append(emitted, m) ELSE emitted
  BY <1>0 DEF Scan
<1>3. /\ There' = There /\ LiveTopics' = LiveTopics /\ TopicMode(options)' = TopicMode(options)
      /\ \A x : (OfFeed(x)' <=> OfFeed(x)) /\ (Below(offset, x)' <=> Below(offset, x))
  BY <1>1, SameChat DEF OfFeed, Below
<1>4. /\ m \in page /\ m \in There /\ m \in History
  <2>1. page \in SUBSET History /\ page \subseteq There
    BY ThereShape DEF WalkInv, WalkTypes
  <2> QED BY <2>1, <1>0, <1>1, NewestShape
<1>5. /\ IsFiniteSet(read) /\ scanned \in Nat /\ options.limit \in Nat /\ m.id \in Nat
      /\ offset \in Nat /\ scanned = Cardinality(read) /\ unknown \subseteq read
      /\ read \cap ToCome = {} /\ There \subseteq read \cup ToCome
      /\ offset # 0 /\ OfFeed(m) /\ m.id >= offset
      /\ buffer \in Seq(History) /\ emitted \in Seq(History)
  BY <1>1, <1>4, ThereShape DEF WalkInv, WalkTypes, ReadOnce, PageOnTop
<1>6. m \in ToCome /\ m \notin read /\ m \notin unknown
  BY <1>4, <1>5 DEF ToCome
<1>7. ToCome' = ToCome \ {m}
  <2>1. ~(TopicMode(options) /\ m.topic \in todo) /\ ~Below(offset, m)
    BY <1>1, <1>5 DEF WalkInv, TopicsInOrder, OfFeed, Below
  <2> QED BY <2>1, <1>1, <1>3 DEF ToCome
<1>8. WalkTypes'
  <2>1. buffer' \in Seq(History) /\ emitted' \in Seq(History)
    BY <1>2, <1>4, <1>5, AppendShape
  <2>2. unknown' \subseteq read'
    BY <1>1, <1>2, <1>5
  <2> QED BY <2>1, <2>2, <1>1, <1>3, <1>4 DEF WalkInv, WalkTypes
<1>9. TopicsInOrder' /\ PageOnTop'
  BY <1>1, <1>3 DEF WalkInv, TopicsInOrder, PageOnTop
<1>10. ReadOnce'
  <2>1. Cardinality(read') = scanned + 1
    BY <1>1, <1>5, <1>6, FS_AddElement
  <2>2. options.limit > 0 => scanned + 1 <= options.limit
    BY <1>1, <1>5 DEF LimitReached
  <2> QED BY <2>1, <2>2, <1>1, <1>3, <1>5, <1>7 DEF ReadOnce
<1>11. Selected(m)' <=> Matches(options, MapMessage(m, SenderOf(m, found)))
  <2>1. found => m.from # "0"
    BY <1>2 DEF ResolveSender
  <2>2. CASE found
    <3>1. m \notin unknown' /\ m.from # "0"
      BY <2>1, <2>2, <1>2, <1>6
    <3>2. SenderOf(m, m \notin unknown' /\ m.from # "0") = SenderOf(m, found)
      BY <3>1, <2>2 DEF SenderOf
    <3> QED BY <3>2, <1>1 DEF Selected
  <2>3. CASE ~found
    <3>1. m \in unknown'
      BY <2>3, <1>2
    <3>2. SenderOf(m, m \notin unknown' /\ m.from # "0") = SenderOf(m, found)
      BY <3>1, <2>3 DEF SenderOf
    <3> QED BY <3>2, <1>1 DEF Selected
  <2> QED BY <2>2, <2>3
<1>12. \A x \in read : Selected(x)' <=> Selected(x)
  <2>1. \A x \in read : x \notin unknown' <=> x \notin unknown
    BY <1>2, <1>6
  <2> QED BY <2>1, <1>1 DEF Selected
<1>13. SelectedOnce'
  <2>1. /\ ToSet(emitted) \cup ToSet(buffer) = {x \in read : Selected(x)}
        /\ ToSet(emitted) \cap ToSet(buffer) = {}
        /\ Len(emitted) = Cardinality(ToSet(emitted))
        /\ \A i, j \in DOMAIN buffer : buffer[i] = buffer[j] => i = j
    BY DEF WalkInv, SelectedOnce
  <2>2. m \notin ToSet(emitted) /\ m \notin ToSet(buffer) /\ IsFiniteSet(ToSet(emitted))
    BY <2>1, <1>5, <1>6, FS_Subset
  <2>3. /\ Selected(m)' => {x \in read' : Selected(x)'} = {x \in read : Selected(x)} \cup {m}
        /\ ~Selected(m)' => {x \in read' : Selected(x)'} = {x \in read : Selected(x)}
    BY <1>1, <1>6, <1>12, Zenon
  <2>4. CASE ~Selected(m)'
    <3>1. emitted' = emitted /\ buffer' = buffer
      BY <2>4, <1>2, <1>11
    <3> QED BY <2>1, <2>3, <2>4, <3>1, <1>1 DEF SelectedOnce
  <2>5. CASE Selected(m)' /\ options.reverse
    <3>1. emitted' = emitted /\ buffer' = Append(buffer, m)
      BY <2>5, <1>2, <1>11
    <3>2. /\ ToSet(buffer') = ToSet(buffer) \cup {m}
          /\ \A i, j \in DOMAIN buffer' : buffer'[i] = buffer'[j] => i = j
      BY <2>1, <2>2, <3>1, <1>4, <1>5, AppendShape
    <3> QED BY <2>1, <2>2, <2>3, <2>5, <3>1, <3>2, <1>1 DEF SelectedOnce
  <2>6. CASE Selected(m)' /\ ~options.reverse
    <3>1. emitted' = Append(emitted, m) /\ buffer' = buffer
      BY <2>6, <1>2, <1>11
    <3>2. /\ ToSet(emitted') = ToSet(emitted) \cup {m} /\ Len(emitted') = Len(emitted) + 1
      BY <3>1, <1>4, <1>5, AppendShape
    <3>3. Len(emitted') = Cardinality(ToSet(emitted'))
      BY <2>1, <2>2, <3>2, FS_AddElement
    <3> QED BY <2>1, <2>2, <2>3, <2>6, <3>1, <3>2, <3>3, <1>1 DEF SelectedOnce
  <2> QED BY <2>4, <2>5, <2>6
<1> QED BY <1>8, <1>9, <1>10, <1>13 DEF WalkInv

LEMMA FlushStep == ASSUME SelectionAssumption, WalkInv, Flush PROVE WalkInv'
<1>1. /\ step = "flush" /\ step' \in {"flush", "done"}
      /\ UNCHANGED <<options, todo, topic, offset, page, scanned, read, unknown>>
  BY DEF Flush, feedVars, senderVars
<1>2. There' = There /\ LiveTopics' = LiveTopics /\ TopicMode(options)' = TopicMode(options)
  BY <1>1, SameChat
<1>3. (LimitReached' <=> LimitReached) /\ \A m : OfFeed(m)' <=> OfFeed(m)
  BY <1>1, <1>2 DEF LimitReached, OfFeed
<1>4. ToCome' = ToCome
  BY <1>1, <1>2 DEF ToCome
<1>5. page = {}
  BY <1>1 DEF WalkInv, PageOnTop
<1>6. TopicsInOrder' /\ PageOnTop' /\ ReadOnce'
  BY <1>1, <1>2, <1>3, <1>4, <1>5 DEF WalkInv, TopicsInOrder, PageOnTop, ReadOnce
<1>7. CASE buffer = <<>>
  <2>1. UNCHANGED <<buffer, emitted>>
    BY <1>7 DEF Flush
  <2>2. WalkTypes'
    BY <2>1, <1>1, <1>2 DEF WalkInv, WalkTypes
  <2>3. SelectedOnce'
    BY <2>1, <1>1, <1>7, SelectionKept
  <2> QED BY <2>2, <2>3, <1>6 DEF WalkInv
<1>8. CASE buffer # <<>>
  <2>1. emitted' = Append(emitted, Last(buffer)) /\ buffer' = Front(buffer) /\ step' = "flush"
    BY <1>1, <1>8 DEF Flush
  <2>2. /\ ToSet(emitted) \cup ToSet(buffer) = {m \in read : Selected(m)}
        /\ ToSet(emitted) \cap ToSet(buffer) = {}
        /\ Len(emitted) = Cardinality(ToSet(emitted))
        /\ \A i, j \in DOMAIN buffer : buffer[i] = buffer[j] => i = j
        /\ buffer \in Seq(History) /\ emitted \in Seq(History)
    BY DEF WalkInv, WalkTypes, SelectedOnce
  <2>3. /\ Last(buffer) \in History /\ buffer' \in Seq(History)
        /\ ToSet(buffer) = ToSet(buffer') \cup {Last(buffer)}
        /\ Last(buffer) \notin ToSet(buffer')
        /\ \A i, j \in DOMAIN buffer' : buffer'[i] = buffer'[j] => i = j
    BY <2>1, <2>2, <1>8, FrontShape
  <2>4. /\ emitted' \in Seq(History) /\ Len(emitted') = Len(emitted) + 1
        /\ ToSet(emitted') = ToSet(emitted) \cup {Last(buffer)}
    BY <2>1, <2>2, <2>3, AppendShape
  <2>5. IsFiniteSet(ToSet(emitted)) /\ Last(buffer) \notin ToSet(emitted)
    BY <2>2, <2>3, ThereShape, FS_Subset
  <2>6. Len(emitted') = Cardinality(ToSet(emitted'))
    BY <2>2, <2>4, <2>5, FS_AddElement
  <2>7. \A m \in read : Selected(m)' <=> Selected(m)
    BY <1>1 DEF Selected
  <2>8. SelectedOnce'
    BY <2>1, <2>2, <2>3, <2>4, <2>5, <2>6, <2>7, <1>1 DEF SelectedOnce
  <2>9. WalkTypes'
    BY <2>1, <2>3, <2>4, <1>1, <1>2 DEF WalkInv, WalkTypes
  <2> QED BY <2>8, <2>9, <1>6 DEF WalkInv
<1> QED BY <1>7, <1>8

LEMMA WalkStepsKeep ==
    ASSUME SelectionAssumption, WalkInv, [WalkNext]_walkVars
    PROVE  WalkInv'
<1>1. CASE Retry \/ UNCHANGED walkVars
  <2>1. UNCHANGED <<options, todo, topic, offset, page, scanned, read, unknown, buffer, emitted,
                    step>>
    BY <1>1 DEF Retry, walkVars, feedVars, senderVars
  <2>2. There' = There /\ LiveTopics' = LiveTopics /\ TopicMode(options)' = TopicMode(options)
    BY <2>1, SameChat
  <2>3. /\ (LimitReached' <=> LimitReached) /\ ToCome' = ToCome
        /\ \A m : OfFeed(m)' <=> OfFeed(m)
    BY <2>1, <2>2 DEF LimitReached, ToCome, OfFeed
  <2>4. WalkTypes' /\ TopicsInOrder' /\ PageOnTop' /\ ReadOnce'
    BY <2>1, <2>2, <2>3 DEF WalkInv, WalkTypes, TopicsInOrder, PageOnTop, ReadOnce
  <2>5. SelectedOnce'
    BY <2>1, SelectionKept DEF WalkInv, SelectedOnce
  <2> QED BY <2>4, <2>5 DEF WalkInv
<1> QED BY <1>1, ListTopicsStep, NextFeedStep, FetchStep, WalkStopsStep, ScanStep, FlushStep
        DEF WalkNext
-----------------------------------------------------------------------------
(* Theorems *)

LEMMA FinishedWalk ==
    ASSUME SelectionAssumption, WalkInv, step = "done"
    PROVE  NothingHidden /\ LimitIsPerChat
<1>1. /\ There \subseteq read \/ LimitReached
      /\ read \subseteq There /\ scanned = Cardinality(read) /\ buffer = <<>>
      /\ ToSet(emitted) \cup ToSet(buffer) = {m \in read : Selected(m)}
      /\ Len(emitted) = Cardinality(ToSet(emitted)) /\ options \in Settings
      /\ options.limit > 0 => scanned <= options.limit
  BY DEF WalkInv, WalkTypes, ReadOnce, SelectedOnce
<1>2. /\ IsFiniteSet(There) /\ scanned \in Nat /\ options.limit \in Nat
      /\ Visited \subseteq History
  BY ThereShape DEF Visited
<1>3. NothingHidden
  <2> SUFFICES ASSUME options.limit = 0
               PROVE  ToSet(emitted) = {m \in Visited : Selected(m) /\ ~OnBound(m)}
    BY <1>1 DEF NothingHidden
  <2>1. read = There
    <3>1. ~LimitReached
      BY DEF LimitReached
    <3> QED BY <3>1, <1>1
  <2>2. ToSet(emitted) = {m \in There : Selected(m)}
    BY <2>1, <1>1 DEF ToSet
  <2>3. ASSUME NEW m \in Visited, Selected(m), ~OnBound(m) PROVE m \in There
    BY <2>3, <1>1, <1>2, MatchesAreServed DEF Selected, OnBound, There
  <2>4. ASSUME NEW m \in There PROVE ~OnBound(m)
    <3>1. m.id \in Nat \ {0} /\ Serves(options, m.topic, m)
      BY <1>2, ThereShape DEF There
    <3>2. options.least["id"] \in Nat /\ options.most["id"] \in Nat
      BY <1>1 DEF SelectionAssumption, Bounds
    <3>3. /\ options.least["id"] = 0 \/ m.id > options.least["id"]
          /\ options.most["id"] = 0 \/ m.id < options.most["id"]
      BY <3>1 DEF Serves
    <3> QED BY <3>1, <3>2, <3>3 DEF OnBound
  <2> QED BY <2>2, <2>3, <2>4 DEF There
<1>4. LimitIsPerChat
  <2> SUFFICES ASSUME options.limit > 0
               PROVE  scanned = IF Cardinality(There) < options.limit THEN Cardinality(There)
                                ELSE options.limit
    BY DEF LimitIsPerChat, There
  <2>1. Cardinality(There) \in Nat /\ scanned <= Cardinality(There)
    BY <1>1, <1>2, FS_Subset, FS_CardinalityType
  <2>2. CASE LimitReached
    BY <2>1, <2>2, <1>1, <1>2 DEF LimitReached
  <2>3. CASE There \subseteq read
    <3>1. There = read
      BY <2>3, <1>1
    <3> QED BY <3>1, <2>1, <1>1, <1>2
  <2> QED BY <2>2, <2>3, <1>1
<1> QED BY <1>3, <1>4

\* What the server is asked for narrows the scan and never the selection, for any
\* history, senders, topics, options and page sizes.
THEOREM WalksHideNothing == ASSUME SelectionAssumption PROVE WalkSpec => []NothingHidden
<1>1. WalkInit => WalkInv
  BY WalkStart
<1>2. WalkInv /\ [WalkNext]_walkVars => WalkInv'
  BY WalkStepsKeep
<1>3. WalkInv => NothingHidden
  BY FinishedWalk DEF NothingHidden
<1> QED BY <1>1, <1>2, <1>3, PTL DEF WalkSpec

\* The topics of a forum share one budget: a finished walk under a limit has
\* scanned as many messages as the limit, or all there are.
THEOREM TopicsShareTheLimit == ASSUME SelectionAssumption PROVE WalkSpec => []LimitIsPerChat
<1>1. WalkInit => WalkInv
  BY WalkStart
<1>2. WalkInv /\ [WalkNext]_walkVars => WalkInv'
  BY WalkStepsKeep
<1>3. WalkInv => LimitIsPerChat
  BY FinishedWalk DEF LimitIsPerChat
<1> QED BY <1>1, <1>2, <1>3, PTL DEF WalkSpec
=============================================================================
