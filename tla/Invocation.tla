------------------------------ MODULE Invocation ------------------------------
(* One dl, sync or scan invocation from its chat specs to its last session:     *)
(* which chats it walks, on whose account, and in export mode or not.            *)
(* Sources: scan/scope.go, scan/minage.go, cli/routing.go, the session wrapper of *)
(* cli/dl_cmd.go and cli/takeout_fallback.go.                                     *)
(* A spec is what the parsers of scope.go make of it: [form, key]. Of the list of *)
(* targets the module keeps how often each chat is on it, not in which order.     *)
EXTENDS Integers, Sequences, FiniteSets, SequencesExt

CONSTANTS
    World,        \* the chats: their peers, flags and contents
    Dialogs,      \* per account the dialogs it sees, in listing order
    Default,      \* the configured account
    Premium,      \* the local premium account, or NoAccount
    NoAccount,
    RouteTables,  \* possible [accounts] routing tables, sorted by spec
    SpecLists,    \* possible scopes
    AccountLists, \* possible --account values, <<>> when it is not given
    Scopes,       \* possible chat options
    MinChats      \* net.takeout_auto_min_chats

\* Of the constants; an instance states it as its assumption.
InvocationAssumption ==
    /\ Default \in DOMAIN Dialogs /\ NoAccount \notin DOMAIN Dialogs
    /\ Premium \in DOMAIN Dialogs \cup {NoAccount}
    /\ \A a \in DOMAIN Dialogs : ToSet(Dialogs[a]) \subseteq DOMAIN World
    /\ \E c \in DOMAIN World : World[c].peer = "self"
    \* savedTarget has neither an id nor a handle
    /\ \A c \in DOMAIN World : World[c].peer = "self" => World[c].id = "0" /\ World[c].handle = ""
    \* ids name one chat each, whatever the kind of the peer
    /\ \A c, d \in DOMAIN World : World[c].id = World[d].id => c = d
    \* so do handles, of the chats that have one
    /\ \A c, d \in DOMAIN World : World[c].handle = World[d].handle /\ c # d => World[c].handle = ""
    \* parseRouting: a chat that has a key of its own, and an account
    /\ \A t \in RouteTables :
          t \in Seq([spec : [form : {"id", "name"}, key : STRING \ {""}], account : DOMAIN Dialogs])
    /\ SpecLists \subseteq Seq([form : {"all", "saved", "id", "name"}, key : STRING])
    /\ AccountLists \subseteq Seq(DOMAIN Dialogs)

VARIABLES
    opts, specs, routes, flags,  \* what the invocation was given
    accounts,                    \* those whose turn is still to come
    pc, kind, account,           \* the session under way
    takeout,                     \* its export mode: "off", "auto" or "forced"
    left,                        \* its specs still to be resolved
    seen, targets,               \* the resolver's ids, and per chat how often it is a target
    routed, deferrals,           \* invocationExtras
    owed,                        \* sessions still to open
    walked,                      \* history of a turn: <<kind, account, chat>>, in order
    resolved,                    \* history: the chats of its first session
    why                          \* what failed

input == <<opts, specs, routes, flags>>
invocationVars == <<input, accounts, pc, kind, account, takeout, left, seen, targets, routed, deferrals, owed,
                    walked, resolved, why>>

Accounts == DOMAIN Dialogs
Chats == DOMAIN World
Spec_(form, key) == [form |-> form, key |-> key]
NoTargets == [c \in Chats |-> 0]
Targets == {c \in Chats : targets[c] > 0}
-----------------------------------------------------------------------------
(* Planning *)

\* accountList: --account takes one name, several or all; none means the configured one.
Pinned == flags.account # <<>>
AccountList == IF Pinned THEN flags.account ELSE <<Default>>

\* planInvocation: what is deferred to later sessions, nothing for a pinned account.
Extras == ~Pinned /\ (routes # <<>> \/ Premium # NoAccount)

InvocationInit ==
    /\ opts \in Scopes /\ specs \in SpecLists /\ routes \in RouteTables
    /\ flags \in [account : AccountLists, takeout : {"auto", "forced", "off"}]
    /\ accounts = AccountList
    /\ pc = "account" /\ kind = "main" /\ account = Default /\ takeout = "off"
    /\ left = <<>> /\ seen = {} /\ targets = NoTargets /\ routed = {} /\ deferrals = {}
    /\ owed = <<>> /\ walked = <<>> /\ resolved = {} /\ why = ""

Fail(reason) == pc' = "failed" /\ why' = reason

\* Each account in turn is given all the specs, whatever another has walked.
NextAccount ==
    /\ pc = "account"
    /\ account' = Head(accounts) /\ accounts' = Tail(accounts)
    /\ pc' = "decide" /\ kind' = "main" /\ left' = specs
    /\ seen' = {} /\ targets' = NoTargets /\ walked' = <<>> /\ resolved' = {}
    /\ UNCHANGED <<input, takeout, routed, deferrals, owed, why>>

-----------------------------------------------------------------------------
(* Export mode *)

\* estimateScopeSize: "all" stands for every dialog, another spec for one chat.
EstimateScopeSize ==
    IF \E i \in DOMAIN left : left[i].form = "all" THEN Len(Dialogs[account]) ELSE Len(left)

\* resolveTakeoutModeFor; a failed dialog count keeps export mode off.
DecideTakeout ==
    /\ pc = "decide"
    /\ \E probed \in BOOLEAN :
          takeout' = IF flags.takeout # "auto" THEN flags.takeout
                     ELSE IF probed /\ EstimateScopeSize >= MinChats THEN "auto" ELSE "off"
    /\ pc' = IF takeout' = "off" THEN "resolve" ELSE "init"
    /\ UNCHANGED <<input, accounts, kind, account, left, seen, targets, routed, deferrals, owed, walked,
                   resolved, why>>

TakeoutStarts ==
    /\ pc = "init" /\ pc' = "resolve"
    /\ UNCHANGED <<input, accounts, kind, account, takeout, left, seen, targets, routed, deferrals, owed,
                   walked, resolved, why>>

\* takeoutFallback, called with the negated mode: a session that was to run in
\* export mode counts as not engaged automatically.
Fallback(autoEngaged) == autoEngaged
TakeoutRefused ==
    /\ pc = "init"
    /\ IF Fallback(takeout = "off") THEN pc' = "resolve" /\ takeout' = "off" /\ UNCHANGED why
       ELSE Fail("takeout refused") /\ UNCHANGED takeout
    /\ UNCHANGED <<input, accounts, kind, account, left, seen, targets, routed, deferrals, owed, walked,
                   resolved>>

-----------------------------------------------------------------------------
(* Scope resolution *)

\* savedTarget has no id.
Saved == CHOOSE c \in Chats : World[c].peer = "self"
ChatID(c) == World[c].id

\* classifyDialogChannel and the peers of MapDialogChat.
TypeOf(c) ==
    CASE World[c].peer = "user" -> IF "bot" \in World[c].is THEN "bot" ELSE "private"
      [] World[c].peer = "chat" -> "group"
      [] World[c].peer = "channel" ->
            IF "forum" \in World[c].is THEN "forum"
            ELSE IF World[c].is \cap {"megagroup", "gigagroup"} # {} THEN "supergroup" ELSE "channel"

\* chatPrefilter.allows; an empty list or pattern allows every chat.
Allowed(values, v) == values = {} \/ v \in values
Allows(c) ==
    /\ Allowed(opts.chatType, TypeOf(c)) /\ TypeOf(c) \notin opts.excludeChatType
    /\ ("deleted" \in World[c].is) \in opts.chatDeleted
    /\ ("archived" \in World[c].is) \in opts.archived
    /\ Allowed(opts.chatGlob, World[c].title) /\ Allowed(opts.chatRegex, World[c].title)
    /\ Allowed(opts.chatUsername, World[c].handle)
    /\ opts.contactsOnly => TypeOf(c) = "private" /\ "contact" \in World[c].is

\* What a dialog listing yields: dialogs without their entity are passed over.
Listed == {c \in ToSet(Dialogs[account]) : "unknown" \notin World[c].is}
ByID(id) == {c \in Listed : World[c].id = id}
ByHandle(name) == {c \in Chats : World[c].handle = name}

\* dedupe: a chat whose id the resolver has met is no target again.
Unmet(chats) == {c \in chats : ChatID(c) \notin seen}
Adds(chats) ==
    /\ targets' = [c \in Chats |-> IF c \in Unmet(chats) THEN targets[c] + 1 ELSE targets[c]]
    /\ seen' = seen \cup {ChatID(c) : c \in chats}
    /\ left' = Tail(left) /\ UNCHANGED <<pc, why>>
Unknown == Fail("unknown chat") /\ UNCHANGED <<targets, seen, left>>
AddsKnown(chats) == IF chats = {} THEN Unknown ELSE Adds(chats)

ResolveSpec ==
    /\ pc = "resolve" /\ left # <<>> /\ ~opts.savedOnly
    /\ LET s == Head(left) IN
          \/ s.form = "all" /\ Adds({c \in Listed : Allows(c)})
          \/ s.form = "saved" /\ Adds({Saved})
          \/ s.form = "id" /\ AddsKnown(ByID(s.key))
          \/ s.form = "name" /\ AddsKnown(ByHandle(s.key))
    /\ UNCHANGED <<input, accounts, kind, account, takeout, routed, deferrals, owed, walked, resolved>>

\* --saved replaces the whole scope.
ResolveSaved ==
    /\ pc = "resolve" /\ opts.savedOnly /\ left # <<>>
    /\ targets' = [NoTargets EXCEPT ![Saved] = 1] /\ left' = <<>>
    /\ UNCHANGED <<input, accounts, pc, kind, account, takeout, seen, routed, deferrals, owed, walked,
                   resolved, why>>

\* A listing, a resolution, a probe, the walk or the download fails: neither
\* this session nor the invocation goes on.
SessionFails ==
    /\ pc \in {"resolve", "split", "age", "walk"}
    /\ Fail("session")
    /\ UNCHANGED <<input, accounts, kind, account, takeout, left, seen, targets, routed, deferrals, owed,
                   walked, resolved>>

-----------------------------------------------------------------------------
(* Routing *)

\* PeerRef.Matches: the id when the key has one, else the handle.
RouteMatches(route, c) ==
    IF route.spec.form = "id" /\ route.spec.key # "0" THEN World[c].id = route.spec.key
    ELSE World[c].handle = route.spec.key /\ route.spec.form = "name"
RoutesOf(c) == {i \in DOMAIN routes : RouteMatches(routes[i], c)}
Routed(c) == kind = "main" /\ ~Pinned /\ RoutesOf(c) # {}
FirstRoute(c) == routes[CHOOSE i \in RoutesOf(c) : \A j \in RoutesOf(c) : i <= j]

\* Mutant: a routed chat stays in the default pass as well.
SplitRoutedKeeping ==
    /\ pc = "resolve" /\ left = <<>>
    /\ routed' = routed \cup {FirstRoute(c) : c \in {t \in Targets : Routed(t)}}
    /\ resolved' = IF kind = "main" THEN Targets ELSE resolved
    /\ pc' = "age"
    /\ UNCHANGED <<input, accounts, kind, account, takeout, left, seen, targets, deferrals, owed, walked, why>>

Keep(Test(_)) == targets' = [c \in Chats |-> IF Test(c) THEN targets[c] ELSE 0]

\* splitRoutedTargets: the first matching key takes the chat away.
SplitRouted ==
    /\ pc = "resolve" /\ left = <<>>
    /\ Keep(LAMBDA c : ~Routed(c))
    /\ routed' = routed \cup {FirstRoute(c) : c \in {t \in Targets : Routed(t)}}
    /\ resolved' = IF kind = "main" THEN Targets ELSE resolved
    /\ pc' = "age"
    /\ UNCHANGED <<input, accounts, kind, account, takeout, left, seen, deferrals, owed, walked, why>>

\* FilterByMinAge: chats without a message older than the cutoff are dropped.
OldEnough(c) == opts.minAge => "old" \in World[c].is
FilterByMinAge ==
    /\ pc = "age"
    /\ Keep(OldEnough)
    /\ pc' = "walk"
    /\ UNCHANGED <<input, accounts, kind, account, takeout, left, seen, routed, deferrals, owed, walked,
                   resolved, why>>

Walk ==
    /\ pc = "walk"
    /\ \E c \in Targets :
          /\ walked' = Append(walked, <<kind, account, c>>)
          /\ targets' = [targets EXCEPT ![c] = @ - 1]
    /\ UNCHANGED <<input, accounts, pc, kind, account, takeout, left, seen, routed, deferrals, owed,
                   resolved, why>>

\* partitionPremiumDeferred: files above this session's cap and within the
\* premium one; a premium account's own session has none.
Defers(c) == Extras /\ kind # "premium" /\ Premium \notin {NoAccount, account}
             /\ "big" \in World[c].is
OfSession(w) == w[1] = kind /\ w[2] = account
Deferred == {ChatID(w[3]) : w \in {x \in ToSet(walked) : OfSession(x) /\ Defers(x[3])}}

\* runDeferredSessions: the routed accounts by name, then the premium account.
RoutedTo(a) == {r.spec : r \in {x \in routed : x.account = a}}
Session(k, a, scope) == [kind |-> k, account |-> a, specs |-> SetToSeq(scope)]
RoutingPasses ==
    LET names == SetToSeq({r.account : r \in routed})
    IN [i \in DOMAIN names |-> Session("routing", names[i], RoutedTo(names[i]))]
PremiumPass(ids) ==
    IF ids = {} \/ Premium = NoAccount THEN <<>>
    ELSE <<Session("premium", Premium, {Spec_("id", id) : id \in ids})>>

Open(sessions) ==
    IF sessions = <<>> THEN pc' = "done" /\ UNCHANGED <<kind, account, left, owed>>
    ELSE /\ pc' = "decide" /\ owed' = Tail(sessions)
         /\ kind' = Head(sessions).kind /\ account' = Head(sessions).account
         /\ left' = Head(sessions).specs

\* The session is over; the premium pass is planned after the last routed one.
EndSession ==
    /\ pc = "walk" /\ Targets = {}
    /\ deferrals' = deferrals \cup Deferred
    /\ LET next == IF kind = "main" /\ Extras THEN RoutingPasses ELSE owed IN
          IF accounts # <<>> THEN pc' = "account" /\ UNCHANGED <<kind, account, left, owed>>
          ELSE Open(IF next = <<>> /\ kind # "premium" THEN PremiumPass(deferrals') ELSE next)
    /\ seen' = {}
    /\ UNCHANGED <<input, accounts, takeout, targets, routed, walked, resolved, why>>

InvocationNext ==
    \/ NextAccount \/ DecideTakeout \/ TakeoutStarts \/ TakeoutRefused
    \/ ResolveSpec \/ ResolveSaved \/ SplitRouted \/ FilterByMinAge \/ Walk \/ EndSession
    \/ SessionFails

InvocationSpec == InvocationInit /\ [][InvocationNext]_invocationVars
-----------------------------------------------------------------------------
(* Properties *)

PremiumWalks == {i \in DOMAIN walked : walked[i][1] = "premium"}
OtherWalks == DOMAIN walked \ PremiumWalks
Of(walks, id) == {i \in walks : ChatID(walked[i][3]) = id}
TimesWalked(c) == Cardinality(Of(OtherWalks, ChatID(c)))

\* README.md:95, "overlapping specs never walk twice", and README.md:368, a routed
\* chat is "excluded from the default account's pass and processed by a second
\* client session": in the turn of an account no chat of its scope is walked twice,
\* by its own session or those of the accounts routed to, and a turn that ends well
\* has walked each that passes --chat-min-age.  A second walk, in full, is the
\* premium account's: once per chat, of exactly those a session before it walked and
\* deferred files of.  Across turns chats are walked again.  Chats are told apart by
\* their ids: the saved messages and the account's own dialog are one chat with two,
\* so "all saved" does walk it twice, against README.md:95.
WalkedOncePerTurn ==
    /\ \A c \in resolved : TimesWalked(c) <= 1
    /\ pc \in {"account", "done"} => \A c \in resolved : OldEnough(c) => TimesWalked(c) = 1
    /\ \A i \in PremiumWalks :
          /\ ChatID(walked[i][3]) \in deferrals
          /\ \E j \in Of(OtherWalks, ChatID(walked[i][3])) : j < i
          /\ \A j \in PremiumWalks : walked[i][3] = walked[j][3] => i = j
    /\ pc = "done" => \A id \in deferrals : Of(PremiumWalks, id) # {}

\* dl_cmd.go:247 promises a "fail-soft fallback to the plain API when an
\* AUTO-engaged takeout session cannot start": no invocation ends because the
\* server refused an export session that nobody had asked for.
AutoTakeoutFallsBack == ~(why = "takeout refused" /\ takeout = "auto")
=============================================================================
