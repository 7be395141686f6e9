---------------------------- MODULE MC_Components ----------------------------
(* TLC instance of four components on the way of a file: which messages of a     *)
(* chat are selected (Selection), which chats an invocation takes on whose        *)
(* account (Invocation), the carrier under an HTTPS session (HttpsCarrier), and   *)
(* the bytes of a file (Transfer). They share no state: a behaviour of the        *)
(* instance is one of a single component, "at", and the state spaces add up.      *)
EXTENDS Transfer, HttpsCarrier, Invocation, Selection

VARIABLE at

ASSUME SelectionInstance == SelectionAssumption
ASSUME InvocationInstance == InvocationAssumption
ASSUME CarrierInstance == CarrierAssumption
ASSUME TransferInstance == TransferAssumption

NoInvocation ==
    /\ opts = {} /\ specs = <<>> /\ routes = <<>> /\ flags = {} /\ accounts = <<>> /\ pc = "idle" /\ kind = ""
    /\ account = "" /\ takeout = "" /\ left = <<>> /\ seen = {} /\ targets = <<>>
    /\ routed = {} /\ deferrals = {} /\ owed = <<>> /\ walked = <<>> /\ resolved = {}
    /\ why = ""
NoWalk ==
    /\ options = Unset /\ step = "idle" /\ todo = {} /\ topic = 0 /\ offset = 0 /\ page = {}
    /\ tries = 0 /\ scanned = 0 /\ known = {} /\ missed = {} /\ buffer = <<>> /\ emitted = <<>>
    /\ unknown = {} /\ read = {}

NoCarrier ==
    /\ phase = "idle" /\ sent = 0 /\ seq = 1 /\ upFailures = 0 /\ upState = "idle" /\ taken = <<>>
    /\ produced = 0 /\ blank = {} /\ laneEnded = FALSE /\ cursor = 0 /\ downFailures = 0 /\ poller = "off"
    /\ inbox = <<>> /\ terminal = FALSE /\ closed = FALSE /\ reader = "idle" /\ received = <<>>
NoTransfer ==
    /\ entries = <<>> /\ order = <<>> /\ stage = [i \in Items |-> "idle"]
    /\ part = [i \in Items |-> <<>>]
    /\ version = <<>> /\ location = <<>> /\ near = <<>> /\ path = <<>> /\ ref = <<>> /\ there = <<>>
    /\ pos = <<>> /\ retries = <<>> /\ attempt = <<>> /\ context = <<>> /\ restarts = 0

MCInit ==
    \/ at = "selection" /\ WalkInit /\ NoInvocation /\ NoCarrier /\ NoTransfer
    \/ at = "invocation" /\ NoWalk /\ InvocationInit /\ NoCarrier /\ NoTransfer
    \/ at = "carrier" /\ NoWalk /\ NoInvocation /\ CarrierInit /\ NoTransfer
    \/ at = "transfer" /\ NoWalk /\ NoInvocation /\ NoCarrier /\ Init
MCNext ==
    \/ at = "selection" /\ WalkNext /\ UNCHANGED <<at, invocationVars, carrierVars, vars>>
    \/ at = "invocation" /\ InvocationNext /\ UNCHANGED <<at, walkVars, carrierVars, vars>>
    \/ at = "carrier" /\ CarrierNext /\ UNCHANGED <<at, walkVars, invocationVars, vars>>
    \/ at = "transfer" /\ Next /\ UNCHANGED <<at, walkVars, invocationVars, carrierVars>>
MCSpec == MCInit /\ [][MCNext]_<<at, walkVars, invocationVars, carrierVars, vars>>

-----------------------------------------------------------------------------
(* A forum with two live topics and a deleted one *)

Plain == [id |-> 0, date |-> 5, service |-> FALSE, flags |-> {}, reply |-> "none", from |-> "7",
          seeded |-> TRUE, topic |-> 1, text |-> "", entities |-> {},
          media |-> [type |-> "none", attrs |-> {}, gone |-> FALSE, spoiler |-> FALSE,
                     mime |-> "", name |-> "", ext |-> "", measure |-> [n \in Bounds |-> 0]],
          fwd |-> [present |-> FALSE, from |-> "0", name |-> "", date |-> 0],
          reactions |-> {}, views |-> 0, forwards |-> 0]
Entity(k, t, d) == [kind |-> k, text |-> t, data |-> d]
Photo == [Plain.media EXCEPT !.type = "photo", !.spoiler = TRUE,
                             !.measure = [n \in Bounds |-> 2]]
Document(attrs) ==
    [Plain.media EXCEPT !.type = "document", !.attrs = attrs, !.mime = "m", !.name = "n",
                        !.ext = "x", !.measure = [n \in Bounds |-> 3]]

MCHistory == {
    [Plain EXCEPT !.id = 2, !.date = 1, !.text = "hi", !.flags = {"out", "edited"},
        !.entities = {Entity("hashtag", "#a", ""), Entity("mention", "@bob", "")}],
    [Plain EXCEPT !.id = 3, !.date = 2, !.from = "8", !.seeded = FALSE, !.topic = 2,
        !.media = Photo, !.text = "hi", !.flags = {"pinned", "album"}],
    [Plain EXCEPT !.id = 4, !.date = 3, !.service = TRUE, !.reply = "message",
        !.flags = {"silent", "pinned"}],
    [Plain EXCEPT !.id = 5, !.date = 4, !.from = "0", !.topic = 2,
        !.media = Document({"video", "streamable"}),
        !.fwd = [present |-> TRUE, from |-> "0", name |-> "anon", date |-> 2]],
    [Plain EXCEPT !.id = 6, !.from = "8", !.topic = 2, !.media = Document({"sticker", "video"}),
        !.reply = "story", !.reactions = {"up", "down"}, !.views = 3, !.forwards = 2],
    [Plain EXCEPT !.id = 7, !.media = [Plain.media EXCEPT !.type = "webpage"], !.text = "url",
        !.entities = {Entity("url", "url", "url"), Entity("text_link", "t", "link")},
        !.fwd = [present |-> TRUE, from |-> "7", name |-> "", date |-> 3]],
    [Plain EXCEPT !.id = 8, !.topic = 3, !.media = Document({"animated", "video"}),
        !.text = "emoji"],
    [Plain EXCEPT !.id = 9, !.from = "6", !.seeded = FALSE, !.media = Document({"audio", "voice"}),
        !.text = "hi", !.flags = {"mentioned"},
        !.entities = {Entity("bot_command", "/go", ""), Entity("email", "e", "")}],
    [Plain EXCEPT !.id = 10, !.text = "emoji"]
  }

MCChat == [type |-> "forum", title |-> "Chat", username |-> "chat", is |-> {"protected"}]
Person(id, name, is) ==
    [present |-> TRUE, id |-> id, name |-> name, username |-> name, phone |-> "", is |-> is]
MCPeople == [id \in {"6", "7", "8"} |->
    CASE id = "6" -> Person(id, "ann", {"bot", "verified"})
      [] id = "7" -> Person(id, "bob", {"contact", "mutual", "premium"})
      [] id = "8" -> Person(id, "", {"deleted"})]
MCTopics == {[id |-> 1, deleted |-> FALSE], [id |-> 2, deleted |-> FALSE],
              [id |-> 3, deleted |-> TRUE]}

Values == [n \in Lists |->
    CASE n = "media" -> {{"photo"}, {"photo", "video"}, {"webpage"}, {"gif"}, {"sticker", "voice"}}
      [] n = "chat_type" -> {{"forum"}, {"bot"}}
      [] n = "sticker_kind" -> {{"video"}}
      [] n = "from_users" -> {{"7"}, {"ann", "8"}}
      [] n \in {"sender_name", "sender_username"} -> {{"bob"}}
      [] n \in {"chat_glob", "chat_regex"} -> {{"Chat"}}
      [] n = "chat_username" -> {{"chat"}} [] n = "sender_phone" -> {{"1"}}
      [] n = "mime" -> {{"m"}} [] n = "ext" -> {{"x"}}
      [] n \in {"name_glob", "name_regex"} -> {{"n"}}
      [] n = "text_regex" -> {{"hi"}} [] n = "hashtag" -> {{"*"}, {"#a"}}
      [] n = "mention" -> {{"@bob"}} [] n = "url_regex" -> {{"link"}} [] n = "command" -> {{"/go"}}
      [] n = "fwd_from" -> {{"7"}} [] n = "reaction" -> {{"up"}}]
Excludable == {"chat_type", "from_users", "media", "mime", "ext"}
Switches == {"saved", "skip_protected", "contacts", "mutual", "non_contacts", "non_mutual",
             "any_hashtag", "has_email", "has_phone", "emoji_only"}

\* One option at a time, and an invalid value.
Single ==
    {Unset}
    \cup {[Unset EXCEPT !.tri[n] = {b}] : n \in TriOptions, b \in BOOLEAN}
    \cup UNION {{[Unset EXCEPT !.any[n] = v] : v \in Values[n]} : n \in Lists}
    \cup UNION {{[Unset EXCEPT !.none[n] = v] : v \in Values[n]} : n \in Excludable}
    \cup {[Unset EXCEPT !.least[n] = 2] : n \in Bounds}
    \cup {[Unset EXCEPT !.most[n] = 4] : n \in Bounds \ {"views", "forwards", "reactions"}}
    \cup {[Unset EXCEPT !.only = {s}] : s \in Switches}
    \cup {[Unset EXCEPT !.hasText = v] : v \in {"any", "only", "none", "maybe"}}
    \cup {[Unset EXCEPT !.inAlbum = v] : v \in {"any", "only", "first"}}
    \cup {[Unset EXCEPT !.any["media"] = {"photo"}, !.least["date"] = 2],
          [Unset EXCEPT !.any["media"] = {"photo", "sticker"}, !.any["text_regex"] = {"hi"}]}
MCSettings ==
    {[o EXCEPT !.reverse = r, !.topics = t] : o \in Single, r \in BOOLEAN, t \in BOOLEAN}
    \cup {[Unset EXCEPT !.limit = n, !.topics = t, !.reverse = r] :
             n \in 1..4, t \in BOOLEAN, r \in BOOLEAN}

(* Four chats, the saved messages, the account's own dialog and one without its chat *)

Chat(peer, id, handle, is) ==
    [peer |-> peer, id |-> id, handle |-> handle, title |-> handle, is |-> is]
MCWorld == [c \in {"alpha", "beta", "gamma", "delta", "ghost", "me", "saved"} |->
    CASE c = "alpha" -> Chat("channel", "1", c, {"old", "big", "megagroup"})
      [] c = "beta" -> Chat("user", "2", c, {"bot"})
      [] c = "gamma" -> Chat("chat", "3", "", {"archived", "old"})
      [] c = "delta" -> Chat("channel", "4", c, {"forum", "big"})
      [] c = "ghost" -> Chat("user", "5", "", {"unknown"})
      [] c = "me" -> Chat("user", "9", c, {"old"})
      [] c = "saved" -> Chat("self", "0", "", {"old", "big"})]
MCDialogs == [a \in {"main", "spare", "prem"} |->
    CASE a = "main" -> <<"alpha", "beta", "ghost", "gamma", "me">>
      [] a = "spare" -> <<"gamma", "delta">>
      [] a = "prem" -> <<"alpha", "delta">>]

Key(f, k) == [form |-> f, key |-> k]
Route(s, a) == [spec |-> s, account |-> a]
MCRouteTables ==
    {<<>>, <<Route(Key("name", "delta"), "spare")>>,
     <<Route(Key("id", "1"), "prem"), Route(Key("name", "alpha"), "spare")>>,
     <<Route(Key("name", "beta"), "prem"), Route(Key("id", "3"), "spare")>>}
MCSpecLists ==
    {<<Key("all", "")>>, <<Key("id", "1"), Key("name", "alpha"), Key("name", "delta")>>,
     <<Key("name", "delta"), Key("saved", ""), Key("all", "")>>, <<Key("id", "5")>>}
MCAccountLists == {<<>>, <<"spare", "main", "spare">>}
Anything == [chatType |-> {}, excludeChatType |-> {}, chatDeleted |-> BOOLEAN,
             archived |-> BOOLEAN, chatGlob |-> {}, chatRegex |-> {}, chatUsername |-> {},
             contactsOnly |-> FALSE, savedOnly |-> FALSE, minAge |-> FALSE]
MCScopes ==
    {Anything, [Anything EXCEPT !.minAge = TRUE], [Anything EXCEPT !.savedOnly = TRUE],
     [Anything EXCEPT !.archived = {FALSE}, !.excludeChatType = {"bot"}],
     [Anything EXCEPT !.contactsOnly = TRUE], [Anything EXCEPT !.chatType = {"group"}]}

(* Two files: one of known size that ends between two alignments, one of unknown *)

MCSizeOf == [i \in Items |-> IF i = "a" THEN 5 ELSE 4]
MCTotalOf == [i \in Items |-> IF i = "a" THEN 5 ELSE 0]
=============================================================================
