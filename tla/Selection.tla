------------------------------ MODULE Selection ------------------------------
(* Which messages of a chat a run selects: the filter options and their        *)
(* predicates (internal/filters), the projection of a message they read        *)
(* (scan/map.go, scan/sender.go), and the walk that asks the server for what    *)
(* the predicates may accept (scan/walk.go, scan/retry.go).                     *)
EXTENDS FilterOptions, Sequences, FiniteSets, SequencesExt

CONSTANTS
    History,     \* the raw messages of the chat
    TheChat,     \* the chat they are in
    People,      \* the senders of the account's world, by id
    Topics,      \* the forum's topics, [id, deleted], listed in the order of their ids
    Settings,    \* the options a run may be given
    PageSize,    \* walkBatchSize
    TopicsPage,  \* topicsPageSize
    RetryMax     \* walkRetryMax

\* The constructors of a medium; "other" stands for those mapMedia does not name.
MediaTypes ==
    {"none", "empty", "photo", "document", "geo", "geo_live", "venue", "contact", "poll", "dice",
     "game", "invoice", "story", "paid", "webpage", "other"}

\* Of the constants; an instance states it as its assumption.
SelectionAssumption ==
    /\ PageSize \in Nat \ {0} /\ TopicsPage \in Nat \ {0} /\ RetryMax \in Nat
    /\ IsFiniteSet(History) /\ IsFiniteSet(Topics)
    \* an id names one message of the chat, one topic of the forum
    /\ \A m \in History : m.id \in Nat \ {0} /\ m.media.type \in MediaTypes
    /\ \A m, n \in History : m.id = n.id => m = n
    /\ \A x \in Topics : x.id \in Nat \ {0}
    /\ \A x, y \in Topics : x.id = y.id => x = y
    /\ \A o \in Settings :
          /\ o.any \in [Lists -> SUBSET STRING] /\ o.limit \in Nat
          /\ o.least \in [Bounds -> Nat] /\ o.most \in [Bounds -> Nat]

VARIABLES
    options,                       \* filters.Options
    todo, topic,                \* the feeds left to run, the topic of this one
    offset,                     \* the iterator's offset id, 0 at the start
    page,                       \* the messages of the fetched page still to be scanned
    tries,                      \* attempts at the next page
    scanned,                    \* walkState.scanned
    read,                       \* history: the messages scanned
    known, missed,              \* SenderCache: resolved ids, negative entries
    buffer, emitted,            \* matchEmitter.buffer, what emit received
    unknown,                    \* history: messages matched without their sender
    step

senderVars == <<known, missed, unknown>>
feedVars == <<todo, topic, offset, page, tries>>
walkVars == <<options, feedVars, scanned, read, senderVars, buffer, emitted, step>>
-----------------------------------------------------------------------------
(* The projection of a message *)

NoFile == [present |-> FALSE, kind |-> "", stickerKind |-> "", mime |-> "", ext |-> "",
           name |-> "", is |-> {}, measure |-> [n \in Bounds |-> 0]]
File(kind) == [NoFile EXCEPT !.present = TRUE, !.kind = kind]

\* The attribute that decides what a document is, in the code's order.
DocumentKind(attrs) ==
    CASE "sticker" \in attrs -> "sticker"
      [] "sticker" \notin attrs /\ "audio" \in attrs ->
            IF "voice" \in attrs THEN "voice" ELSE "audio"
      [] attrs \cap {"sticker", "audio"} = {} /\ "animated" \in attrs -> "gif"
      [] attrs \cap {"sticker", "audio", "animated"} = {} /\ "video" \in attrs ->
            IF "round" \in attrs THEN "video-note" ELSE "video"
      [] OTHER -> "document"

StickerKind(attrs) ==
    IF "animated" \in attrs THEN "animated" ELSE IF "video" \in attrs THEN "video" ELSE "static"

\* Sizes come with every document; the measures and flags of a video only when
\* nothing above it in DocumentKind's order hides its attribute.
MapDocument(media) ==
    LET kind == DocumentKind(media.attrs)
        film == kind \in {"video", "video-note"}
        measured == {"size"} \cup (IF film \/ kind \in {"voice", "audio"} THEN {"duration"} ELSE {})
                    \cup (IF film \/ "image" \in media.attrs THEN {"width", "height", "mp"} ELSE {})
    IN [File(kind) EXCEPT
           !.stickerKind = IF kind = "sticker" THEN StickerKind(media.attrs) ELSE "",
           !.mime = media.mime, !.name = media.name, !.ext = media.ext,
           !.is = IF film THEN media.attrs \cap {"streamable", "no_sound"} ELSE {},
           !.measure = [n \in Bounds |-> IF n \in measured THEN media.measure[n] ELSE 0]]

\* photoDimensions: the largest variant.
MapPhoto(media) ==
    [File("photo") EXCEPT !.mime = "image/jpeg", !.measure = media.measure]

MapMedia(media) ==
    CASE media.type \in {"none", "empty"} -> NoFile
      [] media.type = "photo" -> MapPhoto(media)
      [] media.type = "document" -> IF media.gone THEN NoFile ELSE MapDocument(media)
      [] media.type \in {"geo", "geo_live", "venue"} -> File("geo")
      [] media.type \in (MediaTypes \cap MediaKinds) \ {"photo", "document", "geo"} ->
            File(media.type)
      [] OTHER -> File("unsupported")

\* A plain URL carries no data of its own, only a text link does.
EntityData(e) == IF e.kind = "text_link" THEN e.data ELSE ""
MapEntities(m) == {[kind |-> e.kind, text |-> e.text, data |-> EntityData(e)] : e \in m.entities}

Absent == [present |-> FALSE, id |-> "0", name |-> "", username |-> "", phone |-> "", is |-> {}]

\* A service message keeps the few flags it has; a reply to a story is none.
MapService(m) == m.flags \cap {"out", "silent", "mentioned"}

\* Everything about the message that is a yes or a no.
Facts(m) ==
    LET reply == IF m.reply = "message" THEN {"reply"} ELSE {} IN
    IF m.service THEN MapService(m) \cup reply \cup {"service"}
    ELSE m.flags \cup reply
         \cup (IF m.fwd.present THEN {"forwarded"} ELSE {})
         \cup (IF m.fwd.present /\ m.fwd.name # "" /\ m.fwd.from = "0" THEN {"fwd_hidden"} ELSE {})
         \cup (IF m.media.type \in {"photo", "document"} /\ m.media.spoiler
               THEN {"spoiler"} ELSE {})

MapMessage(m, sender) ==
    [chat |-> TheChat, sender |-> sender, facts |-> Facts(m), file |-> MapMedia(m.media),
     text |-> m.text, caption |-> m.media.type \notin {"none", "empty"},
     entities |-> MapEntities(m), fwd |-> m.fwd, reactions |-> m.reactions,
     measure |-> [id |-> m.id, date |-> m.date, views |-> m.views, forwards |-> m.forwards]]

-----------------------------------------------------------------------------
(* The predicates: one conjunct per option *)

Wants(o, n, fact) == fact \in o.tri[n]
Among(o, n, values) == o.any[n] = {} \/ o.any[n] \cap values # {}
Without(o, n, values) == o.none[n] \cap values = {}
Within(o, n, value) ==
    (o.least[n] = 0 \/ value >= o.least[n]) /\ (o.most[n] = 0 \/ value <= o.most[n])
AtLeast(o, n, value) == o.least[n] = 0 \/ value >= o.least[n]

\* "bot" names bot chats and messages sent by bots alike.
TypesOf(x) == {x.chat.type} \cup (IF "bot" \in x.sender.is THEN {"bot"} ELSE {})

ChatPredicates(o, x) ==
    /\ Among(o, "chat_type", TypesOf(x)) /\ Without(o, "chat_type", TypesOf(x))
    /\ Wants(o, "chat_deleted", "deleted" \in x.chat.is)
    /\ Wants(o, "archived", "archived" \in x.chat.is)
    /\ Among(o, "chat_glob", {x.chat.title}) /\ Among(o, "chat_regex", {x.chat.title})
    /\ Among(o, "chat_username", {x.chat.username})
    /\ "saved" \in o.only => "saved" \in x.chat.is
    /\ "skip_protected" \in o.only => "protected" \notin x.chat.is

\* matchIDHandleOrPhone: an entry is an id, a handle or a phone number.
Names(sender) == {sender.id} \cup ({sender.username, sender.phone} \ {""})

SenderPredicates(o, x) ==
    LET s == x.sender IN
    /\ "contacts" \in o.only => "contact" \in s.is
    /\ "mutual" \in o.only => "mutual" \in s.is
    /\ "non_contacts" \in o.only => s.present /\ "contact" \notin s.is
    /\ "non_mutual" \in o.only => s.present /\ "mutual" \notin s.is
    /\ Wants(o, "from_me", "out" \in x.facts)
    /\ Among(o, "from_users", Names(s)) /\ Without(o, "from_users", Names(s))
    /\ Wants(o, "sender_bot", "bot" \in s.is) /\ Wants(o, "sender_premium", "premium" \in s.is)
    /\ Wants(o, "sender_verified", "verified" \in s.is)
    /\ Wants(o, "sender_scam", "scam" \in s.is) /\ Wants(o, "sender_deleted", "deleted" \in s.is)
    /\ Among(o, "sender_name", {s.name}) /\ Among(o, "sender_username", {s.username})
    /\ Among(o, "sender_phone", {s.phone})

\* fileOf: what a message without a file has of it.
OfFile(x, value) == IF x.file.present THEN {value} ELSE {}

MediaPredicates(o, x) ==
    /\ Among(o, "media", OfFile(x, x.file.kind)) /\ Without(o, "media", OfFile(x, x.file.kind))
    /\ Among(o, "sticker_kind", IF x.file.kind = "sticker" THEN {x.file.stickerKind} ELSE {})
    /\ Wants(o, "has_media", x.file.present)
    /\ o.inAlbum = "only" => "album" \in x.facts

FileMatchPredicates(o, x) ==
    /\ Among(o, "mime", OfFile(x, x.file.mime)) /\ Without(o, "mime", OfFile(x, x.file.mime))
    /\ Among(o, "ext", OfFile(x, x.file.ext)) /\ Without(o, "ext", OfFile(x, x.file.ext))
    /\ Among(o, "name_glob", OfFile(x, x.file.name))
    /\ Among(o, "name_regex", OfFile(x, x.file.name))

FileBounds == {"size", "duration", "width", "height", "mp"}
\* Every bound requires a file.
FileBoundPredicates(o, x) ==
    /\ \A n \in FileBounds :
          /\ Within(o, n, x.file.measure[n])
          /\ (o.least[n] # 0 \/ o.most[n] # 0) => x.file.present
    /\ \A n \in {"streamable", "no_sound"} :
          o.tri[n] # BOOLEAN => x.file.present /\ Wants(o, n, n \in x.file.is)

HasEntity(x, kinds) == \E e \in x.entities : e.kind \in kinds
EntityTexts(x, kinds) == {e.text : e \in {f \in x.entities : f.kind \in kinds}}
Mentions(x) ==
    EntityTexts(x, {"mention", "text_mention"})
    \cup (IF HasEntity(x, {"mention", "text_mention"}) THEN {"*"} ELSE {})

\* Every listed hashtag has to be there.
HashtagsMatch(o, x) ==
    \A tag \in o.any["hashtag"] :
        IF tag = "*" THEN HasEntity(x, {"hashtag"}) ELSE tag \in EntityTexts(x, {"hashtag"})

HasURLValue(x) == HasEntity(x, {"url", "text_link"}) \/ x.file.kind = "webpage"
URLs(x) == {e.data : e \in {f \in x.entities : f.kind \in {"url", "text_link"}}}

HasTextMatches(o, x) ==
    CASE o.hasText = "any" -> x.text # ""
      [] o.hasText = "none" -> x.text = ""
      [] o.hasText = "only" -> x.text # "" /\ ~x.file.present
      [] OTHER -> TRUE

\* Only a text without a caption's medium can be "emoji only".
TextPredicates(o, x) ==
    /\ Among(o, "text_regex", {x.text})
    /\ HasTextMatches(o, x) /\ HashtagsMatch(o, x)
    /\ "any_hashtag" \in o.only => HasEntity(x, {"hashtag"})
    /\ Among(o, "mention", Mentions(x))
    /\ Wants(o, "was_mentioned", "mentioned" \in x.facts)
    /\ Wants(o, "has_url", HasURLValue(x)) /\ Among(o, "url_regex", URLs(x))
    /\ "has_email" \in o.only => HasEntity(x, {"email"})
    /\ "has_phone" \in o.only => HasEntity(x, {"phone"})
    /\ Among(o, "command", EntityTexts(x, {"bot_command"}))
    /\ "emoji_only" \in o.only => x.text = "emoji" /\ ~x.caption

DatePredicates(o, x) ==
    Within(o, "date", x.measure.date) /\ Wants(o, "edited", "edited" \in x.facts)

\* Where a forward comes from: mapForward fills in the id, never a handle.
Origin(x) == IF x.fwd.present THEN {x.fwd.from} ELSE {}

ForwardPredicates(o, x) ==
    /\ Wants(o, "forwarded", "forwarded" \in x.facts)
    /\ Wants(o, "fwd_hidden", "fwd_hidden" \in x.facts)
    /\ Among(o, "fwd_from", Origin(x))
    /\ (o.least["fwd_date"] # 0 \/ o.most["fwd_date"] # 0) =>
          x.fwd.present /\ Within(o, "fwd_date", x.fwd.date)

EngagementPredicates(o, x) ==
    /\ Wants(o, "is_reply", "reply" \in x.facts) /\ Wants(o, "pinned", "pinned" \in x.facts)
    /\ AtLeast(o, "views", x.measure.views) /\ AtLeast(o, "forwards", x.measure.forwards)
    /\ AtLeast(o, "reactions", Cardinality(x.reactions))
    /\ Among(o, "reaction", x.reactions)

MiscPredicates(o, x) ==
    /\ Within(o, "id", x.measure.id)
    /\ Wants(o, "service", "service" \in x.facts) /\ Wants(o, "silent", "silent" \in x.facts)
    /\ Wants(o, "has_spoiler", "spoiler" \in x.facts)

Matches(o, x) ==
    /\ ChatPredicates(o, x) /\ SenderPredicates(o, x) /\ MediaPredicates(o, x)
    /\ FileMatchPredicates(o, x) /\ FileBoundPredicates(o, x) /\ TextPredicates(o, x)
    /\ DatePredicates(o, x) /\ ForwardPredicates(o, x) /\ EngagementPredicates(o, x)
    /\ MiscPredicates(o, x)
-----------------------------------------------------------------------------
(* What is asked of the server *)

\* Mutant: several kinds are asked for by the first of them.
MessagesFilterForFirst(kinds) ==
    IF kinds = {} THEN "" ELSE
    LET k == CHOOSE k \in kinds : TRUE
    IN IF k = "audio" THEN "music" ELSE IF k = "video-note" THEN "round_video" ELSE k

\* messagesFilterFor: one media kind, or photos and videos.
MessagesFilterFor(kinds) ==
    CASE kinds = {"photo", "video"} -> "photo_video"
      [] \E k \in {"photo", "video", "voice", "document", "gif", "geo", "contact"} :
            kinds = {k} -> CHOOSE k \in kinds : TRUE
      [] kinds = {"video-note"} -> "round_video"
      [] kinds = {"audio"} -> "music"
      [] kinds = {"webpage"} -> "url"
      [] OTHER -> ""

\* What the server returns for a filter, from the media as the server knows it.
ServerKinds(m) ==
    (CASE m.media.type = "photo" -> {"photo", "photo_video"}
       [] m.media.type = "document" /\ ~m.media.gone ->
             LET kind == DocumentKind(m.media.attrs) IN
             (CASE kind = "video" -> {"video", "photo_video"}
                [] kind = "video-note" -> {"round_video"}
                [] kind = "audio" -> {"music"}
                [] OTHER -> {kind})
       [] m.media.type \in {"geo", "geo_live", "venue"} -> {"geo"}
       [] OTHER -> {m.media.type})
    \cup (IF m.media.type = "webpage" \/ \E e \in m.entities : e.kind \in {"url", "text_link"}
          THEN {"url"} ELSE {})

TopicMode(o) == o.topics /\ TheChat.type = "forum"
Filter(o) == MessagesFilterFor(o.any["media"])
\* Only a search takes a filter and dates; replies and history take id bounds.
Searches(o) == ~TopicMode(o) /\ (Filter(o) # "" \/ o.least["date"] # 0 \/ o.most["date"] # 0)

\* core.telegram.org as walk.go quotes it: "min_id/max_id filter ids strictly".
Serves(o, t, m) ==
    /\ o.least["id"] = 0 \/ m.id > o.least["id"]
    /\ o.most["id"] = 0 \/ m.id < o.most["id"]
    /\ TopicMode(o) => m.topic = t
    /\ Searches(o) => /\ Filter(o) = "" \/ Filter(o) \in ServerKinds(m)
                      /\ Within(o, "date", m.date)

\* One page: the newest below the offset.
Served(o, t) == {m \in History : Serves(o, t, m)}
Below(off, m) == off = 0 \/ m.id < off
PageAfter(o, t, off) ==
    LET rest == {m \in Served(o, t) : Below(off, m)}
    IN {m \in rest : Cardinality({x \in rest : x.id > m.id}) < PageSize}
Newest(messages) == CHOOSE m \in messages : \A x \in messages : x.id <= m.id
Oldest(messages) == CHOOSE m \in messages : \A x \in messages : m.id <= x.id

-----------------------------------------------------------------------------
(* The walk *)

NoTopic == 0
WalkInit ==
    /\ options \in Settings
    /\ step = IF ~Valid(options) THEN "refused" ELSE IF TopicMode(options) THEN "topics" ELSE "feed"
    /\ todo = {} /\ topic = NoTopic /\ offset = 0 /\ page = {} /\ tries = 0
    /\ scanned = 0 /\ read = {} /\ known = {} /\ missed = {} /\ unknown = {}
    /\ buffer = <<>> /\ emitted = <<>>

LimitReached == options.limit > 0 /\ scanned >= options.limit

\* forumTopics: a page of topics behind the last one that was not deleted.
TopicsAfter(t) ==
    LET rest == {x \in Topics : x.id > t}
    IN {x \in rest : Cardinality({y \in rest : y.id < x.id}) < TopicsPage}
ListTopics ==
    LET listed == TopicsAfter(topic) IN
    /\ step = "topics"
    /\ todo' = todo \cup {x.id : x \in {y \in listed : ~y.deleted}}
    /\ IF Cardinality(listed) < TopicsPage THEN step' = "next" /\ topic' = NoTopic
       ELSE step' = step /\ todo' # {} /\ topic' = Max(todo')
    /\ UNCHANGED <<options, offset, page, tries, scanned, read, senderVars, buffer, emitted>>

\* Mutant: every topic is given the whole limit.
NextFeedAnew ==
    /\ step = "next"
    /\ IF todo = {} THEN step' = "flush" /\ UNCHANGED <<todo, topic>>
       ELSE step' = "feed" /\ todo' = todo \ {Min(todo)} /\ topic' = Min(todo)
    /\ offset' = 0 /\ scanned' = 0
    /\ UNCHANGED <<options, page, tries, read, senderVars, buffer, emitted>>

\* The next topic's feed, unless the limit is used up.
NextFeed ==
    /\ step = "next"
    /\ IF todo = {} \/ LimitReached
       THEN step' = "flush" /\ UNCHANGED <<todo, topic>>
       ELSE step' = "feed" /\ todo' = todo \ {Min(todo)} /\ topic' = Min(todo)
    /\ offset' = 0
    /\ UNCHANGED <<options, page, tries, scanned, read, senderVars, buffer, emitted>>

EndFeed == step' = IF TopicMode(options) THEN "next" ELSE "flush"

\* A page, and the senders that come with it (SenderCache.Seed).
Fetch ==
    LET next == PageAfter(options, topic, offset) IN
    /\ step = "feed" /\ page = {}
    /\ IF next = {} THEN EndFeed /\ UNCHANGED <<page, offset, known>>
       ELSE /\ page' = next /\ offset' = Oldest(next).id /\ step' = step
            /\ known' = known \cup {m.from : m \in {x \in next : x.seeded}}
    /\ tries' = 0
    /\ UNCHANGED <<options, todo, topic, scanned, read, missed, unknown, buffer, emitted>>

\* A transient error repeats the same request.
Retry ==
    /\ step = "feed" /\ page = {} /\ tries < RetryMax
    /\ tries' = tries + 1
    /\ UNCHANGED <<options, todo, topic, offset, page, scanned, read, senderVars, buffer, emitted,
                   step>>

\* The last transient error, one that is not, or a match that could not be
\* stored: what was buffered is lost.
WalkFails ==
    /\ step \in {"topics", "feed", "flush"}
    /\ step' = "failed"
    /\ UNCHANGED <<options, feedVars, scanned, read, senderVars, buffer, emitted>>

StopAtLimit ==
    /\ step = "feed" /\ page # {} /\ LimitReached
    /\ page' = {} /\ EndFeed
    /\ UNCHANGED <<options, todo, topic, offset, tries, scanned, read, senderVars, buffer, emitted>>

\* SenderCache.Get: one request per unknown sender, whose failure is remembered.
ResolveSender(id, found) ==
    IF id = "0" THEN ~found /\ UNCHANGED <<known, missed>>
    ELSE \/ id \in known /\ found /\ UNCHANGED <<known, missed>>
         \/ id \in missed \ known /\ ~found /\ UNCHANGED <<known, missed>>
         \/ /\ id \notin known \cup missed
            /\ IF found THEN known' = known \cup {id} /\ UNCHANGED missed
               ELSE missed' = missed \cup {id} /\ UNCHANGED known

SenderOf(m, found) == IF found THEN People[m.from] ELSE Absent

Scan ==
    /\ step = "feed" /\ page # {} /\ ~LimitReached
    /\ scanned' = scanned + 1 /\ read' = read \cup {Newest(page)}
    /\ page' = page \ {Newest(page)}
    /\ \E found \in BOOLEAN :
          LET m == Newest(page)
              match == Matches(options, MapMessage(m, SenderOf(m, found)))
          IN /\ ResolveSender(m.from, found)
             /\ unknown' = IF found THEN unknown ELSE unknown \cup {m}
             /\ buffer' = IF match /\ options.reverse THEN Append(buffer, m) ELSE buffer
             /\ emitted' = IF match /\ ~options.reverse THEN Append(emitted, m) ELSE emitted
    /\ UNCHANGED <<options, todo, topic, offset, tries, step>>

\* The buffer of a reversed walk, from its last match to its first.
Flush ==
    /\ step = "flush"
    /\ IF buffer = <<>> THEN step' = "done" /\ UNCHANGED <<buffer, emitted>>
       ELSE /\ emitted' = Append(emitted, Last(buffer)) /\ buffer' = Front(buffer)
            /\ step' = step
    /\ UNCHANGED <<options, feedVars, scanned, read, senderVars>>

WalkNext ==
    \/ ListTopics \/ NextFeed \/ Fetch \/ Retry \/ WalkFails \/ StopAtLimit \/ Scan \/ Flush

WalkSpec == WalkInit /\ [][WalkNext]_walkVars
-----------------------------------------------------------------------------
(* Properties *)

LiveTopics == {x.id : x \in {y \in Topics : ~y.deleted}}
Visited == IF TopicMode(options) THEN {m \in History : m.topic \in LiveTopics} ELSE History
Selected(m) == Matches(options, MapMessage(m, SenderOf(m, m \notin unknown /\ m.from # "0")))

\* Ids on a bound are the exception: the server takes min_id and max_id strictly.
OnBound(m) == m.id \in {options.least["id"], options.most["id"]}

\* What walk.go asks of the server narrows the scan and never the selection: a
\* finished walk without a limit has emitted every message that its predicates
\* accept, once, whatever was paged, searched for, retried, buffered or read topic
\* by topic.
NothingHidden ==
    step = "done" /\ options.limit = 0 =>
        /\ ToSet(emitted) = {m \in Visited : Selected(m) /\ ~OnBound(m)}
        /\ Len(emitted) = Cardinality(ToSet(emitted))

\* options.go, --limit is "max messages to SCAN per chat": the topics of a forum
\* share one budget, and a finished walk has used it up or read all there is.
LimitIsPerChat ==
    step = "done" /\ options.limit > 0 =>
        LET there == Cardinality({m \in Visited : Serves(options, m.topic, m)})
        IN scanned = IF there < options.limit THEN there ELSE options.limit
=============================================================================
