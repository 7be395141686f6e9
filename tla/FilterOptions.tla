---------------------------- MODULE FilterOptions ----------------------------
(* The options that select messages (internal/filters/options.go) and those a   *)
(* run refuses. An unset option constrains nothing: the tri-bools are subsets    *)
(* of BOOLEAN, the lists and patterns are sets of values, empty when unset, and  *)
(* the bounds are numbers, 0 when unset.                                         *)
EXTENDS Integers

MediaKinds ==
    {"photo", "video", "video-note", "voice", "audio", "document", "sticker", "gif", "webpage",
     "poll", "geo", "contact", "dice", "game", "invoice", "story", "paid", "unsupported"}
ChatTypes == {"private", "bot", "group", "supergroup", "channel", "forum"}
StickerKinds == {"static", "animated", "video"}

TriOptions ==
    {"chat_deleted", "archived", "from_me", "sender_bot", "sender_premium", "sender_verified",
     "sender_scam", "sender_deleted", "has_media", "streamable", "no_sound", "was_mentioned",
     "has_url", "edited", "forwarded", "fwd_hidden", "is_reply", "pinned", "service", "silent",
     "has_spoiler"}
Lists ==
    {"chat_type", "chat_glob", "chat_regex", "chat_username", "from_users", "sender_name",
     "sender_username", "sender_phone", "media", "sticker_kind", "mime", "ext", "name_glob",
     "name_regex", "text_regex", "hashtag", "mention", "url_regex", "command", "fwd_from",
     "reaction"}
Bounds == {"size", "duration", "width", "height", "mp", "date", "fwd_date", "id", "views",
           "forwards", "reactions"}

Unset ==
    [tri |-> [n \in TriOptions |-> BOOLEAN], any |-> [n \in Lists |-> {}],
     none |-> [n \in Lists |-> {}], least |-> [n \in Bounds |-> 0],
     most |-> [n \in Bounds |-> 0], only |-> {}, hasText |-> "", inAlbum |-> "",
     limit |-> 0, reverse |-> FALSE, topics |-> FALSE]

\* Options.Validate and validateCompileExtras: a run with other values is refused.
Valid(o) ==
    /\ o.any["media"] \cup o.none["media"] \subseteq MediaKinds
    /\ o.any["chat_type"] \cup o.none["chat_type"] \subseteq ChatTypes
    /\ o.any["sticker_kind"] \subseteq StickerKinds
    /\ o.hasText \in {"", "any", "only", "none"} /\ o.inAlbum \in {"", "any", "only", "first"}
    /\ ~(o.least["id"] > 0 /\ o.most["id"] > 0 /\ o.least["id"] > o.most["id"])
=============================================================================
