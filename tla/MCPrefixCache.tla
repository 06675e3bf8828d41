---------------------------- MODULE MCPrefixCache ----------------------------
EXTENDS PrefixCache

Perms == UNION {Permutations(S) : S \in {Request, Text, ReplyText, Image}}

\* Text conversations, two parks, replies that are cancelled.
Texts == [images |-> {}, ctx |-> 9, parks |-> 2, events |-> {"leave"}, same |-> TRUE]

\* Two images that look alike as tokens, one request after another.
Images == [images |-> Image, ctx |-> 9, parks |-> 0, events |-> {}, same |-> FALSE]

\* Everything fails, the context is short and completions come in between; one park.
Faults == [images |-> {}, ctx |-> 6, parks |-> 1, events |-> Event, same |-> TRUE]

\* A conversation with an image is answered, another request is parked, the next turn arrives.
Parked == [images |-> Image, ctx |-> 9, parks |-> 1, events |-> {}, same |-> FALSE]

AllScenes == {Texts, Images, Faults}
ParkedScene == {Parked}
=============================================================================
