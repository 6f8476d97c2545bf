------------------------- MODULE PublicationRecord -------------------------
(***************************************************************************)
(* What the publication of a folder promises when its commands do not      *)
(* overlap: each snowflake is recorded once, is never replaced, and is     *)
(* recorded before the next kind of Discord call depends on it.            *)
(*                                                                         *)
(*   - main messages are sent only while none is recorded;                 *)
(*   - a thread is started only from the recorded main message;            *)
(*   - enrichments are posted only once that thread is recorded.           *)
(***************************************************************************)
EXTENDS Integers

CONSTANTS Msg, NoMsg

VARIABLES
    messages,   \* main messages on Discord
    threads,    \* messages on Discord a thread was started from
    posts,      \* enrichment messages on Discord
    main,       \* the recorded main message
    thread      \* the recorded thread, named by its message

vars == <<messages, threads, posts, main, thread>>

Init ==
    /\ messages = {} /\ threads = {} /\ posts = 0
    /\ main = NoMsg /\ thread = NoMsg

SendMain ==
    /\ main = NoMsg
    /\ \E m \in Msg \ messages : messages' = messages \cup {m}
    /\ UNCHANGED <<threads, posts, main, thread>>

RecordMain ==
    /\ main = NoMsg
    /\ main' \in messages
    /\ UNCHANGED <<messages, threads, posts, thread>>

StartThread ==
    /\ main # NoMsg /\ thread = NoMsg /\ main \notin threads
    /\ threads' = threads \cup {main}
    /\ UNCHANGED <<messages, posts, main, thread>>

RecordThread ==
    /\ main \in threads /\ thread = NoMsg
    /\ thread' = main
    /\ UNCHANGED <<messages, threads, posts, main>>

PostEnrichment ==
    /\ thread # NoMsg
    /\ posts' = posts + 1
    /\ UNCHANGED <<messages, threads, main, thread>>

Next == SendMain \/ RecordMain \/ StartThread \/ RecordThread \/ PostEnrichment

Spec == Init /\ [][Next]_vars
=============================================================================
