------------------------------ MODULE MapLines ------------------------------
(***************************************************************************)
(* StreamMapLines of pskreporter (lines.h): a detached thread reads an     *)
(* istream in chunks into one huge mapping and publishes how far it got;   *)
(* the iterator of a range-for loop searches the published part for the    *)
(* next newline and otherwise waits on a condition variable.  Offsets into *)
(* the mapping stand for the char pointers.                                *)
(*                                                                         *)
(* Every accessor of ReadState locks mu_ for its own duration only, so     *)
(* each is one step; what a thread read through one may be stale by the    *)
(* time it calls the next.                                                 *)
(***************************************************************************)
EXTENDS Integers, Sequences, FiniteSets, FiniteSetsExt

CONSTANTS
    Inputs,       (* the streams: sequences over {"c", "nl"}                 *)
    Chunk,        (* chunk_size                                              *)
    Page,         (* page_size                                               *)
    MinUnmap,     (* min_unmap_len                                           *)
    MaxSpurious   (* bound on the spurious wakeups                           *)

ASSUME MapLinesAssumption ==
    /\ Inputs \subseteq Seq({"c", "nl"})
    /\ Chunk \in Nat \ {0} /\ Page \in Nat \ {0}
    /\ MinUnmap \in Nat /\ MaxSpurious \in Nat

VARIABLES
    input,      (* the bytes of the stream                                  *)
    start, end, done,  (* start_, end_ and done_ of ReadState                *)
    rpc,        (* the reader thread: "read", "publish", "trigger",         *)
                (* "finish" or "exit"                                       *)
    got, last,  (* its locals: gcount(), and whether the stream has ended   *)
    cpc,        (* the loop: "ctor", "next", "find", "wait", "blocked",     *)
                (* "woken", "body" or "over"                                *)
    snapEnd, snapDone, oldEnd, (* its locals end, done and old_end          *)
    lastUnmap,  (* last_unmap: below it the mapping is gone                 *)
    discard,    (* TRUE while the constructor of Iterator calls read_       *)
    cur,        (* cur_ as <<first, beyond>> offsets                        *)
    bodies,     (* history: what *it was, each time the loop body ran       *)
    spurious

reader == <<rpc, got, last>>
locals == <<snapEnd, snapDone, oldEnd>>
iter == <<lastUnmap, discard, cur, bodies>>
vars == <<input, start, end, done, reader, cpc, locals, iter, spurious>>

Newline(p) == input[p + 1] = "nl"

(* cur_ before anything was read into it: a default string_view.           *)
NoLine == <<0, 0>>

Init ==
    /\ input \in Inputs
    /\ start = 0 /\ end = 0 /\ done = FALSE
    /\ rpc = "read" /\ got = 0 /\ last = FALSE
    /\ cpc = "next" /\ discard = TRUE
    /\ snapEnd = 0 /\ snapDone = FALSE /\ oldEnd = 0
    /\ lastUnmap = 0 /\ cur = NoLine /\ bodies = << >>
    /\ spurious = 0

-----------------------------------------------------------------------------
(* The reader thread.                                                      *)

Left == Len(input) - end

(* stream_.read stops short of a chunk only at the end of the stream       *)
(* (eof()) or on an error (!good()); either way the thread stops after     *)
(* publishing what it got.                                                 *)
ReadChunk ==
    /\ rpc = "read"
    /\ \/ Chunk <= Left /\ got' = Chunk /\ last' = FALSE
       \/ \E n \in 0..Left : n < Chunk /\ got' = n /\ last' = TRUE
    /\ rpc' = "publish"
    /\ UNCHANGED <<input, start, end, done, cpc, locals, iter, spurious>>

SetEnd ==
    /\ rpc = "publish"
    /\ end' = end + got
    /\ rpc' = "trigger"
    /\ UNCHANGED <<input, start, done, got, last, cpc, locals, iter, spurious>>

NotifyNobody == cpc' = cpc
NotifyOne == cpc' = IF cpc = "blocked" THEN "woken" ELSE cpc

Trigger ==
    /\ rpc = "trigger"
    /\ NotifyOne
    /\ rpc' = IF last THEN "finish" ELSE "read"
    /\ UNCHANGED <<input, start, end, done, got, last, locals, iter, spurious>>

SetDone ==
    /\ rpc = "finish"
    /\ done' = TRUE
    /\ rpc' = "exit"
    /\ UNCHANGED <<input, start, end, got, last, cpc, locals, iter, spurious>>

-----------------------------------------------------------------------------
(* The read_ function of the iterator.                                     *)

RoundToPage(n) == (n \div Page) * Page
UnmapLen == RoundToPage(start - lastUnmap)

Snapshot ==
    /\ cpc = "next"
    /\ snapEnd' = end /\ snapDone' = done
    /\ lastUnmap' = IF UnmapLen > MinUnmap THEN lastUnmap + UnmapLen ELSE lastUnmap
    /\ cpc' = "find"
    /\ UNCHANGED <<input, start, end, done, reader, oldEnd, discard, cur, bodies, spurious>>

RanDry == TRUE
AtEnd == snapDone

Newlines(from, to) == {p \in from..(to - 1) : Newline(p)}
SkipSearched(p) == snapEnd
AfterNewline(p) == p + 1

(* A line was found.  The constructor of Iterator drops it and leaves cur_ *)
(* empty, operator++ keeps it.                                             *)
FindLine ==
    /\ cpc = "find" /\ Newlines(start, snapEnd) # {}
    /\ LET e == Min(Newlines(start, snapEnd)) IN
         /\ start' = AfterNewline(e)
         /\ cur' = IF discard THEN cur ELSE <<start, e>>
    /\ discard' = FALSE
    /\ cpc' = "body"
    /\ UNCHANGED <<input, end, done, reader, locals, lastUnmap, bodies, spurious>>

(* The end was reached.  The constructor drops this result as well.        *)
FindEnd ==
    /\ cpc = "find" /\ Newlines(start, snapEnd) = {} /\ AtEnd
    /\ discard' = FALSE
    /\ cpc' = IF discard THEN "body" ELSE "over"
    /\ UNCHANGED <<input, start, end, done, reader, locals, lastUnmap, cur, bodies, spurious>>

FindNothing ==
    /\ cpc = "find" /\ Newlines(start, snapEnd) = {} /\ ~snapDone
    /\ cpc' = "wait"
    /\ UNCHANGED <<input, start, end, done, reader, locals, iter, spurious>>

MovedOnly(old) == end # old
WaitOver(old) == done \/ end # old

(* wait(): old_end is sampled here, not where the search ended.            *)
WaitEnter ==
    /\ cpc = "wait"
    /\ oldEnd' = end
    /\ cpc' = IF WaitOver(end) THEN "next" ELSE "blocked"
    /\ UNCHANGED <<input, start, end, done, reader, snapEnd, snapDone, iter, spurious>>

Recheck ==
    /\ cpc = "woken"
    /\ cpc' = IF WaitOver(oldEnd) THEN "next" ELSE "blocked"
    /\ UNCHANGED <<input, start, end, done, reader, locals, iter, spurious>>

Spurious ==
    /\ cpc = "blocked" /\ spurious < MaxSpurious
    /\ spurious' = spurious + 1
    /\ cpc' = "woken"
    /\ UNCHANGED <<input, start, end, done, reader, locals, iter>>

(* The body of the loop uses *it, then ++it.                               *)
Body ==
    /\ cpc = "body"
    /\ bodies' = Append(bodies, cur)
    /\ cpc' = "next"
    /\ UNCHANGED <<input, start, end, done, reader, locals, lastUnmap, discard, cur, spurious>>

-----------------------------------------------------------------------------
Reader == ReadChunk \/ SetEnd \/ Trigger \/ SetDone
Consumer ==
    \/ Snapshot \/ FindLine \/ FindEnd \/ FindNothing
    \/ WaitEnter \/ Recheck \/ Body

Next == Reader \/ Consumer \/ Spurious

Spec == Init /\ [][Next]_vars

(* Both threads are scheduled and the stream does deliver or end.          *)
FairSpec == Spec /\ WF_vars(Reader) /\ WF_vars(Consumer)

-----------------------------------------------------------------------------
(* The lines of the stream, as offsets; a tail without newline is none.    *)
LineStart(e) == Max({-1} \cup Newlines(0, e)) + 1
LineEnds == Newlines(0, Len(input))
Line(i) == LET e == CHOOSE p \in LineEnds : Cardinality(Newlines(0, p + 1)) = i
           IN  <<LineStart(e), e>>

(* The loop body sees the stream's lines in order, none twice and none     *)
(* skipped, however the reader's chunks cut them, except that the first    *)
(* run of the body sees an empty line in place of line 1, which the        *)
(* constructor of Iterator has read and dropped.  The line it works on is  *)
(* still mapped, although the iterator unmaps consumed pages as it goes.   *)
BodySeesLinesInOrder ==
    /\ \A i \in 1..Len(bodies) :
          bodies[i] = IF i = 1 THEN NoLine ELSE Line(i)
    /\ cpc = "body" /\ cur # NoLine => lastUnmap <= cur[1]

(* When the loop ends after the whole stream was read, the body saw every  *)
(* line but the first.                                                     *)
LoopSeesAll ==
    cpc = "over" /\ end = Len(input) => Len(bodies) = Max({1, Cardinality(LineEnds)})

(* A line published between the search and wait() is slept on, since       *)
(* old_end is sampled in wait(); but never past the next chunk: outside    *)
(* the window between set_end and trigger, a loop that sleeps has seen     *)
(* nothing published since it fell asleep.                                 *)
WokenByNextChunk ==
    cpc = "blocked" /\ rpc # "trigger" => oldEnd = end

(* A loop that is not asleep when the reader leaves does end.  One that is *)
(* asleep then stays so: set_done is not followed by a trigger().          *)
EndsIfAwakeAtEof == rpc = "exit" /\ cpc # "blocked" ~> cpc = "over"
=============================================================================
