-------------------------------- MODULE Dsax --------------------------------
(***************************************************************************)
(* dsax: carries a byte stream over a D-Star serial line on which XON and  *)
(* XOFF must not appear.  Two of them, one at each end of the line, as     *)
(* they are used:                                                          *)
(*                                                                         *)
(*   user 1 <=pty=> dsax 1 <=line=> dsax 2 <=pty=> user 2                  *)
(*                                                                         *)
(* Each dsax is one thread: select(), copy() from the pty ("child") to the *)
(* line ("parent"), copy() back.  The users and the line with its flow     *)
(* control are the environment.                                            *)
(***************************************************************************)
EXTENDS Integers, Sequences, SequencesExt

CONSTANTS
    Inputs,     (* [1..2 -> bytes]: what the two users may type              *)
    BufSize,    (* the buffer of copy()                                      *)
    LineSize,   (* bytes the line takes before flow control stops the writer *)
    MaxFaults   (* bound on reads and writes that fail                       *)

ASSUME DsaxAssumption ==
    /\ Inputs \subseteq [1..2 -> Seq(STRING)]
    /\ {BufSize, LineSize} \subseteq Nat \ {0} /\ MaxFaults \in Nat

XOFF == "XOFF"
XON == "XON"
ESC == "ESC"
ESC_XOFF == "01"
ESC_XON == "02"
ESC_ESC == "03"

Ends == {1, 2}
Peer(e) == 3 - e

VARIABLES
    pc,       (* [Ends -> "select", "child", "parent" or "exit"]             *)
    ready,    (* [Ends -> what select() reported, of {"child", "parent"}]    *)
    out,      (* [Ends -> the rest of the write() under way]                 *)
    inEsc,    (* [Ends -> parent_state]                                      *)
    line,     (* [Ends -> bytes on the line from this end]                   *)
    input,    (* [Ends -> all that the user types]                           *)
    taken,    (* [Ends -> how many of them were read from the pty]           *)
    got,      (* [Ends -> history: bytes written to the pty]                 *)
    faults    (* failed reads and writes so far                              *)

vars == <<pc, ready, out, inEsc, line, input, taken, got, faults>>

Init ==
    /\ pc = [e \in Ends |-> "select"] /\ ready = [e \in Ends |-> {}]
    /\ out = [e \in Ends |-> << >>] /\ inEsc = [e \in Ends |-> FALSE]
    /\ line = [e \in Ends |-> << >>] /\ got = [e \in Ends |-> << >>]
    /\ input \in Inputs /\ taken = [e \in Ends |-> 0]
    /\ faults = 0

-----------------------------------------------------------------------------
(* encode() and decode().                                                  *)

EncodeByte(b) ==
    CASE b = XOFF -> <<ESC, ESC_XOFF>>
      [] b = XON -> <<ESC, ESC_XON>>
      [] b = ESC -> <<ESC, ESC_ESC>>
      [] OTHER -> <<b>>
EncodeStep(t, b) == t \o EncodeByte(b)
Encode(s) == FoldLeft(EncodeStep, << >>, s)

(* A byte after an escape that means nothing there is dropped.             *)
Unescaped(b) ==
    CASE b = ESC_XON -> <<XON>>
      [] b = ESC_XOFF -> <<XOFF>>
      [] b = ESC_ESC -> <<ESC>>
      [] OTHER -> << >>

DecodeByte(s, b) ==
    CASE s.esc -> [ret |-> s.ret \o Unescaped(b), esc |-> FALSE]
      [] ~s.esc /\ b = ESC -> [s EXCEPT !.esc = TRUE]
      [] OTHER -> [s EXCEPT !.ret = Append(@, b)]
Decode(s, esc) == FoldLeft(DecodeByte, [ret |-> << >>, esc |-> esc], s)

-----------------------------------------------------------------------------
(* mainloop() of end e.                                                    *)

Typed(e) == SubSeq(input[e], taken[e] + 1, Len(input[e]))
Arrived(e) == line[Peer(e)]
Readable(e) ==
    {f \in {"child", "parent"} :
        IF f = "child" THEN Typed(e) # << >> ELSE Arrived(e) # << >>}

Select(e) ==
    /\ pc[e] = "select" /\ Readable(e) # {}
    /\ ready' = [ready EXCEPT ![e] = Readable(e)]
    /\ pc' = [pc EXCEPT ![e] = "child"]
    /\ UNCHANGED <<out, inEsc, line, input, taken, got, faults>>

Least(a, b) == IF a < b THEN a ELSE b
From(s, n) == SubSeq(s, n + 1, Len(s))

(* copy(): one read, of which the whole result is written before the loop  *)
(* goes on.                                                                *)
NextAfterChild(f) == "child"
NextAfter(f) == IF f = "child" THEN "parent" ELSE "select"

Skip(e, f) ==
    /\ pc[e] = f /\ f \notin ready[e] /\ out[e] = << >>
    /\ pc' = [pc EXCEPT ![e] = NextAfter(f)]
    /\ UNCHANGED <<ready, out, inEsc, line, input, taken, got, faults>>

DropNot(e, f) == UNCHANGED ready
Drop(e, f) == ready' = [ready EXCEPT ![e] = @ \ {f}]

CopyIn(e) ==
    /\ pc[e] = "child" /\ "child" \in ready[e] /\ out[e] = << >>
    /\ \E n \in 1..Least(BufSize, Len(Typed(e))) :
          /\ out' = [out EXCEPT ![e] = Encode(SubSeq(Typed(e), 1, n))]
          /\ taken' = [taken EXCEPT ![e] = @ + n]
    /\ Drop(e, "child")
    /\ UNCHANGED <<pc, inEsc, line, input, got, faults>>

StateForgotten(e) == FALSE
StateOf(e) == inEsc[e]

CopyOut(e) ==
    /\ pc[e] = "parent" /\ "parent" \in ready[e] /\ out[e] = << >>
    /\ \E n \in 1..Least(BufSize, Len(Arrived(e))) :
          LET s == Decode(SubSeq(Arrived(e), 1, n), StateOf(e)) IN
          /\ out' = [out EXCEPT ![e] = s.ret]
          /\ inEsc' = [inEsc EXCEPT ![e] = s.esc]
          /\ line' = [line EXCEPT ![Peer(e)] = From(@, n)]
    /\ Drop(e, "parent")
    /\ UNCHANGED <<pc, input, taken, got, faults>>

(* write() blocks while flow control holds the line; the users read.       *)
Put(e) ==
    /\ out[e] # << >> /\ pc[e] # "exit"
    /\ IF pc[e] = "child"
       THEN /\ Len(line[e]) < LineSize
            /\ line' = [line EXCEPT ![e] = Append(@, Head(out[e]))]
            /\ UNCHANGED got
       ELSE got' = [got EXCEPT ![e] = Append(@, Head(out[e]))] /\ UNCHANGED line
    /\ out' = [out EXCEPT ![e] = Tail(@)]
    /\ UNCHANGED <<pc, ready, inEsc, input, taken, faults>>

(* A read that fails or finds the end, a write that fails or is short: the *)
(* program ends, and what it has not written is gone.                      *)
Fault(e) ==
    /\ pc[e] \in {"child", "parent"} /\ faults < MaxFaults
    /\ out[e] # << >> \/ pc[e] \in ready[e]
    /\ faults' = faults + 1
    /\ pc' = [pc EXCEPT ![e] = "exit"]
    /\ UNCHANGED <<ready, out, inEsc, line, input, taken, got>>

-----------------------------------------------------------------------------
Step(e) ==
    \/ Select(e) \/ CopyIn(e) \/ CopyOut(e) \/ Put(e)
    \/ \E f \in {"child", "parent"} : Skip(e, f)
Next == \E e \in Ends : Step(e) \/ Fault(e)

Spec == Init /\ [][Next]_vars

(* Both programs are scheduled.                                            *)
FairSpec == Spec /\ \A e \in Ends : WF_vars(Step(e))

-----------------------------------------------------------------------------
(* What select() reported stays true until it is used: no read() blocks,   *)
(* whatever the other copy() and the other end do in between.              *)
ReadsNeverBlock == \A e \in Ends : ready[e] \subseteq Readable(e)

(* Every variable has its type, and no read() blocks.                      *)
TypeOK ==
    /\ pc \in [Ends -> {"select", "child", "parent", "exit"}]
    /\ ReadsNeverBlock
    /\ inEsc \in [Ends -> BOOLEAN]
    /\ \A e \in Ends : Len(line[e]) <= LineSize
    /\ \A e \in Ends : taken[e] \in 0..Len(input[e])
    /\ \A e \in Ends : pc[e] = "select" => out[e] = << >>
    /\ faults \in 0..MaxFaults

(* However reads cut the stream, between the bytes of an escape too, a     *)
(* user gets what the other typed, in order and unchanged; and when the    *)
(* line and both programs are empty, all of what was read from the pty.    *)
(* "removing XON/XOFF": neither byte is ever on the line.                  *)
UserGetsWhatWasTyped ==
    \A e \in Ends :
        LET sent == SubSeq(input[e], 1, taken[e]) IN
        /\ Range(line[e]) \cap {XON, XOFF} = {}
        /\ IsPrefix(got[Peer(e)], sent)
        /\ (line[e] = << >> /\ out = [x \in Ends |-> << >>])
              => got[Peer(e)] = sent

(* Each program waits in write() for the other to read.                    *)
MutualWait ==
    \A e \in Ends : pc[e] = "child" /\ out[e] # << >> /\ Len(line[e]) = LineSize

Exited == \E e \in Ends : pc[e] = "exit"

(* What is typed arrives, unless a program ended or both wait in write()   *)
(* for each other: neither reads the line while it writes to it.           *)
TypedArrives ==
    \A e \in Ends :
        Typed(e) # << >> ~> got[Peer(e)] = input[e] \/ MutualWait \/ Exited
=============================================================================
