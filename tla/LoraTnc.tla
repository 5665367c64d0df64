------------------------------- MODULE LoraTnc ------------------------------
(***************************************************************************)
(* loratnc: one thread between a pty that speaks KISS and a LoStik (an     *)
(* RN2903 radio chip behind a serial line that speaks lines of text).      *)
(*                                                                         *)
(* The program writes a command and takes the next line for its reply.     *)
(* The chip also writes lines of its own accord: a packet it received, the *)
(* end of a transmission, an error.  Such a line can stand where a reply   *)
(* is expected.                                                            *)
(*                                                                         *)
(* The chip, the kernel's AX.25 stack behind the pty and the radio peer    *)
(* are the environment.                                                    *)
(***************************************************************************)
EXTENDS Kiss, FiniteSets

CONSTANTS
    Packets,      (* the packets kernel and peer send                        *)
    Garbage,      (* byte sequences the pty may carry before a frame         *)
    MaxFrames,    (* bound on the frames the kernel writes                   *)
    MaxHeard,     (* bound on the packets the chip receives                  *)
    MaxRefusals,  (* bound on the transmissions the chip refuses             *)
    MaxErrors     (* bound on the radio_err lines                            *)

(* Garbage that ends in FESC would make the FEND of the frame behind it a  *)
(* broken escape, and the frame part of the garbage.                       *)
ASSUME LoraAssumption ==
    /\ Packets \subseteq Seq(STRING) /\ \A p \in Packets : p # << >>
    /\ Garbage \subseteq Seq(STRING)
    /\ \A g \in Garbage : g # << >> => Last(g) # FESC
    /\ {MaxFrames, MaxHeard, MaxRefusals, MaxErrors} \subseteq Nat

VARIABLES
    pc,         (* "setup", "poll", "kiss", "send", "stik" or "process"      *)
    ready,      (* what poll() reported: a subset of {"master", "stik"}      *)
    kiss, buf,  (* the state machine's state and the frame so far            *)
    sending,    (* LoStik::send_in_progress_                                 *)
    todo,       (* the exchanges left in the operation at hand               *)
    asked,      (* the first of them is written, its reply is awaited        *)
    packet,     (* what process() is going to return                         *)
    toChip,     (* commands written and not yet handled by the chip          *)
    fromChip,   (* lines the chip wrote and the program has not read         *)
    mode,       (* the chip: "idle", "rx" or "tx"                            *)
    ptyIn,      (* bytes the kernel wrote and the program has not read       *)
    ptyOut,     (* history: every byte written to the pty                    *)
    frames,     (* history: packets the kernel framed                        *)
    noise,      (* history: the kernel wrote something else, too             *)
    handed,     (* history: what send() was called with                      *)
    onAir,      (* history: what the chip transmitted                        *)
    heard,      (* history: what the chip received                           *)
    swallowed,  (* history: lines of the chip's own taken for a reply        *)
    refusals, errors  (* refused transmissions, radio_err lines so far       *)

loop == <<pc, ready>>
tnc == <<kiss, buf>>
exchange == <<todo, asked>>
kernel == <<ptyIn, frames, noise>>
radio == <<mode, onAir, heard, refusals, errors>>
vars == <<loop, tnc, sending, exchange, packet, toChip, fromChip, kernel,
          ptyOut, handed, radio, swallowed>>

(* Commands and lines, by what they do.  "line" stands for the readline()  *)
(* of process(), which no command precedes.                                *)
Cmd(c) == [cmd |-> c, data |-> << >>]
Tx(p) == [cmd |-> "tx", data |-> p]
Line(k) == [kind |-> k, data |-> << >>]
RxLine(p) == [kind |-> "rx", data |-> p]
IsReply(l) == l.kind \in {"ok", "busy", "value"}

(* The constructor after flush(), and the listen command of mainwrap().    *)
Setup == <<Cmd("get"), Cmd("pause"), Cmd("rxstop"), Cmd("set"), Cmd("get"),
           Cmd("rx")>>

(* The chip may be in any mode, left by the program's previous run.        *)
Init ==
    /\ pc = "setup" /\ ready = {}
    /\ kiss = "unsync" /\ buf = << >>
    /\ sending = FALSE
    /\ todo = Setup /\ asked = FALSE /\ packet = << >>
    /\ toChip = << >> /\ fromChip = << >> /\ mode \in {"idle", "rx", "tx"}
    /\ ptyIn = << >> /\ noise = FALSE /\ ptyOut = << >>
    /\ frames = << >> /\ handed = << >> /\ onAir = << >> /\ heard = << >>
    /\ swallowed = << >> /\ refusals = 0 /\ errors = 0

-----------------------------------------------------------------------------
(* The environment.                                                        *)

KernelSends(p) ==
    /\ Len(frames) < MaxFrames
    /\ frames' = Append(frames, p)
    /\ \E g \in Garbage \cup {<< >>} :
           /\ ptyIn' = ptyIn \o g \o Framed(p)
           /\ noise' = (noise \/ g # << >>)
    /\ UNCHANGED <<loop, tnc, sending, exchange, packet, toChip, fromChip,
                   ptyOut, handed, radio, swallowed>>

(* A packet arrives; the chip reports it and stops listening.  The peer is *)
(* another loratnc: it puts the command byte on the air too.               *)
ChipHears(p) ==
    /\ mode = "rx" /\ Len(heard) < MaxHeard
    /\ heard' = Append(heard, p)
    /\ fromChip' = Append(fromChip, RxLine(<<Data0>> \o p))
    /\ mode' = "idle"
    /\ UNCHANGED <<loop, tnc, sending, exchange, packet, toChip, kernel, ptyOut,
                   handed, onAir, refusals, errors, swallowed>>

ChipSent ==
    /\ mode = "tx"
    /\ fromChip' = Append(fromChip, Line("tx_ok"))
    /\ mode' = "idle"
    /\ UNCHANGED <<loop, tnc, sending, exchange, packet, toChip, kernel, ptyOut,
                   handed, onAir, heard, refusals, errors, swallowed>>

(* radio_err: a broken packet.                                             *)
ChipErr ==
    /\ mode = "rx" /\ errors < MaxErrors
    /\ errors' = errors + 1
    /\ fromChip' = Append(fromChip, Line("err"))
    /\ mode' = "idle"
    /\ UNCHANGED <<loop, tnc, sending, exchange, packet, toChip, kernel, ptyOut,
                   handed, onAir, heard, refusals, swallowed>>

(* The chip handles one command and answers it with one line.              *)
Answers(c) ==
    LET Reply(k) == fromChip' = Append(fromChip, Line(k)) IN
    CASE c.cmd = "rxstop" ->
            /\ mode' = (IF mode = "rx" THEN "idle" ELSE mode)
            /\ Reply("ok") /\ UNCHANGED <<onAir, refusals>>
      [] c.cmd = "rx" ->
            /\ mode' = (IF mode = "idle" THEN "rx" ELSE mode)
            /\ Reply(IF mode = "idle" THEN "ok" ELSE "busy")
            /\ UNCHANGED <<onAir, refusals>>
      [] c.cmd = "tx" /\ mode # "idle" ->
            Reply("busy") /\ UNCHANGED <<mode, onAir, refusals>>
      [] c.cmd = "tx" /\ mode = "idle" ->
            \/ /\ mode' = "tx" /\ onAir' = Append(onAir, c.data)
               /\ Reply("ok") /\ UNCHANGED refusals
            \/ /\ refusals < MaxRefusals /\ refusals' = refusals + 1
               /\ Reply("busy") /\ UNCHANGED <<mode, onAir>>
      [] c.cmd \in {"get", "pause"} ->
            Reply("value") /\ UNCHANGED <<mode, onAir, refusals>>
      [] OTHER -> Reply("ok") /\ UNCHANGED <<mode, onAir, refusals>>

ChipAnswers ==
    /\ toChip # << >>
    /\ Answers(Head(toChip))
    /\ toChip' = Tail(toChip)
    /\ UNCHANGED <<loop, tnc, sending, exchange, packet, kernel, ptyOut, handed,
                   heard, errors, swallowed>>

-----------------------------------------------------------------------------
(* LoStik::cmd and LoStik::readline.                                       *)

Write ==
    /\ todo # << >> /\ ~asked
    /\ toChip' = (IF Head(todo).cmd = "line" THEN toChip
                  ELSE Append(toChip, Head(todo)))
    /\ asked' = TRUE
    /\ UNCHANGED <<loop, tnc, sending, todo, packet, fromChip, kernel, ptyOut,
                   handed, radio, swallowed>>

ToListenNoErr(l) ==
    CASE l.kind = "rx" -> <<Cmd("get"), Cmd("rx")>>
      [] l.kind = "tx_ok" -> <<Cmd("rx")>>
      [] OTHER -> << >>
(* What process() does after its line: whatever the line is, it ends by    *)
(* asking the chip to listen again.                                        *)
ToListen(l) ==
    IF l.kind = "rx" THEN <<Cmd("get"), Cmd("rx")>> ELSE <<Cmd("rx")>>

(* A line radio_tx_ok makes readline() issue a command of its own before   *)
(* it returns; no state the caller changes depends on that command.        *)
LedOff(l) == IF l.kind = "tx_ok" THEN <<Cmd("set")>> ELSE << >>

SendingStuck(c, l) == (c.cmd = "tx" /\ l.kind = "ok") \/ sending
SendingAlways(c, l) ==
    c.cmd = "tx" \/ (sending /\ ~(c.cmd = "line" /\ l.kind = "tx_ok"))
(* send() sets the flag if the reply is ok; process() clears it.           *)
SendingAfter(c, l) ==
    \/ c.cmd = "tx" /\ l.kind = "ok"
    \/ sending /\ ~(c.cmd = "line" /\ l.kind = "tx_ok")

Read ==
    /\ asked /\ fromChip # << >>
    /\ LET c == Head(todo)
           l == Head(fromChip)
           atLine == c.cmd = "line"
       IN /\ todo' = LedOff(l) \o (IF atLine THEN ToListen(l) ELSE Tail(todo))
          /\ sending' = SendingAfter(c, l)
          /\ packet' = (IF atLine /\ l.kind = "rx" THEN l.data ELSE packet)
          /\ swallowed' = (IF atLine \/ IsReply(l) THEN swallowed
                           ELSE Append(swallowed, l))
    /\ fromChip' = Tail(fromChip)
    /\ asked' = FALSE
    /\ UNCHANGED <<loop, tnc, toChip, kernel, ptyOut, handed, radio>>

-----------------------------------------------------------------------------
(* mainwrap().                                                             *)

EndSetup ==
    /\ pc = "setup" /\ todo = << >>
    /\ pc' = "poll"
    /\ UNCHANGED <<ready, tnc, sending, exchange, packet, toChip, fromChip,
                   kernel, ptyOut, handed, radio, swallowed>>

(* The pty is not asked about during a transmission.                       *)
Polled == IF sending THEN {"stik"} ELSE {"master", "stik"}
HasInput == {d \in {"master", "stik"} :
                IF d = "master" THEN ptyIn # << >> ELSE fromChip # << >>}

Poll ==
    /\ pc = "poll"
    /\ ready' = Polled \cap HasInput
    /\ ready' # {}
    /\ pc' = "kiss"
    /\ UNCHANGED <<tnc, sending, exchange, packet, toChip, fromChip, kernel,
                   ptyOut, handed, radio, swallowed>>

(* StateUNSYNC, StateREADING and StateFrameEscape: the next state, the     *)
(* buffer, and whether the frame is complete.                              *)
To(s, b, complete) == [kiss |-> s, buf |-> b, complete |-> complete]

UnsyncByte(b) == To(IF b = FEND THEN "reading" ELSE "unsync", buf, FALSE)

ReadingByteUnsync(b) ==
    CASE b = FEND -> To("unsync", buf, TRUE)
      [] b = FESC -> To("escape", buf, FALSE)
      [] OTHER -> To("reading", Append(buf, b), FALSE)
ReadingByte(b) ==
    CASE b = FEND -> To("reading", buf, TRUE)
      [] b = FESC -> To("escape", buf, FALSE)
      [] OTHER -> To("reading", Append(buf, b), FALSE)

EscapeByteSwapped(b) ==
    CASE b = TFESC -> To("reading", Append(buf, FEND), FALSE)
      [] b = TFEND -> To("reading", Append(buf, FESC), FALSE)
      [] OTHER -> To("unsync", buf, FALSE)
(* A broken escape leaves the beginning of its frame in buf.               *)
EscapeByte(b) ==
    CASE b = TFESC -> To("reading", Append(buf, FESC), FALSE)
      [] b = TFEND -> To("reading", Append(buf, FEND), FALSE)
      [] OTHER -> To("unsync", buf, FALSE)

Handle(b) ==
    CASE kiss = "unsync" -> UnsyncByte(b)
      [] kiss = "reading" -> ReadingByte(b)
      [] OTHER -> EscapeByte(b)

NotCleared(s) == s.buf
Cleared(s) == IF s.complete THEN << >> ELSE s.buf

(* One byte of the pty.  A complete frame that is not empty goes to        *)
(* send(), which refuses it at once during a transmission; buf is cleared  *)
(* whatever send() returns.                                                *)
Kiss ==
    /\ pc = "kiss"
    /\ IF "master" \in ready
       THEN LET s == Handle(Head(ptyIn))
                send == s.complete /\ s.buf # << >>
            IN /\ ptyIn' = Tail(ptyIn)
               /\ kiss' = s.kiss
               /\ buf' = Cleared(s)
               /\ handed' = (IF send THEN Append(handed, s.buf) ELSE handed)
               /\ todo' = (IF send /\ ~sending
                           THEN <<Cmd("rxstop"), Cmd("set"), Tx(s.buf)>>
                           ELSE << >>)
       ELSE UNCHANGED <<ptyIn, tnc, handed, todo>>
    /\ pc' = "send"
    /\ UNCHANGED <<ready, sending, asked, packet, toChip, fromChip, frames,
                   noise, ptyOut, radio, swallowed>>

EndSend ==
    /\ pc = "send" /\ todo = << >>
    /\ pc' = "stik"
    /\ UNCHANGED <<ready, tnc, sending, exchange, packet, toChip, fromChip,
                   kernel, ptyOut, handed, radio, swallowed>>

(* receive() starts with process(), which waits for a line.                *)
Stik ==
    /\ pc = "stik"
    /\ IF "stik" \in ready
       THEN pc' = "process" /\ todo' = <<Cmd("line")>>
       ELSE pc' = "poll" /\ UNCHANGED todo
    /\ UNCHANGED <<ready, tnc, sending, asked, packet, toChip, fromChip, kernel,
                   ptyOut, handed, radio, swallowed>>

WrittenRaw(p) == p \o <<FEND>>
(* receive() escapes the packet and ends the frame, also after a line that *)
(* brought no packet.                                                      *)
Written(p) == Escaped(p) \o <<FEND>>

Receive ==
    /\ pc = "process" /\ todo = << >>
    /\ ptyOut' = ptyOut \o Written(packet)
    /\ packet' = << >>
    /\ pc' = "poll"
    /\ UNCHANGED <<ready, tnc, sending, exchange, toChip, fromChip, kernel,
                   handed, radio, swallowed>>

-----------------------------------------------------------------------------
Chip == ChipAnswers \/ ChipSent \/ ChipErr \/ \E p \in Packets : ChipHears(p)
Program ==
    \/ Write \/ Read
    \/ EndSetup \/ Poll \/ Kiss \/ EndSend \/ Stik \/ Receive
Next == Program \/ Chip \/ \E p \in Packets : KernelSends(p)

Spec == Init /\ [][Next]_vars

(* The process is scheduled, the chip answers every command and every      *)
(* transmission ends.                                                      *)
FairSpec ==
    Spec /\ WF_vars(Program) /\ WF_vars(ChipAnswers) /\ WF_vars(ChipSent)

-----------------------------------------------------------------------------
WithCommand == [i \in DOMAIN frames |-> <<Data0>> \o frames[i]]

(* The elements of s are, by Rel, some of those of t, in the order of t.   *)
Embedded(Rel(_, _), s, t) ==
    \E f \in [DOMAIN s -> DOMAIN t] :
        /\ \A i \in DOMAIN s : Rel(s[i], t[f[i]])
        /\ \A i, j \in DOMAIN s : i < j => f[i] < f[j]

(* Noise and broken escapes on the pty cost no frame (but see              *)
(* LoraAssumption): when the bytes are read, every frame the kernel wrote  *)
(* was handed to send(), in order, as the end of a packet (what a broken   *)
(* escape left in buf stands before it).                                   *)
EveryFrameReachesSend ==
    ptyIn = << >> => Embedded(IsSuffix, WithCommand, handed)

EmbeddedIn(s, t) == Embedded(=, s, t)

(* With nothing but frames on the pty, what the chip transmits are frames  *)
(* the kernel wrote: none twice, out of order, damaged or made of two,     *)
(* whatever sends were refused and replies mistaken in between.            *)
TransmittedAreFrames == ~noise => EmbeddedIn(onAir, WithCommand)

(* The packets that lines of the chip carry.                               *)
TakePacket(s, l) == IF l.kind = "rx" THEN Append(s, Tail(l.data)) ELSE s
PacketsIn(lines) == FoldLeft(TakePacket, << >>, lines)

(* What the chip received reaches the pty intact and in order; the packets *)
(* missing are those whose line was taken for a reply, one for one.        *)
HeardReachesPty ==
    LET delivered == PeerDecode(ptyOut) IN
    /\ EmbeddedIn(delivered, heard)
    /\ Len(heard) = Len(delivered) + Len(PacketsIn(swallowed))
                    + Len(PacketsIn(fromChip)) + (IF packet = << >> THEN 0 ELSE 1)

(* Nothing is under way between program and chip.                          *)
AtRest == pc = "poll" /\ fromChip = << >> /\ toChip = << >> /\ todo = << >>

(* At rest the radio listens or transmits, unless the chip refused a       *)
(* transmission (send() stops the receiver first and returns without       *)
(* starting it again) or a line of its own was taken for a reply.          *)
DeafOnlyAfterRefusalOrSwallow ==
    AtRest /\ mode = "idle" => refusals > 0 \/ swallowed # << >>

(* At rest the flag that stops the pty from being read says what the chip  *)
(* does, unless a line was taken for a reply, or the transmission is still *)
(* the one of the program's previous run.                                  *)
FlagIsTrueAtRest ==
    AtRest /\ swallowed = << >> =>
        IF onAir = << >> THEN ~sending ELSE sending <=> mode = "tx"

(* A transmission ends and the pty is read again, unless a line was taken  *)
(* for a reply: then the flag may stay set for ever, because radio_tx_ok   *)
(* was that line, or because the replies are one late and the ok of the    *)
(* command before stands for that of a refused transmission.               *)
TransmissionEnds == sending ~> ~sending \/ swallowed # << >>
=============================================================================
