------------------------------ MODULE TunAx25 -------------------------------
(***************************************************************************)
(* tun-ax25 (modem/tun/src): one thread runs selectloop() over a UDP       *)
(* socket and a pty that speaks KISS.                                      *)
(*                                                                         *)
(*   pty  -> KISSIngress -> UDPQueue  -> socket                            *)
(*   pty  <- KISSQueue   <- UDPIngress <- socket                           *)
(*                                                                         *)
(* Side 1 is the socket, side 2 the pty.  The kernel's AX.25 stack behind  *)
(* the pty and the peer behind the socket are the environment.             *)
(***************************************************************************)
EXTENDS Kiss, FiniteSets

CONSTANTS
    Packets,     (* the packets the kernel frames                            *)
    Datagrams,   (* the datagrams the peer sends                             *)
    Garbage,     (* byte sequences the pty may carry between two frames      *)
    Mtu,         (* mtu: the size of one read                                *)
    MaxFrames,   (* bound on the frames the kernel writes                    *)
    MaxDgrams,   (* bound on the datagrams the peer sends                    *)
    MaxFaults    (* bound on the failed or short writes                      *)

(* A frame with an escape that is none: what may stand between the         *)
(* kernel's frames.                                                        *)
BrokenFrame(g) ==
    /\ Len(g) > 3 /\ g[1] = FEND /\ g[2] = Data0 /\ g[Len(g)] = FEND
    /\ \A i \in 2..(Len(g) - 1) : g[i] # FEND
    /\ \E i \in 3..(Len(g) - 1) : g[i] = FESC /\ g[i + 1] \notin {TFEND, TFESC}

ASSUME TunAssumption ==
    /\ Mtu \in Nat \ {0}
    /\ Packets \subseteq Seq(STRING) /\ \A p \in Packets : p # << >>
    /\ Datagrams \subseteq Seq(STRING)
    /\ Garbage \subseteq Seq(STRING) /\ \A g \in Garbage : BrokenFrame(g)
    /\ {MaxFrames, MaxDgrams, MaxFaults} \subseteq Nat

VARIABLES
    pc,        (* "select", "read1", "read2", "send1", "send2" or "exit"     *)
    rfds, wfds,(* what select() reported: subsets of {1, 2}                  *)
    sockq,     (* UDPQueue::queue_, packets                                  *)
    ptyq,      (* KISSQueue::queue_, framed bytes                            *)
    unparsed,  (* KISSIngress::unparsed_                                     *)
    ptyIn,     (* bytes the kernel wrote and read() has not taken            *)
    sockIn,    (* datagrams received and recv() has not taken                *)
    ptyOut,    (* history: every byte written to the pty                     *)
    sockOut,   (* history: every datagram sent                               *)
    frames,    (* history: packets the kernel framed                         *)
    dgrams,    (* history: packets enqueued towards the pty                  *)
    faults     (* failed or short writes so far (bound)                      *)

loop == <<pc, rfds, wfds>>
kernel == <<ptyIn, frames>>
toSock == <<sockq, unparsed, sockOut>>
toPty == <<ptyq, ptyOut, dgrams>>
vars == <<loop, kernel, sockIn, toSock, toPty, faults>>

Init ==
    /\ pc = "select" /\ rfds = {} /\ wfds = {}
    /\ sockq = << >> /\ ptyq = << >> /\ unparsed = << >>
    /\ ptyIn = << >> /\ sockIn = << >>
    /\ ptyOut = << >> /\ sockOut = << >>
    /\ frames = << >> /\ dgrams = << >>
    /\ faults = 0

-----------------------------------------------------------------------------
(* The environment.                                                        *)

KernelSends(p) ==
    /\ pc # "exit" /\ Len(frames) < MaxFrames
    /\ frames' = Append(frames, p)
    /\ \E noise \in Garbage \cup {<< >>} :
           ptyIn' = ptyIn \o noise \o Framed(p)
    /\ UNCHANGED <<loop, sockIn, toSock, toPty, faults>>

PeerSends(p) ==
    /\ pc # "exit" /\ Len(dgrams) + Len(sockIn) < MaxDgrams
    /\ sockIn' = Append(sockIn, p)
    /\ UNCHANGED <<loop, kernel, toSock, toPty, faults>>

-----------------------------------------------------------------------------
(* selectloop().                                                           *)

Readable == {s \in {1, 2} : IF s = 1 THEN sockIn # << >> ELSE ptyIn # << >>}

PendingPtyOnly == {s \in {1} : ptyq # << >>}
(* A descriptor is asked about for writing only if its queue has a packet. *)
(* It is side 1 whose out() is the pty's queue.                            *)
Pending == {s \in {1, 2} : IF s = 1 THEN ptyq # << >> ELSE sockq # << >>}

(* select() returns when something is ready; a descriptor that is asked    *)
(* about may be writable or not.                                           *)
Select ==
    /\ pc = "select"
    /\ rfds' = Readable
    /\ wfds' \in SUBSET Pending
    /\ rfds' \cup wfds' # {}
    /\ pc' = "read1"
    /\ UNCHANGED <<kernel, sockIn, toSock, toPty, faults>>

Least(a, b) == IF a < b THEN a ELSE b
Truncated(p) == SubSeq(p, 1, Least(Mtu, Len(p)))

IsFailure(p) == p = << >>

(* UDPIngress::read: a datagram is cut to the buffer; an empty one reads   *)
(* as 0, which is taken for a failure and ends the program.                *)
Read1 ==
    /\ pc = "read1"
    /\ IF 1 \in rfds
       THEN /\ sockIn' = Tail(sockIn)
            /\ IF IsFailure(Head(sockIn))
               THEN pc' = "exit" /\ UNCHANGED toPty
               ELSE /\ ptyq' = Append(ptyq, Framed(Truncated(Head(sockIn))))
                    /\ dgrams' = Append(dgrams, Truncated(Head(sockIn)))
                    /\ pc' = "read2"
                    /\ UNCHANGED ptyOut
       ELSE pc' = "read2" /\ UNCHANGED <<sockIn, toPty>>
    /\ UNCHANGED <<rfds, wfds, kernel, toSock, faults>>

Forgotten(s) == << >>
Leftover(s) == s.kept

(* KISSIngress::read: any part of what is there, up to the buffer.         *)
Read2 ==
    /\ pc = "read2"
    /\ IF 2 \in rfds
       THEN \E n \in 1..Least(Mtu, Len(ptyIn)) :
              LET s == Parse(unparsed \o SubSeq(ptyIn, 1, n)) IN
                /\ ptyIn' = SubSeq(ptyIn, n + 1, Len(ptyIn))
                /\ unparsed' = Leftover(s)
                /\ sockq' = sockq \o s.out
       ELSE UNCHANGED <<ptyIn, unparsed, sockq>>
    /\ pc' = "send1"
    /\ UNCHANGED <<rfds, wfds, frames, sockIn, sockOut, toPty, faults>>

DropHead(q) == Tail(q)
KeepHead(q) == q

(* side1.out() is the KISSQueue: Queue::send.  A write that fails or is    *)
(* short leaves the packet at the head, to be written again in full.       *)
Send1 ==
    /\ pc = "send1"
    /\ IF 1 \in wfds
       THEN \/ /\ ptyOut' = ptyOut \o Head(ptyq)
               /\ ptyq' = Tail(ptyq)
               /\ UNCHANGED faults
            \/ /\ faults < MaxFaults
               /\ faults' = faults + 1
               /\ \E n \in 0..(Len(Head(ptyq)) - 1) :
                      ptyOut' = ptyOut \o SubSeq(Head(ptyq), 1, n)
               /\ ptyq' = KeepHead(ptyq)
       ELSE UNCHANGED <<ptyOut, ptyq, faults>>
    /\ pc' = "send2"
    /\ UNCHANGED <<rfds, wfds, kernel, sockIn, toSock, dgrams>>

(* side2.out() is the UDPQueue: UDPQueue::send.  sendto() takes the whole  *)
(* datagram or fails, and then the packet stays at the head.               *)
Send2 ==
    /\ pc = "send2"
    /\ IF 2 \in wfds
       THEN \/ /\ sockOut' = Append(sockOut, Head(sockq))
               /\ sockq' = DropHead(sockq)
               /\ UNCHANGED faults
            \/ /\ faults < MaxFaults
               /\ faults' = faults + 1
               /\ UNCHANGED <<sockOut, sockq>>
       ELSE UNCHANGED <<sockOut, sockq, faults>>
    /\ pc' = "select"
    /\ UNCHANGED <<rfds, wfds, kernel, sockIn, unparsed, toPty>>

-----------------------------------------------------------------------------
Environment ==
    (\E p \in Packets : KernelSends(p)) \/ (\E p \in Datagrams : PeerSends(p))
Program == Select \/ Read1 \/ Read2 \/ Send1 \/ Send2
Next == Environment \/ Program

Spec == Init /\ [][Next]_vars

(* The process is scheduled, and a descriptor that is asked about for      *)
(* writing is reported writable again and again: the pty is drained and    *)
(* the socket has buffer space.                                            *)
Fairness ==
    /\ WF_vars(Program)
    /\ SF_vars(Select /\ wfds' = Pending)

FairSpec == Spec /\ Fairness

-----------------------------------------------------------------------------
(* However read() cuts the pty's byte stream, the datagrams sent and       *)
(* queued are the frames the kernel wrote, in order, each complete, with   *)
(* at most one thing added: the command byte, which is dropped or kept     *)
(* depending on where the cuts fall (the skipped index in                  *)
(* KISSIngress::read).                                                     *)
FramesInOrderUpToCommand ==
    LET out == sockOut \o sockq IN
    /\ Len(out) <= Len(frames)
    /\ \A i \in 1..Len(out) : out[i] \in {frames[i], <<Data0>> \o frames[i]}

(* Once the pty has been read empty, no frame is missing, whatever noise   *)
(* with broken escapes stood between them.                                 *)
NoFrameLost ==
    ptyIn = << >> => Len(sockOut \o sockq) = Len(frames)

(* What the kernel decodes from the pty, against the datagrams queued for  *)
(* it: every decoded packet is one of them, or what a short write left of  *)
(* it (the beginning, perhaps all of it); those that have left the queue   *)
(* are decoded in full, each after its left-overs.                         *)
Explains(of, queued, decoded, gone) ==
    /\ \A i \in DOMAIN decoded : IsPrefix(decoded[i], queued[of[i]])
    /\ \A i, j \in DOMAIN decoded : i < j => of[i] <= of[j]
    /\ \A n \in 1..gone : \E i \in DOMAIN decoded :
           /\ of[i] = n /\ decoded[i] = queued[n]
           /\ \A j \in DOMAIN decoded : of[j] = n => j <= i

(* No datagram is lost, damaged or overtaken on its way to the pty: the    *)
(* kernel decodes exactly those that have left the queue; after a fault    *)
(* it decodes all of them, in order, with nothing in between but           *)
(* left-overs of short writes of the next one.                             *)
PtyStreamDecodes ==
    LET gone == Len(dgrams) - Len(ptyq)
        got == PeerDecode(ptyOut)
    IN  IF faults = 0 THEN got = SubSeq(dgrams, 1, gone)
        ELSE \E of \in [DOMAIN got -> 1..Least(gone + 1, Len(dgrams))] :
                 Explains(of, dgrams, got, gone)

(* Both directions make progress: what the kernel wrote is sent and what   *)
(* the peer sent reaches the pty, unless an empty datagram ended the loop. *)
BothDirectionsProgress ==
    /\ Len(frames) > Len(sockOut) ~> pc = "exit" \/ Len(sockOut) = Len(frames)
    /\ sockIn # << >> ~> pc = "exit" \/ (sockIn = << >> /\ ptyq = << >>)
=============================================================================
