----------------------------- MODULE StreamPipe -----------------------------
(***************************************************************************)
(* A pipe of streams: a client writes packets to a cStreamStackPackets     *)
(* (out), which pushes them on to a cStreamQueue (wire); a cStreamStackInp *)
(* (inp) fills itself from there in whole blocks, and its client reads     *)
(* from it in cStreamTransaction scopes, which may nest.  None of these    *)
(* classes locks anything: one thread, or one lock, makes the calls, so a  *)
(* call is a step; what is hard is the order of calls.                     *)
(*                                                                         *)
(* The bytes are numbered in the order in which they were accepted.        *)
(***************************************************************************)
EXTENDS Integers, Sequences

CONSTANTS
    StackChunk,         \* 8 * 1024 in the code: the chunk of both stacks
    OutMax,             \* nSizeBuffer of the packets
    WireChunk, WireMax, \* the chunk and the maximum of the queue between
    InpMax,             \* nSizeMaxBuffer of the reader's stack
    Block,              \* nSizeBlockAlign
    Sizes,              \* the packets' sizes
    ReadSizes,          \* how much the reader reads, or keeps, at once
    MaxBytes,           \* bound: the bytes accepted
    MaxScopes           \* bound: transactions within transactions

INSTANCE QueueBytes WITH ChunkMin <- 1

ASSUME PipeAssumption ==
    /\ {StackChunk, OutMax, WireChunk, WireMax, InpMax, MaxBytes} \subseteq Nat \ {0}
    /\ Block \in 2..InpMax
    /\ Sizes \subseteq 1..OutMax
    /\ ReadSizes \subseteq 1..InpMax
    /\ MaxScopes \in Nat

VARIABLES
    out, wire, inp,     \* the three queues
    want,               \* the size of the packet the writer offers, 0 if none
    accepted,           \* ghost: how many bytes WriteX has accepted
    position,           \* ghost: how many bytes are read and not rolled back
    scopes,             \* the open transactions on inp, the innermost last
    broken              \* ghost: the outermost transaction was declared failed

vars == <<out, wire, inp, want, accepted, position, scopes, broken>>

NotActive == -1         \* k_STREAM_POS_ERR

\* A transaction: _nPosStart, _nSeekSizeMinPrev, whether _pInp is still set,
\* and (ghost) the position of the stream to which it would roll back.
Scopes == [start : {NotActive} \cup 0..InpMax, prev : 0..InpMax,
           hasInp : BOOLEAN, mark : 0..MaxBytes]

TypeOK ==
    /\ \A q \in {out, wire, inp} : IsNormal(q) /\ q.data \in Seq(1..MaxBytes)
    /\ want \in Sizes \cup {0}
    /\ accepted \in 0..MaxBytes
    /\ position \in 0..accepted
    /\ Len(scopes) <= MaxScopes /\ scopes \in Seq(Scopes)
    /\ broken \in BOOLEAN

Init ==
    /\ out = NewQueue(StackChunk, OutMax)
    /\ wire = NewQueue(WireChunk, WireMax)
    /\ inp = NewQueue(Lesser(InpMax \div 2, StackChunk), InpMax)
    /\ want = 0 /\ accepted = 0 /\ position = 0
    /\ scopes = <<>>
    /\ broken = FALSE

-----------------------------------------------------------------------------
(* The writer. *)

NextBytes(n) == [i \in 1..n |-> accepted + i]

(* Mutant: what was pushed on is never given up.                            *)
FlushUncommitted(filled) ==
    \E q \in {filled} : \E n \in {WriteQty(wire, ReadQty(q), FALSE)} :
        /\ wire' = WriteSpanQ(wire, SpanRead(q), FALSE)
        /\ out' = [q EXCEPT !.read = @ + n]

\* WriteFlush writes as much as the queue below takes; ReadCommitCheck may then
\* give it up.  The queue takes all there is room for at once, so a second turn
\* of the loop finds nothing to write or no room.
Flush(filled) ==
    \E q \in {filled} : \E n \in {WriteQty(wire, ReadQty(q), FALSE)} :
        /\ wire' = WriteSpanQ(wire, SpanRead(q), FALSE)
        /\ out' = IF n = 0 THEN q ELSE ReadCommitCheck([q EXCEPT !.read = @ + n])

\* The client has a packet to write and offers it until it is taken.
Offer(n) ==
    /\ want = 0
    /\ accepted + n <= MaxBytes
    /\ want' = n
    /\ UNCHANGED <<out, wire, inp, accepted, position, scopes, broken>>

\* WriteX takes the whole packet or answers WSAEWOULDBLOCK, and then it
\* pushes nothing on.
WriteX ==
    /\ want # 0
    /\ WriteQty(out, want, TRUE) = want
    /\ Flush(WriteSpanQ(out, NextBytes(want), TRUE))
    /\ want' = 0
    /\ accepted' = accepted + want
    /\ UNCHANGED <<inp, position, scopes, broken>>

WouldBlock ==
    /\ want # 0
    /\ WriteQty(out, want, TRUE) < want
    /\ out' = WriteSpanQ(out, NextBytes(want), TRUE)
    /\ UNCHANGED <<wire, inp, want, accepted, position, scopes, broken>>

\* A write of nothing pushes on what is left.
WriteNothing ==
    /\ Flush(out)
    /\ UNCHANGED <<inp, want, accepted, position, scopes, broken>>

-----------------------------------------------------------------------------
(* The reader's stack. *)

\* How much of n bytes is no whole block.
Over(n) == n % Block

(* Mutant: what is no whole block is not put back.                          *)
PutBackNothing(n) == 0

\* How much of n bytes that were read goes back to the wire, ...
PutBack(n) == Over(n)

(* Mutant: all that was read is kept.                                       *)
KeptAll(n) == n

\* ... and how much of them AdvanceWrite keeps.
Kept(n) == n - Over(n)

\* ReadFillAligned reads, in a transaction of its own, what there is room for.
ReadFillAligned ==
    \E grown \in {GetWritePrep(inp, inp.grow)}, trans \in {AutoReadCommit(wire, 0)} :
    \E room \in {WriteSpaceQty(grown) - Over(WriteSpaceQty(grown))} :
    \E got \in {Lesser(room, ReadQty(trans))} :
    \E done \in {ReadSpanQ(trans, got)} :
    \E backed \in {SeekQ(done, done.read - PutBack(got))} :
        /\ inp' = AdvanceWrite(grown, SubSeq(SpanRead(trans), 1, Kept(got)))
        /\ wire' = IF room = 0 THEN wire ELSE AutoReadCommit(backed, wire.commit)
        /\ UNCHANGED <<out, want, accepted, position, scopes, broken>>

-----------------------------------------------------------------------------
(* The reader.  Its scopes are C++ scopes, so the last opened ends first. *)

Innermost == scopes[Len(scopes)]
SetInnermost(scope) == scopes' = [scopes EXCEPT ![Len(scopes)] = scope]

ReadX(n) ==
    /\ inp' = ReadSpanQ(inp, n)
    /\ position' = position + Lesser(n, ReadQty(inp))
    /\ UNCHANGED <<out, wire, want, accepted, scopes, broken>>

Open(opened) ==
    /\ Len(scopes) < MaxScopes
    /\ scopes' = Append(scopes, [start |-> inp.read, prev |-> inp.commit,
                                 hasInp |-> TRUE, mark |-> position])
    /\ inp' = opened
    /\ UNCHANGED <<out, wire, want, accepted, position, broken>>

(* Mutant: the stream goes on to commit what is read.                       *)
BeginCommits == Open(inp)

\* cStreamTransaction's constructor
Begin == Open(AutoReadCommit(inp, 0))

SetTransactionComplete ==
    /\ scopes # <<>>
    /\ SetInnermost([Innermost EXCEPT !.start = NotActive])
    /\ UNCHANGED <<out, wire, inp, want, accepted, position, broken>>

\* The client may keep a part of what it has read.
SetTransactionPartial(n) ==
    /\ scopes # <<>>
    /\ Innermost.start # NotActive
    /\ Innermost.start + n <= inp.read
    /\ SetInnermost([Innermost EXCEPT !.start = @ + n, !.mark = @ + n])
    /\ UNCHANGED <<out, wire, inp, want, accepted, position, broken>>

SetTransactionFailed ==
    /\ scopes # <<>>
    /\ SetInnermost([Innermost EXCEPT !.hasInp = FALSE])
    /\ broken' = (broken \/ Len(scopes) = 1)
    /\ UNCHANGED <<out, wire, inp, want, accepted, position>>

\* The destructor rolls back what was not declared complete and lets the
\* stream commit again; after a failure it does neither.
RollsBack == Innermost.hasInp /\ Innermost.start # NotActive

TransactionRollback ==
    IF RollsBack /\ inp.read # Innermost.start THEN SeekQ(inp, Innermost.start) ELSE inp

Close(commit) ==
    /\ scopes # <<>>
    /\ \E q \in {TransactionRollback} :
          inp' = IF Innermost.hasInp THEN AutoReadCommit(q, commit) ELSE inp
    /\ position' = IF RollsBack THEN Innermost.mark ELSE position
    /\ scopes' = SubSeq(scopes, 1, Len(scopes) - 1)
    /\ UNCHANGED <<out, wire, want, accepted, broken>>

(* Mutant: the default comes back, not what was there before.               *)
EndRestoresDefault == Close(inp.grow \div 2)

End == Close(Innermost.prev)

-----------------------------------------------------------------------------
ReadSome == \E n \in ReadSizes : ReadX(n)

Next ==
    \/ \E n \in Sizes : Offer(n)
    \/ WriteX \/ WouldBlock \/ WriteNothing
    \/ ReadFillAligned
    \/ ReadSome
    \/ Begin \/ SetTransactionComplete \/ SetTransactionFailed \/ End
    \/ \E n \in ReadSizes : SetTransactionPartial(n)

Spec == Init /\ [][Next]_vars

\* The writer offers its packet again and again and pushes on in between, the
\* stack is filled, and the reader ends its transactions and comes back to
\* reading for good.
FairSpec ==
    /\ Spec
    /\ WF_vars(WriteX) /\ WF_vars(WriteNothing) /\ WF_vars(ReadFillAligned)
    /\ WF_vars(End)
    /\ SF_vars(scopes = <<>> /\ ReadSome)

-----------------------------------------------------------------------------
(* Properties. *)

\* Nothing is lost, doubled or reordered on its way, whatever was grown,
\* committed, put back or rolled back: what can still be read is what was
\* accepted and not read, in order.
NothingLost ==
    TypeOK /\ SpanRead(inp) \o SpanRead(wire) \o SpanRead(out)
        = [i \in 1..(accepted - position) |-> position + i]

\* The position an open transaction has noted still means the same byte, so
\* that it can be rolled back: no call that happens inside it, a transaction
\* inside it included, commits what it has read.
RollbackIsPossible ==
    \A i \in 1..Len(scopes) :
        (scopes[i].hasInp /\ scopes[i].start # NotActive)
            => inp.read - scopes[i].start = position - scopes[i].mark

\* A block that is not whole stays on the wire.
BlocksAreWhole == (position + ReadQty(inp)) % Block = 0

\* The reader's stream commits what is read if and only if no transaction is
\* open, unless the outermost one was declared failed, which leaves it so for
\* good; a failure declared inside another transaction does no harm.  Between
\* two calls the wire always commits.
CommitComesBack ==
    /\ wire.commit = wire.grow \div 2
    /\ ~broken => inp.commit = (IF scopes = <<>> THEN inp.grow \div 2 ELSE 0)

\* A packet that is offered is taken sooner or later, unless a failed
\* transaction has switched off the commit of the reader's stream.
PacketIsTaken == (want # 0) ~> (want = 0 \/ broken)
=============================================================================
