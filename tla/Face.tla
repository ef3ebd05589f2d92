-------------------------------- MODULE Face --------------------------------
(***************************************************************************)
(* The NDN face of src/ndn/ndnsuit (face.go, pit.go, itimer.go) with those *)
(* who use it: consumers that send an Interest and wait for one answer     *)
(* (consumer.go), and the mixer (mixer.go) that takes incoming Interests   *)
(* and closes the face.                                                    *)
(*                                                                         *)
(* run reads packets, tickerloop times Interests out, and a consumer whose *)
(* write fails answers the Interests of its name itself; all three send on *)
(* the answer channels, of capacity one.  Contents are left out: an answer *)
(* is a count.  An Interest object is used again, as a new one, when       *)
(* nothing refers to it.  The mixer announces its prefix as a consumer;    *)
(* while it waits for the answer it takes nothing from recv: no fairness   *)
(* is assumed of it before it closes the face.                             *)
(***************************************************************************)
EXTENDS Naturals, Sequences, Functions

CONSTANTS
  Interests,  \* bound: the Interests that may be pending at a time
  Names,
  NameOf,     \* the name of each Interest
  RecvCap,    \* the capacity of recv, INTEREST_BUFFER_SIZE
  None        \* no Interest, or no name

ASSUME FaceAssumption ==
  /\ NameOf \in [Interests -> Names]
  /\ RecvCap \in Nat \ {0}
  /\ None \notin Interests \cup Names /\ "run" \notin Interests \cup {None}

VARIABLES
  st,     \* the consumer of each Interest
  ch,     \* the answers in the channel of each Interest
  pilist, \* the pending Interests of each name
  ts,     \* the timer queue, in the order of the time of expiry
  sat,    \* pi.satisfied
  owner,  \* who holds the mutex of the pit: None, "run" or a consumer
  cur, sent, todo,  \* satisfy: the Interest at hand, whether its answer was
                    \* sent, and the rest of the list
  rpc, rn,          \* run: its place, and the name of the packet
  tpc, texp, tnew,  \* refresh: the expired ones still to do, and newpil
  mpc, recv,        \* the mixer's run, and the Interests in recv
  quit,   \* the face is closed
  raced   \* history: Interests inserted while refresh rewrites their list

pit == <<pilist, ts, sat, raced>>
satv == <<owner, cur, sent, todo>>
runv == <<rpc, rn>>
tickv == <<tpc, texp, tnew>>
mixv == <<mpc, recv, quit>>
vars == <<st, ch, pit, satv, runv, tickv, mixv>>

\* NewMixer, and NewFace
Init ==
  /\ st = [i \in Interests |-> "gone"] /\ ch = [i \in Interests |-> 0]
  /\ pilist = [n \in Names |-> {}] /\ ts = <<>> /\ sat = {}
  /\ owner = None /\ cur = None /\ sent = FALSE /\ todo = {}
  /\ rpc = "read" /\ rn = None
  /\ tpc = "select" /\ texp = <<>> /\ tnew = {}
  /\ mpc = "select" /\ recv = 0 /\ quit = FALSE
  /\ raced = {}

-----------------------------------------------------------------------------
(* A consumer: AsyncSendInterest, and the wait for the answer *)

\* read: the write has failed, its error is in the channel
Waiting == {"wait", "read"}

Free(i) ==
  /\ st[i] = "gone"
  /\ i \notin Range(ts) \cup Range(texp) \cup tnew \cup pilist[NameOf[i]]
  /\ i \notin todo \cup {cur}

\* newpInterest, and insert, which takes the mutex of the timer queue as well
Send(i) ==
  /\ Free(i) /\ owner = None /\ tpc # "check"
  /\ st' = [st EXCEPT ![i] = "wait"] /\ ch' = [ch EXCEPT ![i] = 0]
  /\ pilist' = [pilist EXCEPT ![NameOf[i]] = @ \cup {i}]
  /\ ts' = Append(ts, i) /\ sat' = sat \ {i}
  /\ raced' = IF tpc = "write" /\ NameOf[Head(texp)] = NameOf[i]
                THEN raced \cup {i} ELSE raced \ {i}
  /\ UNCHANGED <<satv, runv, tickv, mixv>>

\* writer.Write has failed; when it succeeds, the consumer is waiting already
WriteFails(i) ==
  /\ st[i] = "wait"
  /\ st' = [st EXCEPT ![i] = "failed"]
  /\ UNCHANGED <<ch, pit, satv, runv, tickv, mixv>>

\* The outcome is received
Receive(i) ==
  /\ st[i] \in Waiting /\ ch[i] > 0
  /\ st' = [st EXCEPT ![i] = "gone"] /\ ch' = [ch EXCEPT ![i] = @ - 1]
  /\ UNCHANGED <<pit, satv, runv, tickv, mixv>>

\* quit of the caller is closed: nobody will read the channel
Abort(i) ==
  /\ st[i] \in Waiting
  /\ st' = [st EXCEPT ![i] = "gone"]
  /\ UNCHANGED <<ch, pit, satv, runv, tickv, mixv>>

-----------------------------------------------------------------------------
(* satisfy of the pit, by run or by a consumer whose write failed *)

Pick(s) == IF s = {} THEN {None} ELSE s

\* The list is read with the mutex held
Lock(a, n) ==
  /\ owner = None
  /\ owner' = a /\ UNCHANGED sent
  /\ cur' \in Pick(pilist[n]) /\ todo' = pilist[n] \ {cur'}

FailLock(i) ==
  /\ st[i] = "failed" /\ Lock(i, NameOf[i])
  /\ st' = [st EXCEPT ![i] = "answer"]
  /\ UNCHANGED <<ch, pit, runv, tickv, mixv>>

\* satisfy of the Interest: the send blocks while the channel is full
Answer ==
  /\ cur # None /\ ~sent /\ ch[cur] = 0
  /\ ch' = [ch EXCEPT ![cur] = 1] /\ sent' = TRUE
  /\ UNCHANGED <<st, pit, owner, cur, todo, runv, tickv, mixv>>

\* gone, and on to the next one
Gone ==
  /\ sent
  /\ sat' = sat \cup {cur} /\ sent' = FALSE
  /\ cur' \in Pick(todo) /\ todo' = todo \ {cur'}
  /\ UNCHANGED <<st, ch, pilist, ts, raced, owner, runv, tickv, mixv>>

\* The name the holder of the mutex is answering
OwnerName == IF owner = "run" THEN rn ELSE NameOf[owner]

\* delete, and the unlock
Unlock ==
  /\ owner # None /\ cur = None
  /\ pilist' = [pilist EXCEPT ![OwnerName] = {}]
  /\ owner' = None
  /\ IF owner = "run" THEN rpc' = "read" /\ rn' = None /\ UNCHANGED st
                      ELSE st' = [st EXCEPT ![owner] = "read"] /\ UNCHANGED runv
  /\ UNCHANGED <<ch, ts, sat, raced, cur, sent, todo, tickv, mixv>>

-----------------------------------------------------------------------------
(* run of the face *)

\* A Data or a Nack
ReadAnswer(n) ==
  /\ rpc = "read" /\ ~quit
  /\ rpc' = "lock" /\ rn' = n
  /\ UNCHANGED <<st, ch, pit, satv, tickv, mixv>>

RunLock ==
  /\ rpc = "lock" /\ Lock("run", rn)
  /\ rpc' = "satisfy"
  /\ UNCHANGED <<st, ch, pit, rn, tickv, mixv>>

\* An Interest, which goes to recv
ReadInterest ==
  /\ rpc = "read" /\ ~quit
  /\ rpc' = "recv"
  /\ UNCHANGED <<st, ch, pit, satv, rn, tickv, mixv>>

SendRecv ==
  /\ rpc = "recv" /\ recv < RecvCap
  /\ recv' = recv + 1 /\ rpc' = "read"
  /\ UNCHANGED <<st, ch, pit, satv, rn, tickv, mpc, quit>>

\* The connection is closed, or broken: recv is closed
RunEnds ==
  /\ rpc = "read"
  /\ rpc' = "ended"
  /\ UNCHANGED <<st, ch, pit, satv, rn, tickv, mixv>>

-----------------------------------------------------------------------------
(* tickerloop of the face *)

\* On to the expired ones in e
TickNext(e) == texp' = e /\ tpc' = IF e = <<>> THEN "select" ELSE "send"

\* checkexpiring takes the first of the queue: one that is gone, or one whose
\* time is over, which goes to the expired ones
tickTakeAnew ==
  /\ tpc \in {"select", "check"} /\ ts # <<>>
  /\ ts' = Tail(ts) /\ tpc' = "check"
  /\ texp' = IF Head(ts) \in sat THEN texp ELSE <<Head(ts)>>
  /\ UNCHANGED <<st, ch, pilist, sat, raced, satv, runv, tnew, mixv>>

TickTake ==
  /\ tpc \in {"select", "check"} /\ ts # <<>>
  /\ ts' = Tail(ts) /\ tpc' = "check"
  /\ texp' = IF Head(ts) \in sat THEN texp ELSE Append(texp, Head(ts))
  /\ UNCHANGED <<st, ch, pilist, sat, raced, satv, runv, tnew, mixv>>

\* It stops at one that is not gone, and whose time is not over
TickStop ==
  /\ tpc = "check" /\ (ts # <<>> => Head(ts) \notin sat)
  /\ TickNext(texp)
  /\ UNCHANGED <<st, ch, pit, satv, runv, tnew, mixv>>

\* satisfy with ErrTimeout, without the mutex of the pit
TickAnswer ==
  /\ tpc = "send" /\ ch[Head(texp)] = 0
  /\ ch' = [ch EXCEPT ![Head(texp)] = 1]
  /\ tpc' = "gone"
  /\ UNCHANGED <<st, pit, satv, runv, texp, tnew, mixv>>

\* gone, and the list without those that are gone
tickReadNone ==
  /\ tpc = "gone"
  /\ sat' = sat \cup {Head(texp)}
  /\ tnew' = {}
  /\ tpc' = "write"
  /\ UNCHANGED <<st, ch, pilist, ts, raced, satv, runv, texp, mixv>>

TickRead ==
  /\ tpc = "gone"
  /\ sat' = sat \cup {Head(texp)}
  /\ tnew' = pilist[NameOf[Head(texp)]] \ sat'
  /\ tpc' = "write"
  /\ UNCHANGED <<st, ch, pilist, ts, raced, satv, runv, texp, mixv>>

\* The new list replaces what satisfy and insert have made of the old one
tickWriteLast ==
  /\ tpc = "write"
  /\ pilist' = [pilist EXCEPT ![NameOf[Head(texp)]] = tnew]
  /\ TickNext(<<>>) /\ tnew' = {}
  /\ UNCHANGED <<st, ch, ts, sat, raced, satv, runv, mixv>>

TickWrite ==
  /\ tpc = "write"
  /\ pilist' = [pilist EXCEPT ![NameOf[Head(texp)]] = tnew]
  /\ TickNext(Tail(texp)) /\ tnew' = {}
  /\ UNCHANGED <<st, ch, ts, sat, raced, satv, runv, mixv>>

tickEndsIdle ==
  /\ tpc = "select" /\ quit /\ ts = <<>>
  /\ tpc' = "ended"
  /\ UNCHANGED <<st, ch, pit, satv, runv, texp, tnew, mixv>>

TickEnds ==
  /\ tpc = "select" /\ quit
  /\ tpc' = "ended"
  /\ UNCHANGED <<st, ch, pit, satv, runv, texp, tnew, mixv>>

-----------------------------------------------------------------------------
(* The mixer *)

\* handle: a producer hands the Interest to its workers
Handle ==
  /\ mpc = "select" /\ recv > 0
  /\ recv' = recv - 1
  /\ UNCHANGED <<st, ch, pit, satv, runv, tickv, mpc, quit>>

\* Stop was called, and the select of run takes the case of quit: Close
CloseFace ==
  /\ mpc = "select" /\ ~quit
  /\ quit' = TRUE /\ mpc' = "close"
  /\ UNCHANGED <<st, ch, pit, satv, runv, tickv, recv>>

\* Close waits for run and tickerloop
Closed ==
  /\ mpc = "close" /\ rpc = "ended" /\ tpc = "ended"
  /\ mpc' = "select"
  /\ UNCHANGED <<st, ch, pit, satv, runv, tickv, recv, quit>>

\* recv is closed and empty
MixerEnds ==
  /\ mpc = "select" /\ rpc = "ended" /\ recv = 0
  /\ mpc' = "ended"
  /\ UNCHANGED <<st, ch, pit, satv, runv, tickv, recv, quit>>

-----------------------------------------------------------------------------
Satisfy == Answer \/ Gone \/ Unlock
RunStep == RunLock \/ SendRecv
TickStep == TickStop \/ TickAnswer \/ TickRead \/ TickWrite
MixerStep == Handle \/ CloseFace \/ Closed \/ MixerEnds

Next ==
  \/ \E i \in Interests :
       Send(i) \/ WriteFails(i) \/ Receive(i) \/ Abort(i) \/ FailLock(i)
  \/ \E n \in Names : ReadAnswer(n)
  \/ Satisfy \/ RunStep \/ ReadInterest \/ RunEnds
  \/ TickTake \/ TickStep \/ TickEnds
  \/ MixerStep

\* The goroutines run; time passes; a consumer takes what is in its channel; all
\* get the mutex in turn, and select takes the case of quit in the end.  Nothing
\* is assumed of the network, nor of the mixer before it closes the face
Fairness ==
  /\ \A i \in Interests : WF_vars(Receive(i)) /\ SF_vars(FailLock(i))
  /\ WF_vars(Satisfy) /\ SF_vars(RunLock) /\ WF_vars(SendRecv)
  /\ WF_vars(quit /\ RunEnds)
  /\ WF_vars(TickTake) /\ WF_vars(TickStep) /\ SF_vars(TickEnds)
  /\ WF_vars(Closed)

Spec == Init /\ [][Next]_vars /\ Fairness

-----------------------------------------------------------------------------
\* Types, and the capacities of the channels.
PitTypes ==
  /\ st \in [Interests -> Waiting \cup {"gone", "failed", "answer"}]
  /\ ch \in [Interests -> 0..1]
  /\ pilist \in [Names -> SUBSET Interests]
  /\ ts \in Seq(Interests) /\ sat \subseteq Interests /\ raced \subseteq Interests

RunTypes ==
  /\ owner \in Interests \cup {"run", None}
  /\ cur \in Interests \cup {None} /\ sent \in BOOLEAN /\ todo \subseteq Interests
  /\ rpc \in {"read", "lock", "satisfy", "recv", "ended"}
  /\ rn \in Names \cup {None} /\ (rpc = "lock" => rn \in Names)
  /\ tpc \in {"select", "check", "send", "gone", "write", "ended"}
  /\ texp \in Seq(Interests) /\ tnew \subseteq Interests
  /\ mpc \in {"select", "close", "ended"}
  /\ recv \in 0..RecvCap /\ quit \in BOOLEAN

TypeOK == PitTypes /\ RunTypes

Sending(i) == (cur = i /\ ~sent) \/ (tpc = "send" /\ Head(texp) = i)

\* Where the code blocks for ever.  An Interest is answered twice and nobody will
\* take the first answer: its consumer has left, or is itself on the way to
\* answer the Interests of its name, and the mutex it needs or holds is the one
\* the second answer is sent under.
Jam(i) ==
  /\ ch[i] = 1
  /\ \/ st[i] = "gone" /\ Sending(i)
     \/ st[i] \in {"failed", "answer"} /\ cur = i /\ ~sent

Jammed == \E i \in Interests : Jam(i)

\* Close, called by the mixer, waits for run, and run for room in recv, which
\* only the mixer makes.
RecvJam == mpc = "close" /\ rpc = "recv" /\ recv = RecvCap

\* The pit never loses sight of an Interest whose consumer is waiting: there is
\* an answer in its channel, or it is still in the timer queue, among the
\* expired ones that refresh is going through, or the one satisfy is answering.
Attended == \A i \in Interests :
  st[i] \in Waiting /\ ch[i] = 0 =>
    i \in Range(ts) \cup Range(texp) \/ (cur = i /\ ~sent)

\* An Interest that is not gone is in the list of its name, so that a Data for
\* the name reaches it, though refresh rewrites the list without the mutex of the
\* pit.  The exception is an Interest that insert adds between the reading and
\* the writing of the list by refresh: it can only time out.
PendingListed == \A i \in Interests :
  st[i] \in Waiting /\ i \notin sat => i \in pilist[NameOf[i]] \cup raced

\* The strengthening that makes the two inductive.  An answer that was sent stays
\* in the channel until the consumer takes it and leaves; ...
Answered(i) == st[i] = "gone" \/ ch[i] = 1

Sent ==
  /\ \A i \in sat : Answered(i)
  /\ sent => cur # None /\ Answered(cur)
  /\ tpc \in {"send", "gone", "write"} => texp # <<>>
  /\ tpc \in {"gone", "write"} => Answered(Head(texp))

\* ... the mutex has the holder it names; ...
Held ==
  /\ (owner = None => cur = None) /\ (cur = None => todo = {})
  /\ owner \in Interests => st[owner] = "answer"
  /\ owner = "run" => rpc = "satisfy" /\ rn \in Names

\* ... Attended, and PendingListed, of a consumer that has not read yet; ...
Kept == \A i \in Interests : ~Answered(i) =>
  i \in Range(ts) \cup Range(texp) \/ (cur = i /\ ~sent)

Pending(n) == {i \in Interests \ (sat \cup raced) : st[i] # "gone" /\ NameOf[i] = n}

Listed == \A n \in Names : Pending(n) \subseteq pilist[n]

\* ... what the holder of the mutex will answer, and what refresh will write.
Copied ==
  /\ owner # None => Pending(OwnerName) \subseteq todo \cup {cur}
  /\ tpc = "write" => Pending(NameOf[Head(texp)]) \subseteq tnew

FaceInv == TypeOK /\ Sent /\ Held /\ Kept /\ Listed /\ Copied

\* Nobody waits for ever on the channel that AsyncSendInterest has returned,
\* whatever the network does, unless the face is closed or somebody is jammed.
AnswerComes == \A i \in Interests : []<>(st[i] \notin Waiting \/ quit \/ Jammed)

\* Close of the face returns: run and tickerloop end, unless one of them is
\* jammed, or run is blocked on recv.
FaceCloses == []<>(mpc = "close" => Jammed \/ RecvJam)
=============================================================================
