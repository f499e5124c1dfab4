------------------------ MODULE CommandStream_proofs ------------------------
(***************************************************************************)
(* Theorems about a terminal page that follows a command, for any number   *)
(* of sockets and broker entries, any output, ring, window and resync       *)
(* limit: the console shows only what the command wrote, every live entry   *)
(* is one that can be taken back, and a page that knows of the exit has all *)
(* of the output, as has every page once nothing is in flight.              *)
(*                                                                         *)
(* None of it is inductive.  The argument follows the offsets.  The queue   *)
(* of operations keeps the log file at most one chunk ahead of what has     *)
(* been published (ServiceInv, LogInv).  An entry in its handshake has      *)
(* buffered exactly the last events, back to the count its snapshot will    *)
(* end at (BufferInv); so the reply and what a live entry adds to it        *)
(* continue each other on the wire, and the wire continues the client       *)
(* (StreamInv).                                                             *)
(***************************************************************************)
EXTENDS CommandStream, SequenceTheorems, WellFoundedInduction, TLAPS

Pending == {"session", "state", "log"}

\* The chunks published so far, and whether the exit has been.
ExitSaid  == command.done > command.written
Published == IF ExitSaid THEN command.written ELSE command.done

\* Where each operation of the queue stands.
ServiceInv ==
    /\ command.done <= command.written + 1
    /\ ExitSaid => command.ended /\ command.op = "idle"
    /\ command.op = "idle" => record.bytes = Published /\ file.to = Published
    /\ command.op \in {"trim", "rewrite", "commit"} =>
          /\ command.done < command.written
          /\ file.to = command.done + 1 /\ record.bytes = command.done
    /\ command.op = "publish" =>
          /\ command.done < command.written
          /\ file.to = command.done + 1 /\ record.bytes = command.done + 1
    /\ command.op = "status" =>
          /\ command.done = command.written /\ command.ended
          /\ file.to = command.written /\ record.bytes = command.written
    /\ record.status = "exited" <=> (command.op = "status" \/ ExitSaid)

\* What the log file starts at once a rewrite in progress is through.
Floor == IF command.op = "rewrite" THEN file.to - Retain ELSE file.from

\* The file, and the counts the record and a poll keep of it.
LogInv ==
    /\ file.from <= file.to
    /\ command.op \notin {"trim", "rewrite"} => file.to - file.from <= Retain
    /\ command.op = "trim" => file.to - file.from = Retain + 1
    /\ command.op = "rewrite" => file.from = file.to /\ file.to > Retain
    /\ record.kept <= record.bytes /\ record.bytes - record.kept <= Floor
    /\ poll.kept <= poll.bytes /\ poll.bytes - poll.kept <= Floor
    /\ poll.bytes <= record.bytes

\* Entries and sockets name each other, and a counter of 0 installs nothing.
EntryOK(h) ==
    /\ sink[h].pc = "none" <=> sink[h].socket = NoSocket
    /\ sink[h].pc \in Pending => sink[h].generation >= 1
    /\ sink[h].pc = "live" =>
          conn[sink[h].socket].server /\ conn[sink[h].socket].sub = h

SocketOK(s) ==
    /\ \A h \in Sinks : conn[s].sub = h => sink[h].pc = "live" /\ sink[h].socket = s
    /\ conn[s].handshake # 0 => conn[s].sub = NoSink
    /\ ~conn[s].server => conn[s].handshake = 0 /\ conn[s].sub = NoSink /\ ~conn[s].link
    /\ ~conn[s].link => conn[s].up = <<>> /\ conn[s].down = <<>>

EntriesInv == (\A h \in Sinks : EntryOK(h)) /\ (\A s \in Sockets : SocketOK(s))

\* The client believes what its socket is; an opening socket is untouched.
ClientInv ==
    /\ client.base => client.on
    /\ client.socket = NoSocket => ~client.base /\ client.state # "connected"
    /\ client.socket # NoSocket =>
          /\ conn[client.socket].browser # "none"
          /\ client.state = "connected" <=> conn[client.socket].browser = "open"
    /\ \A s \in Sockets : conn[s].browser = "opening" =>
          /\ conn[s].up = <<>> /\ conn[s].down = <<>>
          /\ \A h \in Sinks : sink[h].socket # s

\* What is true of every message on a wire, whenever it was sent.
TrueText(text, end) == file.from = 0 => text = Bytes(end - Len(text), end)

MessageOK(m) ==
    /\ m.end <= file.to
    /\ m.status = "exited" => record.status = "exited"
    /\ m.type = "output" => m = Output(m.end) /\ m.end <= Published
    /\ m.type = "status" => m = StatusMessage("exited") /\ ExitSaid
    /\ m.type = "snapshot" =>
          /\ m.status = "exited" => m.end = command.written
          /\ TrueText(m.text, m.end)

WiresInv ==
    /\ \A s \in Sockets : \A i \in 1 .. Len(conn[s].down) : MessageOK(conn[s].down[i])
    /\ client.status = "exited" => record.status = "exited"
    /\ client.base => client.end \in Offsets /\ client.end <= file.to

ScreenInv ==
    /\ file.from = 0 => record.kept = record.bytes /\ poll.kept = poll.bytes
    /\ poll.pc = "apply" => TrueText(poll.text, poll.end)
    /\ ShownIsTrue

\* The last n outputs and, if said, the exit behind them.
Recent(n, said) ==
    [i \in 1 .. (n + IF said THEN 1 ELSE 0) |->
        IF i <= n THEN Output(Published - n + i) ELSE StatusMessage("exited")]

\* An entry in its handshake misses nothing from the count it reads.
BufferOK(h) ==
    /\ \E n \in 0 .. Published, said \in BOOLEAN :
          /\ said => ExitSaid
          /\ sink[h].buffer = Recent(n, said)
          /\ sink[h].pc = "log" => sink[h].bytes >= Published - n
          /\ sink[h].pc = "log" /\ ExitSaid => said \/ sink[h].status = "exited"
    /\ sink[h].pc = "log" =>
          /\ sink[h].bytes <= record.bytes
          /\ sink[h].status = "exited" =>
                record.status = "exited" /\ sink[h].bytes = command.written

BufferInv ==
    \A h \in Sinks :
        sink[h].pc \in Pending /\ conn[sink[h].socket].server => BufferOK(h)

\* A message continues an offset, or repeats its last chunk.
Continuing(end, m) ==
    \/ m.type = "snapshot"
    \/ m.type = "output" /\ end \in {m.end - 1, m.end}
    \/ m.type = "status" /\ end = command.written

Follows(a, b) == b.type = "snapshot" \/ (a.type # "status" /\ Continuing(a.end, b))

Current(end, status) ==
    end \in {Published, Published + 1} /\ (ExitSaid => status = "exited")

Attached(s) == \E h \in Sinks : sink[h].pc = "live" /\ sink[h].socket = s

Linked(wire) == \A i \in 1 .. Len(wire) - 1 : Follows(wire[i], wire[i + 1])

EndsCurrent(wire) ==
    LET last == wire[Len(wire)]
    IN  last.type = "status" \/ Current(last.end, last.status)

Mine(s) == client.socket = s /\ client.base

WireOK(s) ==
    /\ Linked(conn[s].down)
    /\ Mine(s) /\ conn[s].down # <<>> => Continuing(client.end, conn[s].down[1])
    /\ Attached(s) /\ conn[s].link =>
          /\ conn[s].down # <<>> => EndsCurrent(conn[s].down)
          /\ Mine(s) /\ conn[s].down = <<>> => Current(client.end, client.status)

StreamInv ==
    /\ \A s \in Sockets : WireOK(s)
    /\ client.base /\ client.status = "exited" => client.end = command.written

\* A subscribed page's last word to the server is "subscribe", and what answers
\* it is on its way: a live entry to be, and a snapshot while it has none.
Asking(s) == conn[s].up # <<>> /\ conn[s].up[Len(conn[s].up)] = "subscribe"
Joining(s) ==
    \E h \in Sinks : /\ sink[h].pc \in Pending /\ sink[h].socket = s
                     /\ sink[h].generation = conn[s].handshake
Coming(s) ==
    \/ \E h \in Sinks : sink[h].pc \in Pending /\ sink[h].socket = s
    \/ \E i \in 1 .. Len(conn[s].down) : conn[s].down[i].type = "snapshot"

Awaits(s) == /\ client.socket = s /\ client.on
             /\ client.state = "connected" /\ conn[s].link
Answered(s) ==
    \/ Asking(s)
    \/ /\ conn[s].up = <<>>
       /\ conn[s].sub # NoSink \/ Joining(s)
       /\ ~client.base => Coming(s)

AnswerInv == \A s \in Sockets : Awaits(s) => Answered(s)

StreamsInv ==
    /\ ServiceInv /\ LogInv /\ EntriesInv /\ ClientInv
    /\ WiresInv /\ ScreenInv /\ BufferInv /\ StreamInv /\ AnswerInv

-----------------------------------------------------------------------------
(***************************************************************************)
(* Induction, in the form the provers can apply: over a set of numbers.    *)
(***************************************************************************)

LessThan == {p \in Nat \X Nat : p[1] < p[2]}

LEMMA LessThanIsWellFounded == IsWellFoundedOn(LessThan, Nat)
BY NatLessThanWellFounded DEF OpToRel, LessThan

LEMMA SetInduction ==
  ASSUME NEW S, 0 \in S, \A n \in Nat : n \in S => n + 1 \in S
  PROVE  Nat \subseteq S
<1> SUFFICES ASSUME ~(Nat \subseteq S) PROVE FALSE
  OBVIOUS
<1> DEFINE T == Nat \ S
<1>1. T \subseteq Nat /\ T # {}
  OBVIOUS
<1> HIDE DEF T
<1>2. PICK x \in T : \A y \in T : ~(<<y, x>> \in LessThan)
  BY LessThanIsWellFounded, <1>1, WFMin
<1>3. x \in Nat /\ x \notin S /\ x # 0
  BY DEF T
<1>4. x - 1 \in Nat
  BY <1>3
<1>5. <<x - 1, x>> \in LessThan
  BY <1>3, <1>4 DEF LessThan
<1>6. x - 1 \in S
  BY <1>2, <1>4, <1>5 DEF T
<1> QED
  BY <1>3, <1>4, <1>6

(***************************************************************************)
(* The replay loop of the broker.  What it computes is the one function     *)
(* that satisfies its recursion.                                            *)
(***************************************************************************)

LEMMA UncoveredIs ==
  ASSUME NEW b, NEW snap, Len(b) \in Nat, NEW g,
         g = [i \in 0 .. Len(b) |->
                IF i = 0 THEN <<>>
                ELSE IF IsCoveredBySnapshot(b[i], snap) THEN g[i - 1]
                ELSE Append(g[i - 1], b[i])]
  PROVE  Uncovered(b, snap) = g[Len(b)]
<1> DEFINE Loop(f) == [i \in 0 .. Len(b) |->
                         IF i = 0 THEN <<>>
                         ELSE IF IsCoveredBySnapshot(b[i], snap) THEN f[i - 1]
                         ELSE Append(f[i - 1], b[i])]
           rest == CHOOSE f : f = Loop(f)
<1>1. Uncovered(b, snap) = rest[Len(b)]
  BY DEF Uncovered
<1>2. g = Loop(g)
  BY Zenon
<1>3. rest = Loop(rest)
  BY <1>2, Zenon
<1> HIDE DEF rest
<1> DEFINE S == {n \in Nat : n <= Len(b) => rest[n] = g[n]}
<1>4. 0 \in S
  BY <1>2, <1>3
<1>5. ASSUME NEW n \in Nat, n \in S PROVE n + 1 \in S
  <2> SUFFICES ASSUME n + 1 <= Len(b) PROVE rest[n + 1] = g[n + 1]
    OBVIOUS
  <2>1. n + 1 \in 0 .. Len(b) /\ n + 1 # 0 /\ (n + 1) - 1 = n
    OBVIOUS
  <2>2. rest[n] = g[n]
    BY <1>5
  <2>3. rest[n + 1] = IF IsCoveredBySnapshot(b[n + 1], snap) THEN rest[n]
                      ELSE Append(rest[n], b[n + 1])
    BY <1>3, <2>1
  <2>4. g[n + 1] = IF IsCoveredBySnapshot(b[n + 1], snap) THEN g[n]
                   ELSE Append(g[n], b[n + 1])
    BY <1>2, <2>1
  <2> QED
    BY <2>2, <2>3, <2>4
<1>6. Nat \subseteq S
  <2> HIDE DEF S
  <2> QED
    BY <1>4, <1>5, SetInduction
<1>7. Len(b) \in S
  BY <1>6
<1> QED
  BY <1>1, <1>7

LEMMA AppendIs ==
  ASSUME NEW S, NEW s \in Seq(S), NEW x
  PROVE  Append(s, x) = [i \in 1 .. Len(s) + 1 |-> IF i <= Len(s) THEN s[i] ELSE x]
<1> DEFINE t == Append(s, x)
<1>1. t \in Seq(S \cup {x})
  OBVIOUS
<1>2. Len(t) = Len(s) + 1 /\ t[Len(s) + 1] = x
  OBVIOUS
<1>3. \A i \in 1 .. Len(s) : t[i] = s[i]
  OBVIOUS
<1>4. Len(s) \in Nat
  OBVIOUS
<1> HIDE DEF t
<1>5. t = [i \in 1 .. Len(t) |-> t[i]]
  BY <1>1
<1> QED
  BY <1>2, <1>3, <1>4, <1>5 DEF t

LEMMA RecentItems ==
  ASSUME NEW n \in Nat, NEW said \in BOOLEAN
  PROVE  /\ Len(Recent(n, said)) = n + (IF said THEN 1 ELSE 0)
         /\ DOMAIN Recent(n, said) = 1 .. (n + IF said THEN 1 ELSE 0)
         /\ \A i \in 1 .. n : Recent(n, said)[i] = Output(Published - n + i)
         /\ said => Recent(n, said)[n + 1] = StatusMessage("exited")
<1>1. CASE said
  <2>1. Recent(n, said) = [i \in 1 .. n + 1 |-> IF i <= n THEN Output(Published - n + i)
                                                ELSE StatusMessage("exited")]
    BY <1>1, Zenon DEF Recent
  <2>2. n + 1 \in 1 .. n + 1 /\ ~(n + 1 <= n)
    OBVIOUS
  <2>3. Len(Recent(n, said)) = n + 1 /\ DOMAIN Recent(n, said) = 1 .. n + 1
    BY <2>1
  <2>4. Recent(n, said)[n + 1] = StatusMessage("exited")
    BY <2>1, <2>2
  <2>5. \A i \in 1 .. n : Recent(n, said)[i] = Output(Published - n + i)
    BY <2>1
  <2> QED
    BY <1>1, <2>3, <2>4, <2>5, Zenon
<1>2. CASE ~said
  <2>1. Recent(n, said) = [i \in 1 .. n + 0 |-> IF i <= n THEN Output(Published - n + i)
                                                ELSE StatusMessage("exited")]
    BY <1>2, Zenon DEF Recent
  <2> QED
    BY <1>2, <2>1
<1> QED
  BY <1>1, <1>2

LEMMA RecentParts ==
  ASSUME NEW n \in Nat
  PROVE  /\ Recent(n, FALSE) = [i \in 1 .. n |-> Output(Published - n + i)]
         /\ Recent(n, TRUE) = Append(Recent(n, FALSE), StatusMessage("exited"))
<1> DEFINE Outs == [i \in 1 .. n |-> Output(Published - n + i)]
           Whole == [i \in 1 .. n + 1 |-> IF i <= n THEN Output(Published - n + i)
                                           ELSE StatusMessage("exited")]
<1>1. Recent(n, FALSE) = Outs
  <2>1. Recent(n, FALSE) = [i \in 1 .. n + 0 |-> IF i <= n THEN Output(Published - n + i)
                                                  ELSE StatusMessage("exited")]
    BY Zenon DEF Recent
  <2>2. n + 0 = n /\ \A i \in 1 .. n : i <= n
    OBVIOUS
  <2> QED
    BY <2>1, <2>2
<1>2. Recent(n, TRUE) = Whole
  BY Zenon DEF Recent
<1>3. Len(Outs) = n /\ \A i \in 1 .. n : Outs[i] = Output(Published - n + i)
  OBVIOUS
<1>4. Append(Outs, StatusMessage("exited")) = Whole
  <2>1. Outs \in Seq({Output(Published - n + i) : i \in 1 .. n} \cup {StatusMessage("exited")})
    OBVIOUS
  <2>2. Append(Outs, StatusMessage("exited")) =
          [i \in 1 .. Len(Outs) + 1 |->
             IF i <= Len(Outs) THEN Outs[i] ELSE StatusMessage("exited")]
    <3> HIDE DEF Outs
    <3> QED
      BY <2>1, AppendIs
  <2> QED
    BY <1>3, <2>2
<1> QED
  BY <1>1, <1>2, <1>4

LEMMA MessageFields ==
  /\ \A x : /\ Output(x).type = "output" /\ Output(x).end = x
            /\ Output(x).status = "running" /\ Output(x).text = <<x>>
  /\ \A x : /\ StatusMessage(x).type = "status" /\ StatusMessage(x).end = 0
            /\ StatusMessage(x).status = x
  /\ \A x, y, z : /\ Snapshot(x, y, z).type = "snapshot" /\ Snapshot(x, y, z).end = y
                  /\ Snapshot(x, y, z).status = z /\ Snapshot(x, y, z).text = x
BY DEF Output, StatusMessage, Snapshot

\* A snapshot at or behind the buffer leaves the events after its own end.
LEMMA UncoveredRecent ==
  ASSUME NEW n \in Nat, NEW said \in BOOLEAN, NEW snap, Published \in Nat,
         n <= Published, snap.end \in Nat, snap.end >= Published - n,
         snap.status \in Statuses
  PROVE  Uncovered(Recent(n, said), snap) =
           Recent(IF snap.end < Published THEN Published - snap.end ELSE 0,
                  said /\ snap.status # "exited")
<1> DEFINE b == Recent(n, said)
           e == snap.end
           size == n + IF said THEN 1 ELSE 0
           skip == e - (Published - n)
           left == IF e < Published THEN Published - e ELSE 0
           Outs(k) == [j \in 1 .. k |-> Output(e + j)]
           Past(i) == IF i > skip THEN i - skip ELSE 0
           Final == IF snap.status = "exited" THEN Outs(Past(n))
                    ELSE Append(Outs(Past(n)), StatusMessage("exited"))
           g == [i \in 0 .. size |-> IF i <= n THEN Outs(Past(i)) ELSE Final]
<1>1. size \in Nat /\ Len(b) = size /\ skip \in Nat
  BY RecentItems
<1>2. \A i \in 1 .. n : b[i] = Output(Published - n + i)
  BY RecentItems, Zenon
<1>3. said => b[n + 1] = StatusMessage("exited")
  BY RecentItems, Zenon
<1> HIDE DEF b
<1>4. \A i \in 1 .. n : IsCoveredBySnapshot(b[i], snap) <=> i <= skip
  <2> TAKE i \in 1 .. n
  <2>1. /\ b[i].type = "output" /\ b[i].end = Published - n + i
    BY <1>2, MessageFields
  <2> QED
    BY <2>1 DEF IsCoveredBySnapshot
<1>5. said => (IsCoveredBySnapshot(b[n + 1], snap) <=> snap.status = "exited")
  <2> HAVE said
  <2>1. b[n + 1].type = "status" /\ b[n + 1].status = "exited"
    BY <1>3, MessageFields
  <2> QED
    BY <2>1 DEF IsCoveredBySnapshot
<1>6. ASSUME NEW i \in 1 .. n
      PROVE  Outs(Past(i)) = IF i <= skip THEN Outs(Past(i - 1))
                             ELSE Append(Outs(Past(i - 1)), b[i])
  <2>1. CASE i <= skip
    <3>1. Past(i) = 0 /\ Past(i - 1) = 0
      BY <2>1, <1>1
    <3> QED
      BY <2>1, <3>1, Zenon
  <2>2. CASE ~(i <= skip)
    <3>1. Past(i) = i - skip /\ Past(i - 1) = i - skip - 1 /\ i - skip - 1 \in Nat
      BY <2>2, <1>1
    <3>2. b[i] = Output(e + (i - skip))
      <4>1. Published - n + i = e + (i - skip)
        OBVIOUS
      <4> QED
        BY <1>2, <4>1
    <3> DEFINE k == i - skip - 1
    <3>3. i - skip = k + 1
      BY <3>1
    <3>4. Outs(k + 1) = Append(Outs(k), Output(e + (k + 1)))
      <4>1. k \in Nat
        BY <3>1
      <4> HIDE DEF k
      <4> QED
        BY <4>1
    <3> QED
      BY <2>2, <3>1, <3>2, <3>3, <3>4
  <2> QED
    BY <2>1, <2>2
<1>7. Past(0) = 0 /\ Past(n) = left /\ left \in Nat
  BY <1>1
<1>8. Outs(0) = <<>>
  OBVIOUS
<1>9. \A i \in 0 .. size : g[i] = IF i <= n THEN Outs(Past(i)) ELSE Final
  BY Zenon
<1>10. ASSUME NEW i \in 0 .. size
       PROVE  g[i] = IF i = 0 THEN <<>>
                     ELSE IF IsCoveredBySnapshot(b[i], snap) THEN g[i - 1]
                     ELSE Append(g[i - 1], b[i])
  <2> HIDE DEF g, Outs, Past, skip, Final
  <2>1. CASE i = 0
    BY <1>7, <1>8, <1>9, <2>1
  <2>2. CASE i \in 1 .. n
    <3>1. g[i] = Outs(Past(i)) /\ g[i - 1] = Outs(Past(i - 1))
      BY <1>1, <1>9, <2>2
    <3> QED
      BY <1>4, <1>6, <2>2, <3>1
  <2>3. CASE i > n
    <3>1. said /\ i = n + 1
      BY <2>3
    <3>2. g[i] = Final /\ g[i - 1] = Outs(Past(n))
      BY <1>1, <1>9, <3>1
    <3>3. Final = IF snap.status = "exited" THEN Outs(Past(n))
                  ELSE Append(Outs(Past(n)), StatusMessage("exited"))
      BY Zenon DEF Final
    <3> QED
      BY <1>3, <1>5, <3>1, <3>2, <3>3
  <2> QED
    BY <2>1, <2>2, <2>3
<1>11. Uncovered(b, snap) = g[size]
  <2>1. g = [i \in 0 .. size |-> g[i]]
    BY Zenon
  <2> HIDE DEF g
  <2>2. g = [i \in 0 .. Len(b) |->
               IF i = 0 THEN <<>>
               ELSE IF IsCoveredBySnapshot(b[i], snap) THEN g[i - 1]
               ELSE Append(g[i - 1], b[i])]
    BY <1>1, <1>10, <2>1, Zenon
  <2>3. Len(b) \in Nat
    BY <1>1
  <2>4. Uncovered(b, snap) = g[Len(b)]
    BY <2>2, <2>3, UncoveredIs, Zenon
  <2> QED
    BY <1>1, <2>4
<1>12. \A i \in 1 .. left : Output(e + i) = Output(Published - left + i)
  <2> TAKE i \in 1 .. left
  <2>1. e + i = Published - left + i
    OBVIOUS
  <2> QED
    BY <2>1
<1>13. Outs(left) = Recent(left, FALSE)
  <2>1. Outs(left) = [i \in 1 .. left |-> Output(Published - left + i)]
    <3> HIDE DEF left, e
    <3> QED
      BY <1>12, Zenon
  <2> HIDE DEF left, Outs
  <2> QED
    BY <1>7, <2>1, RecentParts
<1>14. Append(Outs(left), StatusMessage("exited")) = Recent(left, TRUE)
  <2> HIDE DEF left, Outs
  <2> QED
    BY <1>7, <1>13, RecentParts
<1>15. Uncovered(b, snap) = Recent(left, said /\ snap.status # "exited")
  <2>1. g[size] = IF said THEN Final ELSE Outs(left)
    <3> HIDE DEF g, Outs, Past, Final, left
    <3> QED
      BY <1>1, <1>7, <1>9
  <2>2. Final = IF snap.status = "exited" THEN Outs(left)
                ELSE Append(Outs(left), StatusMessage("exited"))
    <3> HIDE DEF Outs, Past, left
    <3> QED
      BY <1>7 DEF Final
  <2> HIDE DEF g, Final, Outs, left, size
  <2>3. CASE said /\ snap.status # "exited"
    <3>1. (said /\ snap.status # "exited") = TRUE
      BY <2>3
    <3> QED
      BY <1>11, <1>14, <2>1, <2>2, <2>3, <3>1
  <2>4. CASE ~(said /\ snap.status # "exited")
    <3>1. (said /\ snap.status # "exited") = FALSE
      BY <2>4
    <3> QED
      BY <1>11, <1>13, <2>1, <2>2, <2>4, <3>1
  <2> QED
    BY <2>3, <2>4
<1> QED
  BY <1>15 DEF b

-----------------------------------------------------------------------------
(***************************************************************************)
(* Types of the parts.                                                     *)
(***************************************************************************)

LEMMA Sizes ==
  /\ MaxOutput \in Nat /\ MaxOutput >= 1
  /\ Retain \in Nat /\ Retain >= 1
  /\ Window \in Nat /\ Window >= 1
  /\ MaxResyncs \in Nat /\ MaxMoves \in Nat
  /\ NoSocket \notin Sockets /\ NoSink \notin Sinks
BY SizesAssumption

LEMMA CommandTyped ==
  ASSUME command \in CommandState
  PROVE  /\ command.written \in Nat /\ command.written <= MaxOutput
         /\ command.ended \in BOOLEAN
         /\ command.done \in Nat /\ command.done <= MaxOutput + 1
         /\ command.op \in {"idle", "trim", "rewrite", "commit", "publish", "status"}
BY Sizes DEF CommandState, Offsets

LEMMA FileTyped ==
  ASSUME file \in FileState
  PROVE  file.from \in Nat /\ file.to \in Nat /\ file.from <= MaxOutput /\ file.to <= MaxOutput
BY Sizes DEF FileState, Offsets

LEMMA RecordTyped ==
  ASSUME record \in RecordState
  PROVE  /\ record.bytes \in Nat /\ record.bytes <= MaxOutput
         /\ record.kept \in Nat /\ record.kept <= MaxOutput
         /\ record.status \in Statuses
BY Sizes DEF RecordState, Offsets

LEMMA PollTyped ==
  ASSUME poll \in PollRead
  PROVE  /\ poll.bytes \in Nat /\ poll.bytes <= MaxOutput
         /\ poll.kept \in Nat /\ poll.kept <= MaxOutput
         /\ poll.end \in Nat /\ poll.end <= MaxOutput /\ poll.text \in Text
BY Sizes DEF PollRead, Offsets

LEMMA EntryTyped ==
  ASSUME NEW k \in Entry
  PROVE  /\ k.pc \in {"none", "session", "state", "log", "live"}
         /\ k.socket \in Sockets \cup {NoSocket} /\ k.generation \in Nat
         /\ k.wait \in Nat /\ k.bytes \in Nat /\ k.bytes <= MaxOutput
         /\ k.status \in Statuses /\ k.buffer \in Seq(Message)
BY Sizes DEF Entry, Offsets

LEMMA ConnectionTyped ==
  ASSUME NEW c \in Connection
  PROVE  /\ c.link \in BOOLEAN /\ c.server \in BOOLEAN
         /\ c.browser \in {"none", "opening", "open"}
         /\ c.handshake \in Nat /\ c.sub \in Sinks \cup {NoSink}
         /\ c.up \in Seq({"subscribe", "unsubscribe"}) /\ c.down \in Seq(Message)
BY DEF Connection

LEMMA ClientTyped ==
  ASSUME client \in ClientState
  PROVE  /\ client.socket \in Sockets \cup {NoSocket}
         /\ client.state \in {"disconnected", "connecting", "connected"}
         /\ client.on \in BOOLEAN /\ client.base \in BOOLEAN
         /\ client.end \in Offsets \cup {None} /\ client.status \in Statuses
BY DEF ClientState

LEMMA MessageTyped ==
  ASSUME NEW m \in Message
  PROVE  /\ m.type \in {"snapshot", "output", "status"} /\ m.text \in Text
         /\ m.end \in Nat /\ m.end <= MaxOutput /\ m.status \in Statuses
BY Sizes DEF Message, Offsets

-----------------------------------------------------------------------------
(***************************************************************************)
(* The queue of operations and the log file.                               *)
(***************************************************************************)

Operation == Write \/ Exit \/ Service

OperationTypes == command \in CommandState /\ file \in FileState /\ record \in RecordState

LEMMA OperationStep ==
  ASSUME OperationTypes, poll \in PollRead, ServiceInv, LogInv,
         Operation, UNCHANGED poll
  PROVE  OperationTypes' /\ ServiceInv' /\ LogInv'
<1> USE Sizes, CommandTyped, FileTyped, RecordTyped, PollTyped
    DEF OperationTypes, ServiceInv, LogInv, ExitSaid, Published, Floor
<1>1. CASE Write
  <2>1. command' = [command EXCEPT !.written = command.written + 1]
    BY <1>1 DEF Write
  <2>2. file' = file /\ record' = record
    BY <1>1 DEF Write
  <2>3. command' \in CommandState
    BY <1>1, <2>1 DEF Write, CommandState, Offsets
  <2> QED
    BY <1>1, <2>1, <2>2, <2>3 DEF Write, CommandState
<1>2. CASE Exit
  BY <1>2 DEF Exit, CommandState
<1>3. CASE AppendLog
  BY <1>3 DEF AppendLog, CommandState, FileState, Offsets
<1>4. CASE Trim
  BY <1>4 DEF Trim, CommandState, FileState, Offsets
<1>5. CASE Rewrite
  <2>1. /\ command' = [command EXCEPT !.op = "commit"]
        /\ file' = [file EXCEPT !.from = file.to - Retain] /\ record' = record
        /\ command.op = "rewrite"
    BY <1>5 DEF Rewrite
  <2>2. file.to - Retain \in Offsets
    BY <2>1 DEF Offsets
  <2>3. command' \in CommandState /\ file' \in FileState
    BY <2>1, <2>2 DEF CommandState, FileState
  <2>4. /\ command'.written = command.written /\ command'.ended = command.ended
        /\ command'.done = command.done /\ command'.op = "commit"
        /\ file'.from = file.to - Retain /\ file'.to = file.to
    BY <2>1 DEF CommandState, FileState
  <2> QED
    BY <2>1, <2>3, <2>4
<1>6. CASE CommitOutput
  <2>1. /\ command' = [command EXCEPT !.op = "publish"] /\ file' = file
        /\ record' = [record EXCEPT !.bytes = record.bytes + 1, !.kept = file.to - file.from]
        /\ command.op = "commit"
    BY <1>6 DEF CommitOutput
  <2>2. record.bytes + 1 \in Offsets /\ file.to - file.from \in Offsets
    BY <2>1 DEF Offsets
  <2>3. command' \in CommandState /\ record' \in RecordState
    BY <2>1, <2>2 DEF CommandState, RecordState
  <2>4. /\ command'.written = command.written /\ command'.ended = command.ended
        /\ command'.done = command.done /\ command'.op = "publish"
        /\ record'.bytes = record.bytes + 1 /\ record'.kept = file.to - file.from
        /\ record'.status = record.status
    BY <2>1 DEF CommandState, RecordState
  <2>5. OperationTypes'
    BY <2>1, <2>3
  <2>6. ServiceInv'
    BY <2>1, <2>4
  <2>7. LogInv'
    BY <2>1, <2>4
  <2> HIDE DEF OperationTypes, ServiceInv, LogInv
  <2> QED
    BY <2>5, <2>6, <2>7
<1>7. CASE PublishOutput
  <2>1. /\ command' = [command EXCEPT !.op = "idle", !.done = command.done + 1]
        /\ file' = file /\ record' = record /\ command.op = "publish"
    BY <1>7, Zenon DEF PublishOutput
  <2>2. command.done + 1 \in 0 .. MaxOutput + 1
    BY <2>1
  <2>3. command' \in CommandState
    BY <2>1, <2>2 DEF CommandState
  <2>4. /\ command'.written = command.written /\ command'.ended = command.ended
        /\ command'.done = command.done + 1 /\ command'.op = "idle"
    BY <2>1 DEF CommandState
  <2> QED
    BY <2>1, <2>3, <2>4
<1>8. CASE CommitExit
  <2>1. /\ command' = [command EXCEPT !.op = "status"] /\ file' = file
        /\ record' = [record EXCEPT !.status = "exited"]
        /\ command.op = "idle" /\ command.ended /\ command.done = command.written
    BY <1>8 DEF CommitExit
  <2>2. command' \in CommandState /\ record' \in RecordState
    BY <2>1 DEF CommandState, RecordState, Statuses
  <2>3. /\ command'.written = command.written /\ command'.ended = command.ended
        /\ command'.done = command.done /\ command'.op = "status"
        /\ record'.bytes = record.bytes /\ record'.kept = record.kept
        /\ record'.status = "exited"
    BY <2>1 DEF CommandState, RecordState
  <2>4. OperationTypes'
    BY <2>1, <2>2
  <2>5. ServiceInv'
    BY <2>1, <2>3
  <2>6. LogInv'
    BY <2>1, <2>3
  <2> HIDE DEF OperationTypes, ServiceInv, LogInv
  <2> QED
    BY <2>4, <2>5, <2>6
<1>9. CASE PublishStatus
  <2>1. /\ command' = [command EXCEPT !.op = "idle", !.done = command.done + 1]
        /\ file' = file /\ record' = record /\ command.op = "status"
    BY <1>9, Zenon DEF PublishStatus
  <2>2. command.done + 1 \in 0 .. MaxOutput + 1
    BY <2>1
  <2>3. command' \in CommandState
    BY <2>1, <2>2 DEF CommandState
  <2>4. /\ command'.written = command.written /\ command'.ended = command.ended
        /\ command'.done = command.done + 1 /\ command'.op = "idle"
    BY <2>1 DEF CommandState
  <2> QED
    BY <2>1, <2>3, <2>4
<1> QED
  BY <1>1, <1>2, <1>3, <1>4, <1>5, <1>6, <1>7, <1>8, <1>9 DEF Operation, Service

-----------------------------------------------------------------------------
(***************************************************************************)
(* What each operation of the queue may change of what the others read.    *)
(***************************************************************************)

LEMMA OperationGrows ==
  ASSUME OperationTypes, ServiceInv, LogInv, Operation
  PROVE  /\ ~ExitSaid
         /\ file.to <= file'.to /\ record.bytes <= record'.bytes /\ Floor <= Floor'
         /\ file'.from = 0 => file.from = 0
         /\ record.status = "exited" => record'.status = "exited"
         /\ command.ended => command'.ended /\ command'.written = command.written
         /\ command.written <= command'.written
         /\ ~PublishOutput => Published' = Published
         /\ ~PublishStatus => ~ExitSaid'
         /\ PublishOutput => Published' = Published + 1 /\ record.bytes = Published + 1
         /\ PublishStatus => ExitSaid' /\ Published = command.written
         /\ file.from = 0 /\ file'.from = 0 /\ record.kept = record.bytes =>
               record'.kept = record'.bytes
<1> USE Sizes, CommandTyped, FileTyped, RecordTyped
    DEF OperationTypes, ServiceInv, LogInv, ExitSaid, Published, Floor, CommandState,
        FileState, RecordState
<1>1. CASE Write
  <2>1. /\ command' = [command EXCEPT !.written = command.written + 1]
        /\ file' = file /\ record' = record /\ ~command.ended
    BY <1>1, Zenon DEF Write
  <2>2. /\ command'.written = command.written + 1 /\ command'.ended = command.ended
        /\ command'.done = command.done /\ command'.op = command.op
    BY <2>1
  <2>3. ~PublishOutput /\ ~PublishStatus
    BY <2>1, <2>2 DEF PublishOutput, PublishStatus
  <2> QED
    BY <2>1, <2>2, <2>3
<1>2. CASE Exit
  <2>1. /\ command' = [command EXCEPT !.ended = TRUE]
        /\ file' = file /\ record' = record /\ ~command.ended
    BY <1>2, Zenon DEF Exit
  <2>2. /\ command'.written = command.written /\ command'.ended = TRUE
        /\ command'.done = command.done /\ command'.op = command.op
    BY <2>1
  <2>3. ~PublishOutput /\ ~PublishStatus
    BY <2>1, <2>2 DEF PublishOutput, PublishStatus
  <2> QED
    BY <2>1, <2>2, <2>3
<1>3. CASE AppendLog
  BY <1>3 DEF AppendLog, PublishOutput, PublishStatus
<1>4. CASE Trim
  BY <1>4 DEF Trim, PublishOutput, PublishStatus
<1>5. CASE Rewrite
  BY <1>5 DEF Rewrite, PublishOutput, PublishStatus
<1>6. CASE CommitOutput
  BY <1>6 DEF CommitOutput, PublishOutput, PublishStatus
<1>7. CASE PublishOutput
  <2>1. /\ command' = [command EXCEPT !.op = "idle", !.done = command.done + 1]
        /\ file' = file /\ record' = record /\ command.op = "publish"
    BY <1>7, Zenon DEF PublishOutput
  <2>2. /\ command'.written = command.written /\ command'.ended = command.ended
        /\ command'.done = command.done + 1 /\ command'.op = "idle" /\ ~PublishStatus
    BY <2>1 DEF PublishStatus
  <2> QED
    BY <2>1, <2>2, <1>7
<1>8. CASE CommitExit
  BY <1>8 DEF CommitExit, PublishOutput, PublishStatus
<1>9. CASE PublishStatus
  <2>1. /\ command' = [command EXCEPT !.op = "idle", !.done = command.done + 1]
        /\ file' = file /\ record' = record /\ command.op = "status"
    BY <1>9, Zenon DEF PublishStatus
  <2>2. /\ command'.written = command.written /\ command'.ended = command.ended
        /\ command'.done = command.done + 1 /\ command'.op = "idle" /\ ~PublishOutput
    BY <2>1 DEF PublishOutput
  <2> QED
    BY <2>1, <2>2, <1>9
<1> QED
  BY <1>1, <1>2, <1>3, <1>4, <1>5, <1>6, <1>7, <1>8, <1>9 DEF Operation, Service

-----------------------------------------------------------------------------
(***************************************************************************)
(* Texts and messages.                                                     *)
(***************************************************************************)

LEMMA BytesIs ==
  ASSUME NEW lo \in Int, NEW hi \in Int
  PROVE  /\ Len(Bytes(lo, hi)) = IF hi > lo THEN hi - lo ELSE 0
         /\ Bytes(lo, hi) \in Seq(Int)
         /\ lo >= 0 /\ hi <= MaxOutput => Bytes(lo, hi) \in Text
         /\ \A i \in 1 .. Len(Bytes(lo, hi)) : Bytes(lo, hi)[i] = lo + i
<1>1. CASE hi > lo
  BY <1>1, Sizes DEF Bytes, Text
<1>2. CASE ~(hi > lo)
  BY <1>2, Sizes DEF Bytes, Text
<1> QED
  BY <1>1, <1>2

LEMMA ReadLogIs ==
  ASSUME file \in FileState, NEW start \in Nat, NEW limit \in Nat
  PROVE  /\ ReadLog(start, limit) \in Text
         /\ Len(ReadLog(start, limit)) \in Nat /\ Len(ReadLog(start, limit)) <= limit
         /\ Len(ReadLog(start, limit)) > 0 =>
               file.from + start + Len(ReadLog(start, limit)) <= file.to
         /\ file.from + start + limit <= file.to => Len(ReadLog(start, limit)) = limit
         /\ file.from + start + limit > file.to /\ file.from + start <= file.to =>
               Len(ReadLog(start, limit)) = file.to - (file.from + start)
         /\ ReadLog(start, limit) =
               Bytes(file.from + start, file.from + start + Len(ReadLog(start, limit)))
<1> DEFINE lo == file.from + start
           hi == IF file.from + start + limit < file.to THEN file.from + start + limit
                 ELSE file.to
           size == IF hi > lo THEN hi - lo ELSE 0
<1>1. ReadLog(start, limit) = Bytes(lo, hi)
  BY Zenon DEF ReadLog
<1>2. lo \in Nat /\ hi \in Nat /\ hi <= MaxOutput /\ hi <= file.to
  BY FileTyped, Sizes
<1>3. Len(Bytes(lo, hi)) = size /\ Bytes(lo, hi) \in Text
  <2> HIDE DEF lo, hi
  <2>1. lo \in Int /\ hi \in Int /\ lo >= 0
    BY <1>2
  <2> QED
    BY <1>2, <2>1, BytesIs, Zenon
<1>4. Bytes(lo, hi) = Bytes(lo, lo + size)
  <2>1. CASE hi > lo
    <3>1. lo + size = hi
      BY <1>2, <2>1
    <3> QED
      BY <3>1
  <2>2. CASE ~(hi > lo)
    <3>1. size = 0 /\ ~(lo + size > lo)
      BY <1>2, <2>2
    <3> HIDE DEF lo, hi
    <3> QED
      BY <2>2, <3>1, Zenon DEF Bytes
  <2> QED
    BY <2>1, <2>2
<1>5. /\ size \in Nat /\ size <= limit /\ (size > 0 => lo + size <= file.to)
      /\ file.from + start + limit <= file.to => size = limit
      /\ file.from + start + limit > file.to /\ file.from + start <= file.to =>
            size = file.to - (file.from + start)
  BY <1>2, FileTyped
<1> HIDE DEF size, hi
<1> QED
  BY <1>1, <1>3, <1>4, <1>5

LEMMA OutputTyped ==
  ASSUME NEW n \in 1 .. MaxOutput
  PROVE  Output(n) \in Message
<1>1. <<n>> \in Text /\ n \in Offsets
  BY Sizes DEF Text, Offsets
<1> QED
  BY <1>1 DEF Output, Message, Statuses

LEMMA StatusTyped == StatusMessage("exited") \in Message
<1>1. <<>> \in Text /\ 0 \in Offsets
  BY Sizes DEF Text, Offsets
<1> QED
  BY <1>1 DEF StatusMessage, Message, Statuses

LEMMA RecentTyped ==
  ASSUME NEW n \in Nat, NEW said \in BOOLEAN, Published \in Nat, n <= Published,
         Published <= MaxOutput
  PROVE  Recent(n, said) \in Seq(Message)
<1>1. \A i \in 1 .. n : Output(Published - n + i) \in Message
  <2> TAKE i \in 1 .. n
  <2>1. Published - n + i \in 1 .. MaxOutput
    BY Sizes
  <2> QED
    BY <2>1, OutputTyped
<1>2. Recent(n, FALSE) \in Seq(Message)
  <2> DEFINE Outs == [i \in 1 .. n |-> Output(Published - n + i)]
  <2>1. Outs \in Seq(Message)
    BY <1>1
  <2> HIDE DEF Outs
  <2> QED
    BY <2>1, RecentParts, Zenon DEF Outs
<1>3. Recent(n, TRUE) \in Seq(Message)
  <2>1. Recent(n, TRUE) = Append(Recent(n, FALSE), StatusMessage("exited"))
    BY RecentParts, Zenon
  <2> DEFINE r == Recent(n, FALSE)
             x == StatusMessage("exited")
  <2>2. r \in Seq(Message) /\ x \in Message
    BY <1>2, StatusTyped
  <2>3. Append(r, x) \in Seq(Message)
    <3> HIDE DEF r, x
    <3> QED
      BY <2>2
  <2> QED
    BY <2>1, <2>3
<1> QED
  BY <1>2, <1>3

LEMMA SnapshotTyped ==
  ASSUME file \in FileState, NEW k \in Entry
  PROVE  /\ BrokerSnapshot(k) \in Message
         /\ BrokerSnapshot(k).type = "snapshot" /\ BrokerSnapshot(k).status = k.status
         /\ BrokerSnapshot(k).text = ReadLog(0, Retain)
         /\ BrokerSnapshot(k).end = IF k.bytes >= Len(ReadLog(0, Retain)) THEN k.bytes
                                    ELSE Len(ReadLog(0, Retain))
         /\ BrokerSnapshot(k).end \in Nat
<1> DEFINE text == ReadLog(0, Retain)
           end == IF k.bytes >= Len(text) THEN k.bytes ELSE Len(text)
<1>1. text \in Text /\ Len(text) \in Nat /\ (Len(text) > 0 => file.from + Len(text) <= file.to)
  <2>1. 0 \in Nat /\ Retain \in Nat
    BY Sizes
  <2>2. /\ text \in Text /\ Len(text) \in Nat
        /\ Len(text) > 0 => file.from + 0 + Len(text) <= file.to
    BY <2>1, ReadLogIs, Zenon
  <2> HIDE DEF text
  <2> QED
    BY <2>2, FileTyped
<1>2. end \in Offsets /\ end \in Nat
  BY <1>1, EntryTyped, FileTyped, Sizes DEF Offsets
<1>3. BrokerSnapshot(k) = Snapshot(text, end, k.status)
  BY Zenon DEF BrokerSnapshot
<1> HIDE DEF text, end
<1>4. Snapshot(text, end, k.status) \in Message
  <2>1. k.status \in Statuses
    BY EntryTyped
  <2> QED
    BY <1>1, <1>2, <2>1 DEF Snapshot, Message
<1>5. /\ Snapshot(text, end, k.status).type = "snapshot"
      /\ Snapshot(text, end, k.status).end = end
      /\ Snapshot(text, end, k.status).status = k.status
      /\ Snapshot(text, end, k.status).text = text
  BY DEF Snapshot
<1>6. /\ BrokerSnapshot(k).type = "snapshot" /\ BrokerSnapshot(k).status = k.status
      /\ BrokerSnapshot(k).text = text /\ BrokerSnapshot(k).end = end
  BY <1>3, <1>5, Zenon
<1> QED
  BY <1>2, <1>3, <1>4, <1>6, Zenon DEF text, end

LEMMA SentTyped ==
  ASSUME NEW c \in Connection, NEW messages,
         c.link /\ c.server => messages \in Seq(Message)
  PROVE  /\ Sent(c, messages) \in Connection
         /\ c.link /\ c.server => Sent(c, messages).down = c.down \o messages
         /\ ~(c.link /\ c.server) => Sent(c, messages) = c
         /\ Sent(c, messages).link = c.link /\ Sent(c, messages).server = c.server
         /\ Sent(c, messages).browser = c.browser
         /\ Sent(c, messages).handshake = c.handshake
         /\ Sent(c, messages).sub = c.sub /\ Sent(c, messages).up = c.up
<1>1. CASE c.link /\ c.server
  <2>1. c.down \o messages \in Seq(Message)
    BY <1>1, ConnectionTyped
  <2>2. Sent(c, messages) = [c EXCEPT !.down = c.down \o messages]
    BY <1>1, Zenon DEF Sent
  <2> QED
    BY <1>1, <2>1, <2>2 DEF Connection
<1>2. CASE ~(c.link /\ c.server)
  BY <1>2, Zenon DEF Sent
<1> QED
  BY <1>1, <1>2

-----------------------------------------------------------------------------
(***************************************************************************)
(* What each step does to the entries and the sockets, field by field.     *)
(***************************************************************************)

Parts == sink \in [Sinks -> Entry] /\ conn \in [Sockets -> Connection]

LEMMA FreeTyped ==
  /\ FreeSink \in Entry /\ FreeSink.pc = "none" /\ FreeSink.socket = NoSocket
  /\ FreeSink.buffer = <<>>
  /\ FreeSocket \in Connection
  /\ 0 \in Offsets /\ <<>> \in Text /\ <<>> \in Seq(Message)
<1>1. 0 \in Offsets /\ <<>> \in Text /\ <<>> \in Seq(Message) /\ 0 \in 0 .. MaxOutput + 1
  BY Sizes DEF Offsets, Text
<1>2. FreeSink \in Entry
  BY <1>1 DEF FreeSink, Entry, Statuses
<1>3. FreeSocket \in Connection
  <2>1. <<>> \in Seq({"subscribe", "unsubscribe"})
    OBVIOUS
  <2> QED
    BY <1>1, <2>1 DEF FreeSocket, Connection
<1> QED
  BY <1>1, <1>2, <1>3 DEF FreeSink

LEMMA PublishEffect ==
  ASSUME Parts, NEW m \in Message, Publish(m)
  PROVE  /\ Parts'
         /\ \A h \in Sinks :
               /\ sink'[h].pc = sink[h].pc /\ sink'[h].socket = sink[h].socket
               /\ sink'[h].generation = sink[h].generation
               /\ sink'[h].bytes = sink[h].bytes /\ sink'[h].status = sink[h].status
               /\ sink[h].pc \in Pending /\ conn[sink[h].socket].server =>
                     sink'[h].buffer = Append(sink[h].buffer, m)
         /\ \A s \in Sockets :
               /\ conn'[s].link = conn[s].link /\ conn'[s].server = conn[s].server
               /\ conn'[s].browser = conn[s].browser
               /\ conn'[s].handshake = conn[s].handshake /\ conn'[s].sub = conn[s].sub
               /\ conn'[s].up = conn[s].up
               /\ Attached(s) /\ conn[s].link /\ conn[s].server =>
                     conn'[s].down = Append(conn[s].down, m)
               /\ ~(Attached(s) /\ conn[s].link /\ conn[s].server) =>
                     conn'[s].down = conn[s].down
<1> DEFINE Buffers(h) == sink[h].pc \in {"session", "state", "log"}
                         /\ conn[sink[h].socket].server
<1>1. ASSUME NEW h \in Sinks
      PROVE  /\ sink'[h] \in Entry
             /\ sink'[h].pc = sink[h].pc /\ sink'[h].socket = sink[h].socket
             /\ sink'[h].generation = sink[h].generation
             /\ sink'[h].bytes = sink[h].bytes /\ sink'[h].status = sink[h].status
             /\ Buffers(h) => sink'[h].buffer = Append(sink[h].buffer, m)
  <2>1. sink[h] \in Entry
    BY DEF Parts
  <2>2. CASE Buffers(h)
    <3>1. sink'[h] = [sink[h] EXCEPT !.buffer = Append(sink[h].buffer, m)]
      BY <2>2, Zenon DEF Publish
    <3>2. Append(sink[h].buffer, m) \in Seq(Message)
      BY <2>1, EntryTyped
    <3>3. sink'[h] \in Entry
      BY <2>1, <3>1, <3>2, Zenon DEF Entry
    <3> QED
      BY <2>1, <3>1, <3>3 DEF Entry
  <2>3. CASE ~Buffers(h)
    BY <2>1, <2>3, Zenon DEF Publish
  <2> QED
    BY <2>2, <2>3
<1>2. ASSUME NEW s \in Sockets
      PROVE  /\ conn'[s] \in Connection
             /\ conn'[s].link = conn[s].link /\ conn'[s].server = conn[s].server
             /\ conn'[s].browser = conn[s].browser
             /\ conn'[s].handshake = conn[s].handshake /\ conn'[s].sub = conn[s].sub
             /\ conn'[s].up = conn[s].up
             /\ Attached(s) /\ conn[s].link /\ conn[s].server =>
                   conn'[s].down = Append(conn[s].down, m)
             /\ ~(Attached(s) /\ conn[s].link /\ conn[s].server) =>
                   conn'[s].down = conn[s].down
  <2>1. conn[s] \in Connection
    BY DEF Parts
  <2>2. <<m>> \in Seq(Message)
    OBVIOUS
  <2>3. CASE Attached(s)
    <3>1. conn'[s] = Sent(conn[s], <<m>>)
      BY <2>3, Zenon DEF Publish, Attached
    <3>2. conn[s].down \o <<m>> = Append(conn[s].down, m)
      BY <2>1, ConnectionTyped
    <3>3. /\ Sent(conn[s], <<m>>) \in Connection
          /\ Sent(conn[s], <<m>>).link = conn[s].link
          /\ Sent(conn[s], <<m>>).server = conn[s].server
          /\ Sent(conn[s], <<m>>).browser = conn[s].browser
          /\ Sent(conn[s], <<m>>).handshake = conn[s].handshake
          /\ Sent(conn[s], <<m>>).sub = conn[s].sub /\ Sent(conn[s], <<m>>).up = conn[s].up
      BY <2>1, <2>2, SentTyped
    <3>4. CASE conn[s].link /\ conn[s].server
      <4>1. Sent(conn[s], <<m>>).down = conn[s].down \o <<m>>
        BY <2>1, <2>2, <3>4, SentTyped
      <4> QED
        BY <2>3, <3>1, <3>2, <3>3, <3>4, <4>1, Zenon
    <3>5. CASE ~(conn[s].link /\ conn[s].server)
      <4>1. Sent(conn[s], <<m>>) = conn[s]
        BY <2>1, <2>2, <3>5, SentTyped
      <4> QED
        BY <2>1, <3>1, <3>5, <4>1, Zenon
    <3> QED
      BY <3>4, <3>5
  <2>4. CASE ~Attached(s)
    <3>1. conn'[s] = conn[s]
      BY <2>4, Zenon DEF Publish, Attached
    <3> QED
      BY <2>1, <2>4, <3>1
  <2> QED
    BY <2>3, <2>4
<1>3. sink' \in [Sinks -> Entry]
  BY <1>1, Zenon DEF Publish
<1>4. conn' \in [Sockets -> Connection]
  BY <1>2, Zenon DEF Publish
<1> QED
  BY <1>1, <1>2, <1>3, <1>4, Zenon DEF Parts, Pending

LEMMA GetSessionEffect ==
  ASSUME Parts, NEW h \in Sinks, GetSession(h), Enqueued \in 0 .. MaxOutput + 1
  PROVE  /\ Parts' /\ conn' = conn
         /\ \A g \in Sinks \ {h} : sink'[g] = sink[g]
         /\ sink[h].pc = "session" /\ sink'[h].pc = "state"
         /\ sink'[h].socket = sink[h].socket /\ sink'[h].generation = sink[h].generation
         /\ sink'[h].buffer = sink[h].buffer
<1>1. sink[h] \in Entry /\ sink[h].pc = "session"
  BY DEF Parts, GetSession
<1>2. sink' = [sink EXCEPT ![h] = [sink[h] EXCEPT !.pc = "state", !.wait = Enqueued]]
  BY Zenon DEF GetSession
<1>3. [sink[h] EXCEPT !.pc = "state", !.wait = Enqueued] \in Entry
  BY <1>1, Zenon DEF Entry
<1> QED
  BY <1>1, <1>2, <1>3 DEF Parts, GetSession, Entry, Page

LEMMA ReadSessionEffect ==
  ASSUME Parts, record \in RecordState, NEW h \in Sinks, ReadSession(h)
  PROVE  /\ Parts' /\ conn' = conn
         /\ \A g \in Sinks \ {h} : sink'[g] = sink[g]
         /\ sink[h].pc = "state" /\ sink'[h].pc = "log"
         /\ sink'[h].socket = sink[h].socket /\ sink'[h].generation = sink[h].generation
         /\ sink'[h].buffer = sink[h].buffer
         /\ sink'[h].bytes = record.bytes /\ sink'[h].status = record.status
<1> DEFINE k == [sink[h] EXCEPT !.pc = "log", !.bytes = record.bytes,
                                !.status = record.status, !.wait = 0]
<1>1. sink[h] \in Entry /\ sink[h].pc = "state"
  BY DEF Parts, ReadSession
<1>2. sink' = [sink EXCEPT ![h] = k]
  BY Zenon DEF ReadSession
<1>3. k \in Entry
  <2>1. record.bytes \in Offsets /\ record.status \in Statuses /\ 0 \in 0 .. MaxOutput + 1
    BY Sizes DEF RecordState
  <2> QED
    BY <1>1, <2>1, Zenon DEF Entry
<1>4. /\ k.pc = "log" /\ k.socket = sink[h].socket /\ k.generation = sink[h].generation
      /\ k.buffer = sink[h].buffer /\ k.bytes = record.bytes /\ k.status = record.status
  BY <1>1 DEF Entry
<1>5. conn' = conn
  BY Zenon DEF ReadSession
<1> HIDE DEF k
<1>6. /\ sink' \in [Sinks -> Entry] /\ sink'[h] = k
      /\ \A g \in Sinks \ {h} : sink'[g] = sink[g]
  BY <1>2, <1>3 DEF Parts
<1> QED
  BY <1>1, <1>4, <1>5, <1>6 DEF Parts


\* What a completed handshake sends: a snapshot, and the events after its end.
LEMMA ReplyIs ==
  ASSUME OperationTypes, Parts, ServiceInv, LogInv, BufferInv,
         NEW h \in Sinks, sink[h].pc = "log", conn[sink[h].socket].server
  PROVE  \E snap \in Message, left \in 0 .. Published, said \in BOOLEAN :
            /\ Reply(sink[h]) = <<snap>> \o Recent(left, said)
            /\ snap.type = "snapshot" /\ MessageOK(snap)
            /\ snap.end <= Published + 1
            /\ left = IF snap.end < Published THEN Published - snap.end ELSE 0
            /\ said => ExitSaid /\ snap.status # "exited"
            /\ ExitSaid => said \/ snap.status = "exited"
<1> DEFINE k == sink[h]
           snap == BrokerSnapshot(k)
           text == ReadLog(0, Retain)
<1>1. k \in Entry /\ file \in FileState
  BY DEF Parts, OperationTypes
<1>2. BufferOK(h)
  BY DEF BufferInv, Pending
<1>3. PICK n \in 0 .. Published, was \in BOOLEAN :
          /\ was => ExitSaid
          /\ k.buffer = Recent(n, was)
          /\ k.bytes >= Published - n
          /\ ExitSaid => was \/ k.status = "exited"
  BY <1>2, Zenon DEF BufferOK
<1>4. /\ k.bytes <= record.bytes
      /\ k.status = "exited" => record.status = "exited" /\ k.bytes = command.written
  BY <1>2, Zenon DEF BufferOK
<1>5. /\ Published \in Nat /\ Published <= MaxOutput
      /\ record.bytes <= file.to /\ file.to <= Published + 1
      /\ record.status = "exited" => file.to = command.written
      /\ record.bytes >= file.to - 1
      /\ command.op = "trim" => record.bytes = file.to - 1
  BY Sizes, CommandTyped, FileTyped, RecordTyped
     DEF OperationTypes, ServiceInv, ExitSaid, Published
<1>6. /\ snap \in Message /\ snap.type = "snapshot" /\ snap.status = k.status
      /\ snap.text = text /\ snap.end \in Nat
      /\ snap.end = IF k.bytes >= Len(text) THEN k.bytes ELSE Len(text)
  BY <1>1, SnapshotTyped, Zenon
<1>7. /\ Len(text) \in Nat /\ (file.from + Len(text) <= file.to \/ Len(text) = 0)
      /\ file.from + Retain <= file.to => Len(text) = Retain
      /\ file.from + Retain > file.to /\ file.from <= file.to => Len(text) = file.to - file.from
      /\ text = Bytes(file.from, file.from + Len(text)) /\ Len(text) \in Nat
  <2>1. 0 \in Nat /\ Retain \in Nat
    BY Sizes
  <2>2. /\ Len(text) \in Nat
        /\ Len(text) > 0 => file.from + 0 + Len(text) <= file.to
        /\ file.from + 0 + Retain <= file.to => Len(text) = Retain
        /\ file.from + 0 + Retain > file.to /\ file.from + 0 <= file.to =>
              Len(text) = file.to - (file.from + 0)
        /\ text = Bytes(file.from + 0, file.from + 0 + Len(text))
    BY <1>1, <2>1, ReadLogIs, Zenon
  <2>3. file.from + 0 = file.from
    BY FileTyped, <1>1
  <2> HIDE DEF text
  <2> QED
    BY <2>2, <2>3, FileTyped, <1>1
<1> HIDE DEF snap, text
<1>8. k.status \in Statuses /\ k.bytes \in Nat
  BY <1>1, EntryTyped
<1> HIDE DEF k
<1>9. snap.end <= file.to /\ snap.end >= k.bytes
  BY <1>1, <1>4, <1>5, <1>6, <1>7, <1>8, FileTyped, RecordTyped DEF OperationTypes
<1>10. snap.status = "exited" => snap.end = command.written /\ record.status = "exited"
  BY <1>1, <1>4, <1>5, <1>6, <1>7, <1>8, <1>9, FileTyped, RecordTyped, CommandTyped
     DEF OperationTypes
<1>11. TrueText(snap.text, snap.end)
  <2> SUFFICES ASSUME file.from = 0 PROVE snap.text = Bytes(snap.end - Len(snap.text), snap.end)
    BY DEF TrueText
  <2>1. snap.end = Len(text)
    BY <1>1, <1>4, <1>5, <1>6, <1>7, <1>8, FileTyped, RecordTyped, Sizes
       DEF LogInv, OperationTypes
  <2>2. snap.end - Len(snap.text) = 0 /\ file.from + Len(text) = snap.end
    BY <1>6, <1>7, <2>1
  <2> QED
    BY <1>6, <1>7, <2>2
<1>12. MessageOK(snap)
  BY <1>6, <1>9, <1>10, <1>11 DEF MessageOK
<1> DEFINE left == IF snap.end < Published THEN Published - snap.end ELSE 0
           said == was /\ snap.status # "exited"
<1>13. Uncovered(k.buffer, snap) = Recent(left, said)
  <2>1. /\ n \in Nat /\ n <= Published /\ snap.end >= Published - n /\ snap.status \in Statuses
    BY <1>3, <1>5, <1>6, <1>8, <1>9
  <2>2. Published \in Nat /\ snap.end \in Nat /\ was \in BOOLEAN
    BY <1>5, <1>6
  <2>3. Uncovered(Recent(n, was), snap) = Recent(left, said)
    BY <2>1, <2>2, UncoveredRecent
  <2> QED
    BY <1>3, <2>3, Zenon
<1>14. Reply(k) = <<snap>> \o Recent(left, said)
  BY <1>13, Zenon DEF Reply, snap
<1>15. left \in 0 .. Published /\ said \in BOOLEAN
  BY <1>5, <1>6
<1>16. snap.end <= Published + 1
  BY <1>1, <1>5, <1>6, <1>9, FileTyped
<1>17. /\ said => ExitSaid /\ snap.status # "exited"
       /\ ExitSaid => said \/ snap.status = "exited"
  BY <1>3, <1>6
<1> HIDE DEF said
<1> QED
  BY <1>6, <1>12, <1>14, <1>15, <1>16, <1>17, Zenon DEF k

LEMMA ReplyTyped ==
  ASSUME Published \in Nat, Published <= MaxOutput, NEW snap \in Message,
         NEW left \in 0 .. Published, NEW said \in BOOLEAN
  PROVE  <<snap>> \o Recent(left, said) \in Seq(Message)
<1>1. Recent(left, said) \in Seq(Message)
  <2>1. left \in Nat /\ left <= Published
    OBVIOUS
  <2> QED
    BY <2>1, RecentTyped
<1> DEFINE r == Recent(left, said)
<1> HIDE DEF r
<1> QED
  BY <1>1 DEF r

\* A handshake through: its reply is on the wire, and its entry dropped or live.
Completed(h, s) ==
    /\ s \in Sockets /\ sink[h].pc = "log" /\ sink[h].socket = s
    /\ \A g \in Sinks \ {h} : sink'[g] = sink[g]
    /\ \A t \in Sockets \ {s} : conn'[t] = conn[t]
    /\ conn'[s].link = conn[s].link /\ conn'[s].server = conn[s].server
    /\ conn'[s].browser = conn[s].browser /\ conn'[s].up = conn[s].up
    /\ conn[s].link /\ conn[s].server => conn'[s].down = conn[s].down \o Reply(sink[h])
    /\ ~(conn[s].link /\ conn[s].server) => conn'[s].down = conn[s].down
    /\ \/ /\ conn[s].handshake # sink[h].generation
          /\ sink'[h] = FreeSink
          /\ conn'[s].handshake = conn[s].handshake /\ conn'[s].sub = conn[s].sub
       \/ /\ conn[s].handshake = sink[h].generation
          /\ sink'[h].pc = "live" /\ sink'[h].socket = s
          /\ conn'[s].handshake = 0 /\ conn'[s].sub = h

LEMMA CompleteEffect ==
  ASSUME OperationTypes, Parts, ServiceInv, LogInv, EntriesInv, BufferInv,
         NEW h \in Sinks, Complete(h)
  PROVE  Parts' /\ \E s \in Sockets : Completed(h, s)
<1> PICK s : s = sink[h].socket
  OBVIOUS
<1> SUFFICES Parts' /\ s \in Sockets /\ Completed(h, s)
  OBVIOUS
<1> DEFINE k == sink[h]
           sent == Sent(conn[s], Reply(k))
<1>1. k \in Entry /\ k.pc = "log"
  BY DEF Parts, Complete
<1>2. s \in Sockets
  BY <1>1, EntryTyped DEF EntriesInv, EntryOK
<1>3. conn[s] \in Connection
  BY <1>2 DEF Parts
<1>4. conn[s].link /\ conn[s].server => Reply(k) \in Seq(Message)
  <2> HAVE conn[s].link /\ conn[s].server
  <2>1. Published \in Nat /\ Published <= MaxOutput
    BY Sizes, CommandTyped DEF OperationTypes, ServiceInv, ExitSaid, Published
  <2> QED
    BY <1>1, <2>1, ReplyIs, ReplyTyped
<1>5. /\ sent \in Connection
      /\ conn[s].link /\ conn[s].server => sent.down = conn[s].down \o Reply(k)
      /\ ~(conn[s].link /\ conn[s].server) => sent = conn[s]
      /\ sent.link = conn[s].link /\ sent.server = conn[s].server
      /\ sent.browser = conn[s].browser /\ sent.handshake = conn[s].handshake
      /\ sent.sub = conn[s].sub /\ sent.up = conn[s].up
  BY <1>3, <1>4, SentTyped, Zenon
<1>6. \/ /\ conn[s].handshake # k.generation
         /\ conn' = [conn EXCEPT ![s] = sent] /\ sink' = [sink EXCEPT ![h] = FreeSink]
      \/ /\ conn[s].handshake = k.generation
         /\ conn' = [conn EXCEPT ![s] = [sent EXCEPT !.handshake = 0, !.sub = h]]
         /\ sink' = [sink EXCEPT ![h] = [FreeSink EXCEPT !.pc = "live", !.socket = s]]
  BY Zenon DEF Complete, Superseded
<1> HIDE DEF sent, k
<1>7. CASE /\ conn[s].handshake # k.generation
           /\ conn' = [conn EXCEPT ![s] = sent] /\ sink' = [sink EXCEPT ![h] = FreeSink]
  <2>1. Parts' /\ conn'[s] = sent /\ sink'[h] = FreeSink
    BY <1>2, <1>5, <1>7, FreeTyped DEF Parts
  <2>2. (\A g \in Sinks \ {h} : sink'[g] = sink[g]) /\ (\A t \in Sockets \ {s} : conn'[t] = conn[t])
    BY <1>7 DEF Parts
  <2> QED
    BY <1>1, <1>2, <1>5, <1>7, <2>1, <2>2, Zenon DEF k, Completed
<1>8. CASE /\ conn[s].handshake = k.generation
           /\ conn' = [conn EXCEPT ![s] = [sent EXCEPT !.handshake = 0, !.sub = h]]
           /\ sink' = [sink EXCEPT ![h] = [FreeSink EXCEPT !.pc = "live", !.socket = s]]
  <2> DEFINE c == [sent EXCEPT !.handshake = 0, !.sub = h]
             e == [FreeSink EXCEPT !.pc = "live", !.socket = s]
  <2>1. c \in Connection
    <3>1. h \in Sinks \cup {NoSink} /\ 0 \in Nat
      OBVIOUS
    <3> QED
      BY <1>5, <3>1, Zenon DEF Connection
  <2>2. /\ c.link = sent.link /\ c.server = sent.server /\ c.browser = sent.browser
        /\ c.up = sent.up /\ c.down = sent.down /\ c.handshake = 0 /\ c.sub = h
    BY <1>5 DEF Connection
  <2>3. e \in Entry
    <3>1. s \in Sockets \cup {NoSocket}
      BY <1>2
    <3> QED
      BY <3>1, FreeTyped, Zenon DEF Entry
  <2>4. e.pc = "live" /\ e.socket = s
    BY FreeTyped DEF Entry
  <2> HIDE DEF c, e
  <2>5. conn' = [conn EXCEPT ![s] = c] /\ sink' = [sink EXCEPT ![h] = e]
    BY <1>8, Zenon DEF c, e
  <2>6. Parts' /\ conn'[s] = c /\ sink'[h] = e
    BY <1>2, <2>1, <2>3, <2>5 DEF Parts
  <2>7. (\A g \in Sinks \ {h} : sink'[g] = sink[g]) /\ (\A t \in Sockets \ {s} : conn'[t] = conn[t])
    BY <2>5 DEF Parts
  <2> QED
    BY <1>1, <1>2, <1>5, <1>8, <2>2, <2>4, <2>6, <2>7, Zenon DEF k, Completed
<1> QED
  BY <1>6, <1>7, <1>8

LEMMA WithoutSubIs ==
  ASSUME Parts, EntriesInv, NEW s \in Sockets
  PROVE  /\ WithoutSub(s) \in [Sinks -> Entry]
         /\ \A h \in Sinks : WithoutSub(s)[h] = IF h = conn[s].sub THEN FreeSink ELSE sink[h]
         /\ \A h \in Sinks : sink[h].pc \in Pending => WithoutSub(s)[h] = sink[h]
         /\ \A h \in Sinks : sink[h].socket # s => WithoutSub(s)[h] = sink[h]
<1>1. \A h \in Sinks : WithoutSub(s)[h] = IF h = conn[s].sub THEN FreeSink ELSE sink[h]
  BY Zenon DEF WithoutSub
<1>2. WithoutSub(s) \in [Sinks -> Entry]
  <2>1. \A h \in Sinks : (IF h = conn[s].sub THEN FreeSink ELSE sink[h]) \in Entry
    BY FreeTyped DEF Parts
  <2> QED
    BY <2>1, Zenon DEF WithoutSub
<1>3. \A h \in Sinks : conn[s].sub = h => sink[h].pc = "live" /\ sink[h].socket = s
  BY Zenon DEF EntriesInv, SocketOK
<1>4. "live" \notin Pending
  BY DEF Pending
<1> QED
  BY <1>1, <1>2, <1>3, <1>4, Zenon

LEMMA HandleSubscribeEffect ==
  ASSUME Parts, EntriesInv, NEW s \in Sockets, HandleSubscribe(s)
  PROVE  /\ Parts'
         /\ conn[s].link /\ conn[s].server /\ conn[s].up # <<>>
         /\ Head(conn[s].up) = "subscribe"
         /\ \A t \in Sockets \ {s} : conn'[t] = conn[t]
         /\ conn'[s].link = conn[s].link /\ conn'[s].server = conn[s].server
         /\ conn'[s].browser = conn[s].browser /\ conn'[s].down = conn[s].down
         /\ conn'[s].up = Tail(conn[s].up)
         /\ conn'[s].handshake = conn[s].handshake + 1 /\ conn'[s].sub = NoSink
         /\ \E h \in Sinks :
               /\ WithoutSub(s)[h].pc = "none"
               /\ sink'[h].pc = "session" /\ sink'[h].socket = s /\ sink'[h].buffer = <<>>
               /\ sink'[h].generation = conn[s].handshake + 1
               /\ \A g \in Sinks \ {h} : sink'[g] = WithoutSub(s)[g]
<1>1. conn[s] \in Connection
  BY DEF Parts
<1> DEFINE c == [conn[s] EXCEPT !.up = Tail(conn[s].up),
                                !.handshake = conn[s].handshake + 1, !.sub = NoSink]
<1>2. conn[s].link /\ conn[s].server /\ conn[s].up # <<>> /\ Head(conn[s].up) = "subscribe"
  BY DEF HandleSubscribe
<1>3. c \in Connection
  <2>1. /\ Tail(conn[s].up) \in Seq({"subscribe", "unsubscribe"})
        /\ conn[s].handshake + 1 \in Nat /\ NoSink \in Sinks \cup {NoSink}
    BY <1>1, <1>2, ConnectionTyped
  <2> QED
    BY <1>1, <2>1, Zenon DEF Connection
<1>4. /\ c.link = conn[s].link /\ c.server = conn[s].server /\ c.browser = conn[s].browser
      /\ c.down = conn[s].down /\ c.up = Tail(conn[s].up)
      /\ c.handshake = conn[s].handshake + 1 /\ c.sub = NoSink
  BY <1>1 DEF Connection
<1>5. conn' = [conn EXCEPT ![s] = c]
  BY DEF HandleSubscribe
<1> HIDE DEF c
<1>6. PICK h \in Sinks :
        /\ WithoutSub(s)[h].pc = "none"
        /\ sink' = [WithoutSub(s) EXCEPT
                      ![h] = [FreeSink EXCEPT !.pc = "session", !.socket = s,
                                              !.generation = conn[s].handshake + 1]]
  BY Zenon DEF HandleSubscribe
<1> DEFINE e == [FreeSink EXCEPT !.pc = "session", !.socket = s,
                                 !.generation = conn[s].handshake + 1]
<1>7. e \in Entry
  <2>1. s \in Sockets \cup {NoSocket} /\ conn[s].handshake + 1 \in Nat
    BY <1>1, ConnectionTyped
  <2> QED
    BY <2>1, FreeTyped, Zenon DEF Entry
<1>8. /\ e.pc = "session" /\ e.socket = s /\ e.generation = conn[s].handshake + 1
      /\ e.buffer = <<>>
  BY FreeTyped DEF Entry
<1> HIDE DEF e
<1>9. sink' = [WithoutSub(s) EXCEPT ![h] = e]
  BY <1>6, Zenon DEF e
<1>10. /\ sink' \in [Sinks -> Entry] /\ sink'[h] = e
       /\ \A g \in Sinks \ {h} : sink'[g] = WithoutSub(s)[g]
  <2> DEFINE W == WithoutSub(s)
  <2>1. W \in [Sinks -> Entry]
    BY WithoutSubIs
  <2> HIDE DEF W
  <2>2. sink' = [W EXCEPT ![h] = e]
    BY <1>9 DEF W
  <2>3. /\ sink' \in [Sinks -> Entry] /\ sink'[h] = e
        /\ \A g \in Sinks \ {h} : sink'[g] = W[g]
    BY <1>7, <2>1, <2>2
  <2> QED
    BY <2>3 DEF W
<1>11. /\ conn' \in [Sockets -> Connection] /\ conn'[s] = c
       /\ \A t \in Sockets \ {s} : conn'[t] = conn[t]
  BY <1>3, <1>5 DEF Parts
<1>12. \E x \in Sinks :
         /\ WithoutSub(s)[x].pc = "none"
         /\ sink'[x].pc = "session" /\ sink'[x].socket = s /\ sink'[x].buffer = <<>>
         /\ sink'[x].generation = conn[s].handshake + 1
         /\ \A g \in Sinks \ {x} : sink'[g] = WithoutSub(s)[g]
  <2> WITNESS h \in Sinks
  <2> QED
    BY <1>6, <1>8, <1>10, Zenon
<1> QED
  BY <1>2, <1>4, <1>10, <1>11, <1>12, Zenon DEF Parts

LEMMA HandleUnsubscribeEffect ==
  ASSUME Parts, EntriesInv, NEW s \in Sockets, HandleUnsubscribe(s)
  PROVE  /\ Parts'
         /\ conn[s].link /\ conn[s].server /\ conn[s].up # <<>>
         /\ Head(conn[s].up) = "unsubscribe"
         /\ \A t \in Sockets \ {s} : conn'[t] = conn[t]
         /\ conn'[s].link = conn[s].link /\ conn'[s].server = conn[s].server
         /\ conn'[s].browser = conn[s].browser /\ conn'[s].down = conn[s].down
         /\ conn'[s].up = Tail(conn[s].up) /\ conn'[s].sub = NoSink
         /\ conn'[s].handshake = IF conn[s].handshake = 0 THEN 0 ELSE conn[s].handshake + 1
         /\ sink' = WithoutSub(s)
<1>1. conn[s] \in Connection
  BY DEF Parts
<1> DEFINE n == IF conn[s].handshake = 0 THEN 0 ELSE conn[s].handshake + 1
           c == [conn[s] EXCEPT !.up = Tail(conn[s].up), !.sub = NoSink, !.handshake = n]
<1>2. conn[s].link /\ conn[s].server /\ conn[s].up # <<>> /\ Head(conn[s].up) = "unsubscribe"
  BY DEF HandleUnsubscribe
<1>3. c \in Connection
  <2>1. /\ Tail(conn[s].up) \in Seq({"subscribe", "unsubscribe"})
        /\ n \in Nat /\ NoSink \in Sinks \cup {NoSink}
    BY <1>1, <1>2, ConnectionTyped
  <2> QED
    BY <1>1, <2>1, Zenon DEF Connection
<1>4. /\ c.link = conn[s].link /\ c.server = conn[s].server /\ c.browser = conn[s].browser
      /\ c.down = conn[s].down /\ c.up = Tail(conn[s].up)
      /\ c.handshake = n /\ c.sub = NoSink
  BY <1>1 DEF Connection
<1>5. conn' = [conn EXCEPT ![s] = c] /\ sink' = WithoutSub(s)
  BY DEF HandleUnsubscribe
<1> HIDE DEF c
<1>6. /\ conn' \in [Sockets -> Connection] /\ conn'[s] = c
      /\ \A t \in Sockets \ {s} : conn'[t] = conn[t]
  BY <1>3, <1>5 DEF Parts
<1>7. sink' \in [Sinks -> Entry]
  BY <1>5, WithoutSubIs
<1> QED
  BY <1>2, <1>4, <1>5, <1>6, <1>7, Zenon DEF Parts

LEMMA CleanupSocketEffect ==
  ASSUME Parts, EntriesInv, NEW s \in Sockets, CleanupSocket(s)
  PROVE  /\ Parts' /\ conn[s].server /\ ~conn[s].link
         /\ \A t \in Sockets \ {s} : conn'[t] = conn[t]
         /\ ~conn'[s].link /\ ~conn'[s].server
         /\ conn'[s].browser = conn[s].browser /\ conn'[s].down = conn[s].down
         /\ conn'[s].up = conn[s].up /\ conn'[s].handshake = 0 /\ conn'[s].sub = NoSink
         /\ \A h \in Sinks :
               /\ sink[h].socket # s => sink'[h] = sink[h]
               /\ sink[h].pc \in Pending =>
                     /\ sink'[h].pc = sink[h].pc /\ sink'[h].socket = sink[h].socket
                     /\ sink'[h].generation = sink[h].generation
               /\ h = conn[s].sub => sink'[h].pc = "none" /\ sink'[h].socket = NoSocket
               /\ h # conn[s].sub => sink'[h].pc = sink[h].pc /\ sink'[h].socket = sink[h].socket
                                     /\ sink'[h].generation = sink[h].generation
<1>1. conn[s] \in Connection
  BY DEF Parts
<1> DEFINE c == [conn[s] EXCEPT !.server = FALSE, !.handshake = 0, !.sub = NoSink]
<1>2. conn[s].server /\ ~conn[s].link
  BY DEF CleanupSocket
<1>3. c \in Connection
  <2>1. NoSink \in Sinks \cup {NoSink} /\ 0 \in Nat
    OBVIOUS
  <2> QED
    BY <1>1, <2>1, Zenon DEF Connection
<1>4. /\ c.link = conn[s].link /\ c.server = FALSE /\ c.browser = conn[s].browser
      /\ c.down = conn[s].down /\ c.up = conn[s].up
      /\ c.handshake = 0 /\ c.sub = NoSink
  BY <1>1 DEF Connection
<1>5. conn' = [conn EXCEPT ![s] = c]
  BY DEF CleanupSocket
<1>6. \A h \in Sinks : sink'[h] = IF sink[h].socket = s
                                  THEN [WithoutSub(s)[h] EXCEPT !.buffer = <<>>]
                                  ELSE sink[h]
  BY Zenon DEF CleanupSocket
<1> HIDE DEF c
<1>7. /\ conn' \in [Sockets -> Connection] /\ conn'[s] = c
      /\ \A t \in Sockets \ {s} : conn'[t] = conn[t]
  BY <1>3, <1>5 DEF Parts
<1>8. ASSUME NEW h \in Sinks
      PROVE  /\ sink'[h] \in Entry
             /\ sink[h].socket # s => sink'[h] = sink[h]
             /\ h = conn[s].sub => sink'[h].pc = "none" /\ sink'[h].socket = NoSocket
             /\ h # conn[s].sub => sink'[h].pc = sink[h].pc /\ sink'[h].socket = sink[h].socket
                                   /\ sink'[h].generation = sink[h].generation
  <2>1. sink[h] \in Entry
    BY DEF Parts
  <2>2. CASE sink[h].socket = s
    <3> DEFINE w == WithoutSub(s)[h]
    <3>1. w \in Entry /\ w = IF h = conn[s].sub THEN FreeSink ELSE sink[h]
      BY WithoutSubIs
    <3> HIDE DEF w
    <3>2. sink'[h] = [w EXCEPT !.buffer = <<>>]
      BY <1>6, <2>2, Zenon DEF w
    <3>3. sink'[h] \in Entry
      BY <3>1, <3>2, FreeTyped, Zenon DEF Entry
    <3>4. /\ sink'[h].pc = w.pc /\ sink'[h].socket = w.socket
          /\ sink'[h].generation = w.generation
      BY <3>1, <3>2 DEF Entry
    <3> QED
      BY <2>2, <3>1, <3>3, <3>4, FreeTyped, Zenon
  <2>3. CASE sink[h].socket # s
    <3>1. h # conn[s].sub
      BY <2>3, Zenon DEF EntriesInv, SocketOK
    <3> QED
      BY <1>6, <2>1, <2>3, <3>1, Zenon
  <2> QED
    BY <2>2, <2>3
<1>9. sink' \in [Sinks -> Entry]
  BY <1>8, Zenon DEF CleanupSocket
<1>10. \A h \in Sinks : sink[h].pc \in Pending => h # conn[s].sub
  BY Zenon DEF EntriesInv, SocketOK, Pending
<1> QED
  BY <1>2, <1>4, <1>7, <1>8, <1>9, <1>10, Zenon DEF Parts

-----------------------------------------------------------------------------
(***************************************************************************)
(* What each step of the client does, in the fields the invariants read.   *)
(***************************************************************************)

SameClient ==
    /\ client'.socket = client.socket /\ client'.state = client.state
    /\ client'.on = client.on /\ client'.base = client.base
    /\ client'.end = client.end /\ client'.status = client.status

LEMMA UpwardIs ==
  ASSUME NEW c \in [Sockets -> Connection], client \in ClientState,
         NEW m \in {"subscribe", "unsubscribe"}
  PROVE  /\ Upward(c, m) \in [Sockets -> Connection]
         /\ \A t \in Sockets :
               /\ Upward(c, m)[t].link = c[t].link /\ Upward(c, m)[t].server = c[t].server
               /\ Upward(c, m)[t].browser = c[t].browser
               /\ Upward(c, m)[t].handshake = c[t].handshake
               /\ Upward(c, m)[t].sub = c[t].sub /\ Upward(c, m)[t].down = c[t].down
               /\ t = client.socket /\ client.state = "connected" /\ c[t].link =>
                     Upward(c, m)[t].up = Append(c[t].up, m)
               /\ ~(t = client.socket /\ client.state = "connected" /\ c[t].link) =>
                     Upward(c, m)[t].up = c[t].up
<1> DEFINE s == client.socket
           Up == s # NoSocket /\ client.state = "connected" /\ c[s].link
<1>1. CASE Up
  <2>1. s \in Sockets
    BY <1>1, ClientTyped
  <2>2. c[s] \in Connection
    BY <2>1
  <2> DEFINE d == [c[s] EXCEPT !.up = Append(c[s].up, m)]
  <2>3. d \in Connection
    <3>1. Append(c[s].up, m) \in Seq({"subscribe", "unsubscribe"})
      BY <2>2, ConnectionTyped
    <3> QED
      BY <2>2, <3>1, Zenon DEF Connection
  <2>4. /\ d.link = c[s].link /\ d.server = c[s].server /\ d.browser = c[s].browser
        /\ d.handshake = c[s].handshake /\ d.sub = c[s].sub /\ d.down = c[s].down
        /\ d.up = Append(c[s].up, m)
    BY <2>2 DEF Connection
  <2>5. Upward(c, m) = [c EXCEPT ![s] = d]
    BY <1>1 DEF Upward
  <2> HIDE DEF d
  <2>6. /\ Upward(c, m) \in [Sockets -> Connection] /\ Upward(c, m)[s] = d
        /\ \A t \in Sockets \ {s} : Upward(c, m)[t] = c[t]
    <3> DEFINE u == Upward(c, m)
    <3>1. u = [c EXCEPT ![s] = d]
      BY <2>5
    <3> HIDE DEF u, s
    <3>2. u \in [Sockets -> Connection] /\ u[s] = d /\ \A t \in Sockets \ {s} : u[t] = c[t]
      BY <2>1, <2>3, <3>1
    <3> QED
      BY <3>2 DEF u
  <2> QED
    BY <1>1, <2>4, <2>6, Zenon
<1>2. CASE ~Up
  <2>1. Upward(c, m) = c
    BY <1>2 DEF Upward
  <2>2. \A t \in Sockets : t # NoSocket
    BY Sizes
  <2> QED
    BY <1>2, <2>1, <2>2, Zenon
<1> QED
  BY <1>1, <1>2

\* A new socket, when Connect or ReconnectOpen opens one.
Opened(s) ==
    /\ ~conn[s].server /\ conn[s].browser = "none"
    /\ \A h \in Sinks : sink[h].socket # s
    /\ \A t \in Sockets \ {s} : conn'[t] = conn[t]
    /\ conn'[s] = [FreeSocket EXCEPT !.link = TRUE, !.server = TRUE, !.browser = "opening"]
    /\ client'.socket = s /\ client'.state = "connecting"
    /\ client'.on = client.on /\ client'.base = client.base
    /\ client'.end = client.end /\ client'.status = client.status

LEMMA OpenSocketEffect ==
  ASSUME Parts, client \in ClientState, NEW c \in ClientState, OpenSocket(c),
         c.on = client.on, c.base = client.base, c.end = client.end, c.status = client.status
  PROVE  /\ conn' \in [Sockets -> Connection] /\ client' \in ClientState
         /\ \E s \in Sockets : Opened(s)
<1>1. PICK s \in Sockets :
        /\ Unheld(s)
        /\ conn' = [conn EXCEPT ![s] = [FreeSocket EXCEPT !.link = TRUE, !.server = TRUE,
                                                         !.browser = "opening"]]
        /\ client' = [c EXCEPT !.socket = s, !.state = "connecting"]
  BY Zenon DEF OpenSocket
<1> DEFINE d == [FreeSocket EXCEPT !.link = TRUE, !.server = TRUE, !.browser = "opening"]
<1>2. d \in Connection
  BY FreeTyped, Zenon DEF Connection
<1> HIDE DEF d
<1>3. conn' = [conn EXCEPT ![s] = d]
  BY <1>1, Zenon DEF d
<1>4. /\ conn' \in [Sockets -> Connection] /\ conn'[s] = d
      /\ \A t \in Sockets \ {s} : conn'[t] = conn[t]
  BY <1>2, <1>3 DEF Parts
<1>5. client' \in ClientState
  <2>1. s \in Sockets \cup {NoSocket}
    OBVIOUS
  <2> QED
    BY <1>1, <2>1, Zenon DEF ClientState
<1>6. /\ client'.socket = s /\ client'.state = "connecting" /\ client'.on = c.on
      /\ client'.base = c.base /\ client'.end = c.end /\ client'.status = c.status
  BY <1>1 DEF ClientState
<1>7. Opened(s)
  BY <1>1, <1>4, <1>6 DEF Opened, Unheld, d
<1> QED
  BY <1>4, <1>5, <1>7

LEMMA ConnectEffect ==
  ASSUME Parts, client \in ClientState, Connect
  PROVE  /\ conn' \in [Sockets -> Connection] /\ client' \in ClientState
         /\ \E s \in Sockets : Opened(s)
<1> DEFINE c == [client EXCEPT !.timer = FALSE]
<1>1. c \in ClientState
  BY DEF ClientState
<1>2. c.on = client.on /\ c.base = client.base /\ c.end = client.end /\ c.status = client.status
  BY DEF ClientState
<1>3. OpenSocket(c)
  BY Zenon DEF Connect
<1> HIDE DEF c
<1> QED
  BY <1>1, <1>2, <1>3, OpenSocketEffect

LEMMA ReconnectOpenEffect ==
  ASSUME Parts, client \in ClientState, ReconnectOpen
  PROVE  /\ conn' \in [Sockets -> Connection] /\ client' \in ClientState
         /\ (SameClient /\ conn' = conn) \/ \E s \in Sockets : Opened(s)
<1> DEFINE c == [client EXCEPT !.reading = FALSE]
<1>1. c \in ClientState
  BY DEF ClientState
<1>2. /\ c.on = client.on /\ c.base = client.base /\ c.end = client.end
      /\ c.status = client.status /\ c.socket = client.socket /\ c.state = client.state
  BY DEF ClientState
<1>3. (client' = c /\ conn' = conn) \/ OpenSocket(c)
  BY Zenon DEF ReconnectOpen
<1> HIDE DEF c
<1>4. CASE client' = c /\ conn' = conn
  BY <1>1, <1>2, <1>4 DEF SameClient, Parts
<1>5. CASE OpenSocket(c)
  BY <1>1, <1>2, <1>5, OpenSocketEffect
<1> QED
  BY <1>3, <1>4, <1>5

LEMMA RebasedIs ==
  ASSUME client \in ClientState
  PROVE  /\ Rebased(client) \in ClientState
         /\ Rebased(client).base = FALSE /\ Rebased(client).end = None
         /\ Rebased(client).socket = client.socket /\ Rebased(client).state = client.state
         /\ Rebased(client).on = client.on /\ Rebased(client).status = client.status
         /\ Rebased(client).resyncs = client.resyncs
<1>1. None \in Offsets \cup {None}
  OBVIOUS
<1> QED
  BY <1>1 DEF Rebased, ClientState

LEMMA SubscribeEffect ==
  ASSUME Parts, client \in ClientState, Subscribe
  PROVE  /\ conn' = Upward(conn, "subscribe") /\ client' \in ClientState
         /\ client'.on = TRUE /\ client'.base = FALSE
         /\ client'.socket = client.socket /\ client'.state = client.state
         /\ client'.status = client.status
         /\ UNCHANGED <<command, file, record, sink, screen, poll>>
<1> DEFINE r == Rebased(client)
           n == IF client.on THEN r.resyncs ELSE 0
<1>1. client' = [r EXCEPT !.on = TRUE, !.armed = client.state = "connected", !.resyncs = n]
  BY Zenon DEF Subscribe
<1>2. r \in ClientState /\ n \in 0 .. MaxResyncs
  <2>1. r \in ClientState
    BY RebasedIs
  <2>2. r.resyncs \in 0 .. MaxResyncs
    BY <2>1, Zenon DEF ClientState
  <2> HIDE DEF r
  <2>3. n \in 0 .. MaxResyncs
    BY <2>2, Sizes
  <2> QED
    BY <2>1, <2>3
<1>3. (client.state = "connected") \in BOOLEAN
  OBVIOUS
<1> HIDE DEF r, n
<1>4. client' \in ClientState
  BY <1>1, <1>2, <1>3, Zenon DEF ClientState
<1>5. /\ client'.on = TRUE /\ client'.base = r.base /\ client'.socket = r.socket
      /\ client'.state = r.state /\ client'.status = r.status
  BY <1>1, <1>2 DEF ClientState
<1>6. r.base = FALSE /\ r.socket = client.socket /\ r.state = client.state /\ r.status = client.status
  BY RebasedIs DEF r
<1> QED
  BY <1>4, <1>5, <1>6, Zenon DEF Subscribe

LEMMA UnsubscribeEffect ==
  ASSUME Parts, client \in ClientState, Unsubscribe
  PROVE  /\ conn' = Upward(conn, "unsubscribe") /\ client' \in ClientState
         /\ client'.on = FALSE /\ client'.base = FALSE
         /\ client'.socket = client.socket /\ client'.state = client.state
         /\ client'.status = "running" /\ screen' = NoScreen
         /\ UNCHANGED <<command, file, record, sink, poll>>
<1> DEFINE r == Rebased(client)
<1>1. client' = [r EXCEPT !.on = FALSE, !.armed = FALSE, !.resyncs = 0, !.status = "running"]
  BY Zenon DEF Unsubscribe
<1>2. r \in ClientState /\ 0 \in 0 .. MaxResyncs /\ "running" \in Statuses
  BY RebasedIs, Sizes DEF Statuses
<1> HIDE DEF r
<1>3. client' \in ClientState
  BY <1>1, <1>2, Zenon DEF ClientState
<1>4. /\ client'.on = FALSE /\ client'.base = r.base /\ client'.socket = r.socket
      /\ client'.state = r.state /\ client'.status = "running"
  BY <1>1, <1>2 DEF ClientState
<1>5. r.base = FALSE /\ r.socket = client.socket /\ r.state = client.state
  BY RebasedIs DEF r
<1> QED
  BY <1>3, <1>4, <1>5, Zenon DEF Unsubscribe

\* A socket whose link goes takes what is on its wires.
Unlinked(t) ==
    /\ conn'[t].link = FALSE /\ conn'[t].up = <<>> /\ conn'[t].down = <<>>
    /\ conn'[t].server = conn[t].server /\ conn'[t].browser = conn[t].browser
    /\ conn'[t].handshake = conn[t].handshake /\ conn'[t].sub = conn[t].sub

LEMMA UnlinkedTyped ==
  ASSUME NEW c \in Connection, NEW d,
         d = [c EXCEPT !.link = FALSE, !.up = <<>>, !.down = <<>>]
  PROVE  /\ d \in Connection
         /\ d.link = FALSE /\ d.up = <<>> /\ d.down = <<>> /\ d.server = c.server
         /\ d.browser = c.browser /\ d.handshake = c.handshake /\ d.sub = c.sub
<1>1. <<>> \in Seq({"subscribe", "unsubscribe"}) /\ <<>> \in Seq(Message)
  OBVIOUS
<1> QED
  BY <1>1 DEF Connection

LEMMA DisposeEffect ==
  ASSUME Parts, client \in ClientState, Dispose
  PROVE  /\ Parts' /\ client' \in ClientState
         /\ client'.on = FALSE /\ client'.base = FALSE /\ client'.socket = NoSocket
         /\ client'.state = "disconnected" /\ client'.status = "running"
         /\ \A t \in Sockets : IF t = client.socket THEN Unlinked(t) ELSE conn'[t] = conn[t]
         /\ screen' = NoScreen /\ poll' = NoPoll
         /\ UNCHANGED <<command, file, record, sink>>
<1>1. client' = [NotSubscribed EXCEPT !.gone = TRUE, !.reading = client.reading]
  BY Zenon DEF Dispose
<1>2. NotSubscribed \in ClientState /\ client.reading \in BOOLEAN
  <2>1. None \in Offsets \cup {None} /\ 0 \in 0 .. MaxResyncs
    BY Sizes
  <2> QED
    BY <2>1 DEF NotSubscribed, ClientState, Statuses
<1>3. client' \in ClientState
  BY <1>1, <1>2, Zenon DEF ClientState
<1>4. /\ client'.on = FALSE /\ client'.base = FALSE /\ client'.socket = NoSocket
      /\ client'.state = "disconnected" /\ client'.status = "running"
  BY <1>1 DEF NotSubscribed
<1>5. ASSUME NEW t \in Sockets
      PROVE  /\ conn'[t] \in Connection
             /\ IF t = client.socket THEN Unlinked(t) ELSE conn'[t] = conn[t]
  <2>1. conn[t] \in Connection
    BY DEF Parts
  <2>2. CASE t = client.socket
    <3>1. conn'[t] = [conn[t] EXCEPT !.link = FALSE, !.up = <<>>, !.down = <<>>]
      BY <2>2, Zenon DEF Dispose
    <3> QED
      BY <2>1, <2>2, <3>1, UnlinkedTyped, Zenon DEF Unlinked
  <2>3. CASE t # client.socket
    BY <2>1, <2>3, Zenon DEF Dispose
  <2> QED
    BY <2>2, <2>3
<1>6. conn' \in [Sockets -> Connection]
  BY <1>5, Zenon DEF Dispose
<1> QED
  BY <1>3, <1>4, <1>5, <1>6, Zenon DEF Dispose, Parts

LEMMA DropEffect ==
  ASSUME Parts, NEW s \in Sockets, Drop(s)
  PROVE  /\ Parts' /\ conn[s].link /\ Unlinked(s)
         /\ \A t \in Sockets \ {s} : conn'[t] = conn[t]
         /\ UNCHANGED <<command, file, record, sink, client, screen, poll>>
<1> DEFINE d == [conn[s] EXCEPT !.link = FALSE, !.up = <<>>, !.down = <<>>]
<1>1. conn[s] \in Connection
  BY DEF Parts
<1>2. conn' = [conn EXCEPT ![s] = d]
  BY DEF Drop
<1>3. /\ d \in Connection
      /\ d.link = FALSE /\ d.up = <<>> /\ d.down = <<>> /\ d.server = conn[s].server
      /\ d.browser = conn[s].browser /\ d.handshake = conn[s].handshake /\ d.sub = conn[s].sub
  BY <1>1, UnlinkedTyped, Zenon
<1> HIDE DEF d
<1>4. /\ conn' \in [Sockets -> Connection] /\ conn'[s] = d
      /\ \A t \in Sockets \ {s} : conn'[t] = conn[t]
  BY <1>2, <1>3 DEF Parts
<1> QED
  BY <1>3, <1>4, Zenon DEF Drop, Unlinked, Parts

LEMMA OnOpenEffect ==
  ASSUME Parts, client \in ClientState, ClientInv, NEW s \in Sockets, OnOpen(s)
  PROVE  /\ Parts' /\ client' \in ClientState
         /\ conn[s].browser = "opening" /\ conn[s].link
         /\ conn[s].up = <<>> /\ conn[s].down = <<>>
         /\ \A t \in Sockets \ {s} : conn'[t] = conn[t]
         /\ conn'[s].link = conn[s].link /\ conn'[s].server = conn[s].server
         /\ conn'[s].browser = "open" /\ conn'[s].handshake = conn[s].handshake
         /\ conn'[s].sub = conn[s].sub /\ conn'[s].down = <<>>
         /\ client.socket # s => SameClient /\ conn'[s].up = <<>>
         /\ client.socket = s =>
               /\ client'.socket = s /\ client'.state = "connected"
               /\ client'.on = client.on /\ client'.status = client.status
               /\ client.on => client'.base = FALSE /\ conn'[s].up = <<"subscribe">>
               /\ ~client.on => client'.base = client.base /\ client'.end = client.end
                                /\ conn'[s].up = <<>>
<1>1. conn[s] \in Connection
  BY DEF Parts
<1>2. conn[s].browser = "opening" /\ conn[s].link /\ conn[s].up = <<>> /\ conn[s].down = <<>>
  BY DEF OnOpen, ClientInv
<1> DEFINE d == [conn[s] EXCEPT !.browser = "open"]
           opened == [conn EXCEPT ![s].browser = "open"]
           asked == [opened EXCEPT ![s].up = Append(@, "subscribe")]
           u == [d EXCEPT !.up = Append(d.up, "subscribe")]
<1>3. /\ d \in Connection /\ d.link = conn[s].link /\ d.server = conn[s].server
      /\ d.browser = "open" /\ d.handshake = conn[s].handshake /\ d.sub = conn[s].sub
      /\ d.down = <<>> /\ d.up = <<>>
  BY <1>1, <1>2 DEF Connection
<1>4. /\ opened \in [Sockets -> Connection] /\ opened[s] = d
      /\ \A t \in Sockets \ {s} : opened[t] = conn[t]
  <2>1. opened = [conn EXCEPT ![s] = d]
    OBVIOUS
  <2> HIDE DEF d, opened
  <2> QED
    BY <1>3, <2>1 DEF Parts
<1>5. /\ u \in Connection /\ u.link = conn[s].link /\ u.server = conn[s].server
      /\ u.browser = "open" /\ u.handshake = conn[s].handshake /\ u.sub = conn[s].sub
      /\ u.down = <<>> /\ u.up = <<"subscribe">>
  <2> HIDE DEF d
  <2>1. Append(d.up, "subscribe") = <<"subscribe">>
    BY <1>3
  <2>2. <<"subscribe">> \in Seq({"subscribe", "unsubscribe"})
    OBVIOUS
  <2> QED
    BY <1>3, <2>1, <2>2 DEF Connection
<1>6. /\ asked \in [Sockets -> Connection] /\ asked[s] = u
      /\ \A t \in Sockets \ {s} : asked[t] = conn[t]
  <2> HIDE DEF d, opened
  <2>1. asked = [opened EXCEPT ![s] = u]
    BY <1>4
  <2> HIDE DEF u, asked
  <2> QED
    BY <1>4, <1>5, <2>1
<1>7. \/ client.socket # s /\ conn' = opened /\ client' = client
      \/ /\ client.socket = s
         /\ client' = IF client.on
                      THEN [Rebased(client) EXCEPT !.state = "connected", !.armed = TRUE]
                      ELSE [client EXCEPT !.state = "connected"]
         /\ conn' = IF client.on THEN asked ELSE opened
  BY Zenon DEF OnOpen
<1>8. sink' = sink
  BY DEF OnOpen
<1> HIDE DEF d, u, opened, asked
<1>9. CASE client.socket # s /\ conn' = opened /\ client' = client
  BY <1>2, <1>3, <1>4, <1>8, <1>9 DEF SameClient, Parts
<1>10. CASE client.socket = s /\ client.on
  <2>1. client' = [Rebased(client) EXCEPT !.state = "connected", !.armed = TRUE] /\ conn' = asked
    BY <1>7, <1>10
  <2>2. /\ client' \in ClientState
        /\ client'.socket = s /\ client'.state = "connected" /\ client'.base = FALSE
        /\ client'.on = client.on /\ client'.status = client.status
    <3> DEFINE r == Rebased(client)
    <3>1. /\ r \in ClientState /\ r.base = FALSE /\ r.socket = client.socket
          /\ r.on = client.on /\ r.status = client.status
      BY RebasedIs
    <3>2. client' = [r EXCEPT !.state = "connected", !.armed = TRUE]
      BY <2>1
    <3> HIDE DEF r
    <3> QED
      BY <1>10, <3>1, <3>2 DEF ClientState
  <2> QED
    BY <1>2, <1>5, <1>6, <1>8, <1>10, <2>1, <2>2 DEF Parts
<1>11. CASE client.socket = s /\ ~client.on
  <2>1. client' = [client EXCEPT !.state = "connected"] /\ conn' = opened
    BY <1>7, <1>11
  <2>2. /\ client' \in ClientState
        /\ client'.socket = s /\ client'.state = "connected" /\ client'.base = client.base
        /\ client'.on = client.on /\ client'.status = client.status /\ client'.end = client.end
    BY <1>11, <2>1 DEF ClientState
  <2> QED
    BY <1>2, <1>3, <1>4, <1>8, <1>11, <2>1, <2>2 DEF Parts
<1> QED
  BY <1>7, <1>9, <1>10, <1>11

LEMMA OnCloseEffect ==
  ASSUME Parts, client \in ClientState, NEW s \in Sockets, OnClose(s)
  PROVE  /\ Parts' /\ client' \in ClientState
         /\ conn[s].browser # "none" /\ ~conn[s].link
         /\ \A t \in Sockets \ {s} : conn'[t] = conn[t]
         /\ conn'[s].link = conn[s].link /\ conn'[s].server = conn[s].server
         /\ conn'[s].browser = "none" /\ conn'[s].handshake = conn[s].handshake
         /\ conn'[s].sub = conn[s].sub /\ conn'[s].down = conn[s].down
         /\ conn'[s].up = conn[s].up
         /\ client.socket # s => client' = client
         /\ client.socket = s =>
               /\ client'.socket = NoSocket /\ client'.state # "connected"
               /\ client'.base = FALSE /\ client'.on = client.on
               /\ client'.status = client.status
<1>1. conn[s] \in Connection
  BY DEF Parts
<1> DEFINE d == [conn[s] EXCEPT !.browser = "none"]
<1>2. /\ d \in Connection /\ d.link = conn[s].link /\ d.server = conn[s].server
      /\ d.browser = "none" /\ d.handshake = conn[s].handshake /\ d.sub = conn[s].sub
      /\ d.down = conn[s].down /\ d.up = conn[s].up
  BY <1>1 DEF Connection
<1>3. conn' = [conn EXCEPT ![s] = d]
  BY DEF OnClose
<1> HIDE DEF d
<1>4. /\ conn' \in [Sockets -> Connection] /\ conn'[s] = d
      /\ \A t \in Sockets \ {s} : conn'[t] = conn[t]
  BY <1>2, <1>3 DEF Parts
<1>5. sink' = sink /\ conn[s].browser # "none" /\ ~conn[s].link
  BY DEF OnClose
<1>6. \/ client.socket # s /\ client' = client
      \/ /\ client.socket = s
         /\ client' = [Rebased(client) EXCEPT
                          !.socket = NoSocket, !.armed = FALSE, !.timer = TRUE,
                          !.state = IF client.timer THEN "disconnected" ELSE "connecting"]
  BY Zenon DEF OnClose
<1>7. CASE client.socket # s /\ client' = client
  BY <1>2, <1>4, <1>5, <1>7 DEF Parts
<1>8. CASE client.socket = s
  <2> DEFINE r == Rebased(client)
             x == IF client.timer THEN "disconnected" ELSE "connecting"
  <2>1. /\ r \in ClientState /\ r.base = FALSE /\ r.on = client.on /\ r.status = client.status
    BY RebasedIs
  <2>2. client' = [r EXCEPT !.socket = NoSocket, !.armed = FALSE, !.timer = TRUE, !.state = x]
    BY <1>6, <1>8
  <2>3. x \in {"disconnected", "connecting"}
    OBVIOUS
  <2> HIDE DEF r, x
  <2>4. client' \in ClientState
    BY <2>1, <2>2, <2>3 DEF ClientState
  <2>5. /\ client'.socket = NoSocket /\ client'.state = x /\ client'.base = FALSE
        /\ client'.on = client.on /\ client'.status = client.status
    BY <2>1, <2>2 DEF ClientState
  <2> QED
    BY <1>2, <1>4, <1>5, <1>8, <2>3, <2>4, <2>5 DEF Parts
<1> QED
  BY <1>6, <1>7, <1>8

LEMMA TimersEffect ==
  ASSUME client \in ClientState, ReconnectTimer \/ SnapshotTimer
  PROVE  /\ client' \in ClientState /\ SameClient
         /\ UNCHANGED <<command, file, record, sink, conn, screen, poll, moves>>
<1>1. CASE ReconnectTimer
  BY <1>1 DEF ReconnectTimer, ClientState, SameClient
<1>2. CASE SnapshotTimer
  BY <1>2 DEF SnapshotTimer, ClientState, SameClient
<1> QED
  BY <1>1, <1>2

\* A message heard: what it is to the client, and which socket gave it up.
Heard(s, m) ==
    /\ conn[s].browser = "open" /\ conn[s].down # <<>> /\ m = Head(conn[s].down)
    /\ \A t \in Sockets :
          /\ conn'[t].link = conn[t].link /\ conn'[t].server = conn[t].server
          /\ conn'[t].browser = conn[t].browser /\ conn'[t].handshake = conn[t].handshake
          /\ conn'[t].sub = conn[t].sub
          /\ conn'[t].down = IF t = s THEN Tail(conn[t].down) ELSE conn[t].down
          /\ \/ conn'[t].up = conn[t].up
             \/ /\ t = client.socket /\ client.state = "connected" /\ conn[t].link
                /\ conn'[t].up = Append(conn[t].up, "subscribe")
    /\ client'.socket = client.socket /\ client'.state = client.state
    /\ client'.on = client.on

Ignored(s, m) ==
    /\ client.socket # s \/ ~client.on \/ (m.type = "output" /\ ~Continues(m))
    /\ client'.base = client.base /\ client'.end = client.end
    /\ client'.status = client.status /\ screen' = screen

SnapshotApplied(s, m) ==
    /\ client.socket = s /\ client.on /\ m.type = "snapshot"
    /\ client'.base = TRUE /\ client'.end = m.end /\ client'.status = m.status
    /\ screen' = [Paint(m.text, m.end) EXCEPT !.status = m.status]

OutputApplied(s, m) ==
    /\ client.socket = s /\ client.on /\ m.type = "output" /\ Continues(m)
    /\ client'.base = client.base /\ client'.end = m.end /\ client'.status = client.status
    /\ screen' = Extend(m.text, m.end)

StatusApplied(s, m) ==
    /\ client.socket = s /\ client.on /\ m.type = "status"
    /\ client'.base = client.base /\ client'.end = client.end /\ client'.status = m.status
    /\ screen' = [screen EXCEPT !.status = m.status]

LEMMA OnMessageEffect ==
  ASSUME Parts, client \in ClientState, NEW s \in Sockets, OnMessage(s)
  PROVE  /\ Parts' /\ client' \in ClientState
         /\ UNCHANGED <<command, file, record, sink, poll>>
         /\ \E m \in Message :
               /\ Heard(s, m)
               /\ Ignored(s, m) \/ SnapshotApplied(s, m)
                  \/ OutputApplied(s, m) \/ StatusApplied(s, m)
<1> DEFINE d == [conn[s] EXCEPT !.down = Tail(conn[s].down)]
           c == [conn EXCEPT ![s].down = Tail(@)]
           m == Head(conn[s].down)
<1>1. conn[s] \in Connection /\ conn[s].browser = "open" /\ conn[s].down # <<>>
  BY DEF Parts, OnMessage
<1>2. m \in Message /\ Tail(conn[s].down) \in Seq(Message)
  BY <1>1, ConnectionTyped
<1>3. /\ d \in Connection /\ d.link = conn[s].link /\ d.server = conn[s].server
      /\ d.browser = conn[s].browser /\ d.handshake = conn[s].handshake
      /\ d.sub = conn[s].sub /\ d.up = conn[s].up /\ d.down = Tail(conn[s].down)
  BY <1>1, <1>2 DEF Connection
<1>4. /\ c \in [Sockets -> Connection] /\ c[s] = d
      /\ \A t \in Sockets \ {s} : c[t] = conn[t]
  <2>1. c = [conn EXCEPT ![s] = d]
    OBVIOUS
  <2> HIDE DEF d, c
  <2> QED
    BY <1>3, <2>1 DEF Parts
<1>5. UNCHANGED <<command, file, record, sink, poll>>
  BY DEF OnMessage
<1>6. \/ client.socket # s /\ conn' = c /\ client' = client /\ screen' = screen
      \/ client.socket = s /\ HandleMessage(m, c)
  BY Zenon DEF OnMessage
<1> HIDE DEF d, c, m
<1> DEFINE Taken ==
      \A t \in Sockets :
          /\ conn'[t].link = conn[t].link /\ conn'[t].server = conn[t].server
          /\ conn'[t].browser = conn[t].browser /\ conn'[t].handshake = conn[t].handshake
          /\ conn'[t].sub = conn[t].sub
          /\ conn'[t].down = IF t = s THEN Tail(conn[t].down) ELSE conn[t].down
          /\ \/ conn'[t].up = conn[t].up
             \/ /\ t = client.socket /\ client.state = "connected" /\ conn[t].link
                /\ conn'[t].up = Append(conn[t].up, "subscribe")
<1>7. conn' = c => Taken /\ conn' \in [Sockets -> Connection]
  BY <1>3, <1>4, Zenon
<1>8. conn' = Upward(c, "subscribe") => Taken /\ conn' \in [Sockets -> Connection]
  <2> DEFINE u == Upward(c, "subscribe")
  <2>1. /\ u \in [Sockets -> Connection]
        /\ \A t \in Sockets :
               /\ u[t].link = c[t].link /\ u[t].server = c[t].server
               /\ u[t].browser = c[t].browser
               /\ u[t].handshake = c[t].handshake
               /\ u[t].sub = c[t].sub /\ u[t].down = c[t].down
               /\ t = client.socket /\ client.state = "connected" /\ c[t].link =>
                     u[t].up = Append(c[t].up, "subscribe")
               /\ ~(t = client.socket /\ client.state = "connected" /\ c[t].link) =>
                     u[t].up = c[t].up
    BY <1>4, UpwardIs
  <2> HIDE DEF u
  <2>2. ASSUME NEW t \in Sockets, conn' = u
        PROVE  /\ conn'[t].link = conn[t].link /\ conn'[t].server = conn[t].server
               /\ conn'[t].browser = conn[t].browser
               /\ conn'[t].handshake = conn[t].handshake /\ conn'[t].sub = conn[t].sub
               /\ conn'[t].down = IF t = s THEN Tail(conn[t].down) ELSE conn[t].down
               /\ \/ conn'[t].up = conn[t].up
                  \/ /\ t = client.socket /\ client.state = "connected" /\ conn[t].link
                     /\ conn'[t].up = Append(conn[t].up, "subscribe")
    <3>1. /\ c[t].link = conn[t].link /\ c[t].server = conn[t].server
          /\ c[t].browser = conn[t].browser /\ c[t].handshake = conn[t].handshake
          /\ c[t].sub = conn[t].sub /\ c[t].up = conn[t].up
          /\ c[t].down = IF t = s THEN Tail(conn[t].down) ELSE conn[t].down
      BY <1>3, <1>4
    <3> QED
      BY <2>1, <2>2, <3>1
  <2>3. conn' = u => Taken
    BY <2>2, Zenon
  <2> QED
    BY <2>1, <2>3 DEF u
<1> HIDE DEF Taken
<1>9. Parts' <=> conn' \in [Sockets -> Connection]
  BY <1>5 DEF Parts
<1>10. CASE client.socket # s /\ conn' = c /\ client' = client /\ screen' = screen
  <2>1. Taken /\ Parts'
    BY <1>7, <1>9, <1>10
  <2>2. Heard(s, m) /\ Ignored(s, m)
    BY <1>1, <1>10, <2>1, Zenon DEF Heard, Ignored, Taken, m
  <2> QED
    BY <1>2, <1>5, <1>10, <2>1, <2>2
<1>11. CASE client.socket = s /\ HandleMessage(m, c)
  <2>1. CASE ~client.on /\ conn' = c /\ client' = client /\ screen' = screen
    <3>1. Taken /\ Parts'
      BY <1>7, <1>9, <2>1
    <3>2. Heard(s, m) /\ Ignored(s, m)
      BY <1>1, <2>1, <3>1, Zenon DEF Heard, Ignored, Taken, m
    <3> QED
      BY <1>2, <1>5, <2>1, <3>1, <3>2
  <2>2. CASE client.on /\ m.type = "snapshot" /\ HandleSnapshot(m) /\ conn' = c
    <3>1. Taken /\ Parts'
      BY <1>7, <1>9, <2>2
    <3>2. client' = [client EXCEPT !.base = TRUE, !.end = m.end, !.status = m.status,
                                   !.pending = FALSE, !.armed = FALSE, !.told = FALSE]
      BY <2>2 DEF HandleSnapshot
    <3>3. m.end \in Offsets \cup {None} /\ m.status \in Statuses
      BY <1>2 DEF Message
    <3>4. /\ client' \in ClientState /\ client'.socket = client.socket
          /\ client'.state = client.state /\ client'.on = client.on
          /\ client'.base = TRUE /\ client'.end = m.end /\ client'.status = m.status
      BY <3>2, <3>3 DEF ClientState
    <3>5. Heard(s, m)
      BY <1>1, <3>1, <3>4, Zenon DEF Heard, Taken, m
    <3>6. SnapshotApplied(s, m)
      BY <1>11, <2>2, <3>4, Zenon DEF SnapshotApplied, HandleSnapshot
    <3> QED
      BY <1>2, <1>5, <3>1, <3>4, <3>5, <3>6
  <2>3. CASE /\ client.on /\ m.type = "output" /\ Continues(m) /\ conn' = c
             /\ client' = [client EXCEPT !.end = m.end] /\ screen' = Extend(m.text, m.end)
    <3>1. Taken /\ Parts'
      BY <1>7, <1>9, <2>3
    <3>2. m.end \in Offsets \cup {None}
      BY <1>2 DEF Message
    <3>3. /\ client' \in ClientState /\ client'.socket = client.socket
          /\ client'.state = client.state /\ client'.on = client.on
          /\ client'.base = client.base /\ client'.end = m.end /\ client'.status = client.status
      BY <2>3, <3>2 DEF ClientState
    <3>4. Heard(s, m)
      BY <1>1, <3>1, <3>3, Zenon DEF Heard, Taken, m
    <3>5. OutputApplied(s, m)
      BY <1>11, <2>3, <3>3, Zenon DEF OutputApplied
    <3> QED
      BY <1>2, <1>5, <3>1, <3>3, <3>4, <3>5
  <2>4. CASE /\ client.on /\ m.type = "output" /\ ~Continues(m) /\ RequestResync(c)
             /\ screen' = screen
    <3>1. /\ conn' = c \/ conn' = Upward(c, "subscribe")
          /\ \/ client' = client
             \/ client' = [client EXCEPT !.told = TRUE]
             \/ /\ client.resyncs < MaxResyncs
                /\ client' = [client EXCEPT !.resyncs = client.resyncs + 1, !.pending = TRUE]
      BY <2>4 DEF RequestResync
    <3>2. Taken /\ Parts'
      BY <1>7, <1>8, <1>9, <3>1
    <3>3. client' \in ClientState /\ SameClient
      <4>1. CASE client' = client
        BY <4>1 DEF SameClient
      <4>2. CASE client' = [client EXCEPT !.told = TRUE]
        BY <4>2 DEF SameClient, ClientState
      <4>3. CASE /\ client.resyncs < MaxResyncs
                 /\ client' = [client EXCEPT !.resyncs = client.resyncs + 1, !.pending = TRUE]
        <5>1. client.resyncs \in 0 .. MaxResyncs
          BY DEF ClientState
        <5>2. client.resyncs + 1 \in 0 .. MaxResyncs
          BY <4>3, <5>1, Sizes
        <5> DEFINE n == client.resyncs + 1
        <5>3. client' = [client EXCEPT !.resyncs = n, !.pending = TRUE]
          BY <4>3
        <5> HIDE DEF n
        <5> QED
          BY <5>2, <5>3 DEF SameClient, ClientState, n
      <4> QED
        BY <3>1, <4>1, <4>2, <4>3
    <3>4. Heard(s, m)
      BY <1>1, <3>2, <3>3, Zenon DEF Heard, Taken, m, SameClient
    <3>5. Ignored(s, m)
      BY <2>4, <3>3, Zenon DEF Ignored, SameClient
    <3> QED
      BY <1>2, <1>5, <3>2, <3>3, <3>4, <3>5
  <2>5. CASE /\ client.on /\ m.type = "status" /\ conn' = c
             /\ client' = [client EXCEPT !.status = m.status]
             /\ screen' = [screen EXCEPT !.status = m.status]
    <3>1. Taken /\ Parts'
      BY <1>7, <1>9, <2>5
    <3>2. m.status \in Statuses
      BY <1>2 DEF Message
    <3>3. /\ client' \in ClientState /\ client'.socket = client.socket
          /\ client'.state = client.state /\ client'.on = client.on
          /\ client'.base = client.base /\ client'.end = client.end /\ client'.status = m.status
      BY <2>5, <3>2 DEF ClientState
    <3>4. Heard(s, m)
      BY <1>1, <3>1, <3>3, Zenon DEF Heard, Taken, m
    <3>5. StatusApplied(s, m)
      BY <1>11, <2>5, <3>3, Zenon DEF StatusApplied
    <3> QED
      BY <1>2, <1>5, <3>1, <3>3, <3>4, <3>5
  <2> QED
    BY <1>11, <2>1, <2>2, <2>3, <2>4, <2>5, Zenon DEF HandleMessage
<1> QED
  BY <1>6, <1>10, <1>11

-----------------------------------------------------------------------------
(***************************************************************************)
(* The console and the poll.                                               *)
(***************************************************************************)

LEMMA PaintIs ==
  ASSUME screen \in ScreenState, NEW text \in Text, NEW end \in Offsets
  PROVE  /\ Paint(text, end) \in ScreenState
         /\ Paint(text, end).end = end
         /\ \/ screen.end = end /\ Paint(text, end) = screen
            \/ Paint(text, end).text = text
<1>1. CASE screen.end = end
  BY <1>1 DEF Paint
<1>2. CASE screen.end # end
  <2>1. Paint(text, end) = [screen EXCEPT !.text = text, !.end = end]
    BY <1>2 DEF Paint
  <2> QED
    BY <2>1 DEF ScreenState
<1> QED
  BY <1>1, <1>2

LEMMA ExtendIs ==
  ASSUME screen \in ScreenState, NEW text \in Text, NEW end \in Offsets
  PROVE  /\ Extend(text, end) \in ScreenState
         /\ \/ Extend(text, end) = screen
            \/ /\ screen.end = end - Len(text)
               /\ Extend(text, end).text = screen.text \o text
               /\ Extend(text, end).end = end
<1>1. CASE screen.end # end - Len(text)
  BY <1>1 DEF Extend
<1>2. CASE screen.end = end - Len(text)
  <2> DEFINE longer == screen.text \o text
  <2>1. longer \in Text
    BY DEF ScreenState, Text
  <2>2. Extend(text, end) = [screen EXCEPT !.text = longer, !.end = end]
    BY <1>2 DEF Extend
  <2> HIDE DEF longer
  <2>3. /\ Extend(text, end) \in ScreenState /\ Extend(text, end).text = longer
        /\ Extend(text, end).end = end
    BY <2>1, <2>2 DEF ScreenState
  <2> QED
    BY <1>2, <2>3 DEF longer
<1> QED
  BY <1>1, <1>2

LEMMA NoScreenTyped ==
  NoScreen \in ScreenState /\ NoScreen.end = None /\ NoPoll \in PollRead /\ NoPoll.pc = "none"
<1>1. <<>> \in Text /\ 0 \in Offsets /\ None \in Offsets \cup {None}
  BY FreeTyped
<1> QED
  BY <1>1 DEF NoScreen, NoPoll, ScreenState, PollRead, Statuses

LEMMA PollLogEffect ==
  ASSUME OperationTypes, poll \in PollRead, ServiceInv, LogInv, PollLog
  PROVE  /\ poll' \in PollRead /\ poll'.pc = "apply" /\ poll'.bytes = 0 /\ poll'.kept = 0
         /\ file.from = 0 /\ poll.kept = poll.bytes => TrueText(poll'.text, poll'.end)
<1> DEFINE start == IF poll.kept > Window THEN poll.kept - Window ELSE 0
           text == ReadLog(start, Window)
           end == poll.bytes - poll.kept + start + Len(text)
<1>1. /\ poll.bytes \in Nat /\ poll.kept \in Nat /\ start \in Nat /\ start <= poll.kept
      /\ Window \in Nat
  BY PollTyped, Sizes
<1>2. file \in FileState /\ file.from \in Nat /\ file.to \in Nat /\ file.to <= MaxOutput
  BY FileTyped DEF OperationTypes
<1>3. /\ text \in Text /\ Len(text) \in Nat
      /\ Len(text) > 0 => file.from + start + Len(text) <= file.to
      /\ text = Bytes(file.from + start, file.from + start + Len(text))
  <2> HIDE DEF start
  <2> QED
    BY <1>1, <1>2, ReadLogIs, Zenon
<1> HIDE DEF text
<1>4. poll.kept <= poll.bytes /\ poll.bytes - poll.kept <= Floor /\ poll.bytes <= record.bytes
  BY DEF LogInv
<1>5. Len(text) > 0 => Floor = file.from
  <2> HAVE Len(text) > 0
  <2>1. file.from < file.to
    BY <1>1, <1>2, <1>3, <2>1
  <2> QED
    BY <1>2, <2>1 DEF LogInv, Floor
<1>6. end \in Offsets
  <2>1. record.bytes <= MaxOutput /\ record.bytes \in Nat
    BY RecordTyped DEF OperationTypes
  <2> DEFINE size == Len(text)
             gap == poll.bytes - poll.kept
  <2>2. gap \in Nat /\ size \in Nat /\ end = gap + start + size
    BY <1>1, <1>3, <1>4
  <2> HIDE DEF start, end, gap, size
  <2>3. end \in Nat
    BY <1>1, <2>2
  <2>4. end <= MaxOutput
    <3>1. CASE size = 0
      <4>1. gap + start <= poll.bytes
        BY <1>1, <1>4 DEF gap
      <4> QED
        BY <1>1, <1>4, <2>1, <2>2, <3>1, <4>1, Sizes
    <3>2. CASE size > 0
      <4>1. gap <= file.from /\ file.from + start + size <= file.to
        BY <1>3, <1>4, <1>5, <3>2 DEF gap, size
      <4> QED
        BY <1>1, <1>2, <2>2, <4>1, Sizes
    <3> QED
      BY <2>2, <3>1, <3>2
  <2> QED
    BY <2>3, <2>4, Sizes DEF Offsets
<1>7. poll' = [NoPoll EXCEPT !.pc = "apply", !.text = text, !.end = end]
  BY Zenon DEF PollLog, text
<1> HIDE DEF end
<1>8. /\ poll' \in PollRead /\ poll'.pc = "apply" /\ poll'.bytes = 0 /\ poll'.kept = 0
      /\ poll'.text = text /\ poll'.end = end
  BY <1>3, <1>6, <1>7, NoScreenTyped DEF PollRead, NoPoll
<1>9. ASSUME file.from = 0, poll.kept = poll.bytes
      PROVE  text = Bytes(end - Len(text), end)
  <2>1. file.from + start = end - Len(text) /\ file.from + start + Len(text) = end
    BY <1>1, <1>3, <1>9 DEF end
  <2> QED
    BY <1>3, <2>1
<1> QED
  BY <1>8, <1>9 DEF TrueText

-----------------------------------------------------------------------------
(***************************************************************************)
(* Every step keeps the types.                                             *)
(***************************************************************************)

Quiet ==
    Write \/ Exit \/ AppendLog \/ Trim \/ Rewrite \/ CommitOutput \/ CommitExit

LEMMA QuietIs ==
  ASSUME Quiet
  PROVE  Operation /\ UNCHANGED <<sink, conn, client, screen, poll, moves>>
BY DEF Quiet, Operation, Service, Write, Exit, AppendLog, Trim, Rewrite, CommitOutput,
       CommitExit, Page

LEMMA PublishingIs ==
  ASSUME OperationTypes, ServiceInv, PublishOutput \/ PublishStatus
  PROVE  /\ Operation /\ UNCHANGED <<file, record, client, screen, poll, moves>>
         /\ PublishOutput => /\ Publish(Output(record.bytes)) /\ record.bytes \in 1 .. MaxOutput
                             /\ Output(record.bytes) \in Message
         /\ PublishStatus => Publish(StatusMessage("exited"))
         /\ StatusMessage("exited") \in Message
<1>1. Operation /\ UNCHANGED <<file, record, client, screen, poll, moves>>
  BY DEF Operation, Service, PublishOutput, PublishStatus, Page
<1>2. PublishOutput => Publish(Output(record.bytes)) /\ record.bytes \in 1 .. MaxOutput
  <2> HAVE PublishOutput
  <2>1. Publish(Output(record.bytes)) /\ command.op = "publish"
    BY Zenon DEF PublishOutput
  <2>2. record.bytes \in 1 .. MaxOutput
    BY <2>1, Sizes, CommandTyped, RecordTyped DEF OperationTypes, ServiceInv
  <2> QED
    BY <2>1, <2>2
<1>3. PublishOutput => Output(record.bytes) \in Message
  BY <1>2, OutputTyped
<1>4. PublishStatus => Publish(StatusMessage("exited"))
  BY Zenon DEF PublishStatus
<1> QED
  BY <1>1, <1>2, <1>3, <1>4, StatusTyped

HandshakeOrServer ==
    \/ \E h \in Sinks : Handshake(h)
    \/ \E s \in Sockets : Server(s)

LEMMA ServerIs ==
  ASSUME HandshakeOrServer
  PROVE  UNCHANGED <<command, file, record, client, screen, poll, moves>>
BY DEF HandshakeOrServer, Handshake, Server, GetSession, ReadSession, Complete,
       HandleSubscribe, HandleUnsubscribe, CleanupSocket, Page

LEMMA EnqueuedTyped ==
  ASSUME OperationTypes
  PROVE  Enqueued \in 0 .. MaxOutput + 1
BY Sizes, CommandTyped DEF OperationTypes, Enqueued

LEMMA ServerTyped ==
  ASSUME OperationTypes, Parts, ServiceInv, LogInv, EntriesInv, BufferInv, HandshakeOrServer
  PROVE  Parts'
<1>1. ASSUME NEW h \in Sinks, GetSession(h) PROVE Parts'
  BY <1>1, EnqueuedTyped, GetSessionEffect
<1>2. ASSUME NEW h \in Sinks, ReadSession(h) PROVE Parts'
  BY <1>2, ReadSessionEffect DEF OperationTypes
<1>3. ASSUME NEW h \in Sinks, Complete(h) PROVE Parts'
  BY <1>3, CompleteEffect
<1>4. ASSUME NEW s \in Sockets, HandleSubscribe(s) PROVE Parts'
  BY <1>4, HandleSubscribeEffect
<1>5. ASSUME NEW s \in Sockets, HandleUnsubscribe(s) PROVE Parts'
  BY <1>5, HandleUnsubscribeEffect
<1>6. ASSUME NEW s \in Sockets, CleanupSocket(s) PROVE Parts'
  BY <1>6, CleanupSocketEffect
<1> QED
  BY <1>1, <1>2, <1>3, <1>4, <1>5, <1>6, Zenon DEF HandshakeOrServer, Handshake, Server

LEMMA OpensIs ==
  ASSUME Parts, client \in ClientState, Connect \/ ReconnectOpen
  PROVE  /\ Parts' /\ client' \in ClientState
         /\ UNCHANGED <<command, file, record, sink, screen, poll>>
         /\ (SameClient /\ conn' = conn) \/ \E s \in Sockets : Opened(s)
<1>1. CASE Connect
  <2>1. UNCHANGED <<command, file, record, sink, screen, poll>>
    BY <1>1, Zenon DEF Connect
  <2> QED
    BY <1>1, <2>1, ConnectEffect DEF Parts
<1>2. CASE ReconnectOpen
  <2>1. UNCHANGED <<command, file, record, sink, screen, poll>>
    BY <1>2, Zenon DEF ReconnectOpen
  <2> QED
    BY <1>2, <2>1, ReconnectOpenEffect DEF Parts
<1> QED
  BY <1>1, <1>2

LEMMA PollIs ==
  ASSUME Poll
  PROVE  UNCHANGED <<command, file, record, sink, conn, client>>
BY DEF Poll, PollBegin, PollState, PollLog, PollApply

LEMMA PollEffect ==
  ASSUME OperationTypes, poll \in PollRead, screen \in ScreenState, ServiceInv, LogInv, Poll
  PROVE  poll' \in PollRead /\ screen' \in ScreenState
<1>1. CASE PollBegin
  BY <1>1 DEF PollBegin, PollRead
<1>2. CASE PollState
  <2>1. record.bytes \in Offsets /\ record.kept \in Offsets /\ record.status \in Statuses
    BY DEF OperationTypes, RecordState
  <2>2. poll' \in PollRead
    BY <1>2, <2>1 DEF PollState, PollRead
  <2>3. screen' \in ScreenState
    BY <1>2, <2>1 DEF PollState, ScreenState
  <2> QED
    BY <2>2, <2>3
<1>3. CASE PollLog
  BY <1>3, PollLogEffect DEF PollLog
<1>4. CASE PollApply
  <2>1. poll.text \in Text /\ poll.end \in Offsets
    BY DEF PollRead
  <2> QED
    BY <1>4, <2>1, PaintIs, NoScreenTyped DEF PollApply
<1> QED
  BY <1>1, <1>2, <1>3, <1>4 DEF Poll

LEMMA TypeParts ==
  ASSUME TypeOK
  PROVE  /\ OperationTypes /\ Parts /\ client \in ClientState /\ screen \in ScreenState
         /\ poll \in PollRead /\ moves \in 0 .. MaxMoves
BY DEF TypeOK, OperationTypes, Parts

LEMMA MovesStep ==
  ASSUME moves \in 0 .. MaxMoves, Next
  PROVE  moves' \in 0 .. MaxMoves
<1>1. Spend => moves' \in 0 .. MaxMoves
  BY Sizes DEF Spend
<1>2. moves' = moves \/ Spend
  <2>1. CASE Write \/ Exit \/ Service
    BY <2>1 DEF Write, Exit, Service, AppendLog, Trim, Rewrite, CommitOutput, PublishOutput,
                CommitExit, PublishStatus, Page
  <2>2. ASSUME NEW h \in Sinks, Handshake(h) PROVE moves' = moves
    BY <2>2 DEF Handshake, GetSession, ReadSession, Complete, Page
  <2>3. ASSUME NEW s \in Sockets, Server(s) \/ Browser(s) \/ Drop(s)
        PROVE  moves' = moves \/ Spend
    BY <2>3, Zenon DEF Server, Browser, Drop, HandleSubscribe, HandleUnsubscribe, CleanupSocket,
                OnOpen, OnClose, OnMessage, Page
  <2>4. CASE Timers
    BY <2>4, Zenon DEF Timers, ReconnectTimer, ReconnectOpen, SnapshotTimer
  <2>5. CASE Poll
    BY <2>5, Zenon DEF Poll, PollBegin, PollState, PollLog, PollApply
  <2>6. CASE User
    BY <2>6, Zenon DEF User, Connect, Subscribe, Unsubscribe, Dispose
  <2> QED
    BY <2>1, <2>2, <2>3, <2>4, <2>5, <2>6 DEF Next
<1> QED
  BY <1>1, <1>2

LEMMA MessageStepTyped ==
  ASSUME Parts, client \in ClientState, screen \in ScreenState, NEW s \in Sockets, OnMessage(s)
  PROVE  screen' \in ScreenState
<1>1. PICK m \in Message :
        Ignored(s, m) \/ SnapshotApplied(s, m) \/ OutputApplied(s, m) \/ StatusApplied(s, m)
  BY OnMessageEffect
<1>2. m.text \in Text /\ m.end \in Offsets /\ m.status \in Statuses
  BY DEF Message
<1>3. CASE Ignored(s, m)
  BY <1>3 DEF Ignored
<1>4. CASE SnapshotApplied(s, m)
  <2> DEFINE p == Paint(m.text, m.end)
  <2>1. p \in ScreenState
    BY <1>2, PaintIs
  <2>2. screen' = [p EXCEPT !.status = m.status]
    BY <1>4 DEF SnapshotApplied
  <2> HIDE DEF p
  <2> QED
    BY <1>2, <2>1, <2>2 DEF ScreenState
<1>5. CASE OutputApplied(s, m)
  BY <1>2, <1>5, ExtendIs DEF OutputApplied
<1>6. CASE StatusApplied(s, m)
  BY <1>2, <1>6 DEF StatusApplied, ScreenState
<1> QED
  BY <1>1, <1>3, <1>4, <1>5, <1>6

LEMMA TypeStep ==
  ASSUME TypeOK, ServiceInv, LogInv, EntriesInv, ClientInv, BufferInv, Next
  PROVE  TypeOK'
<1> USE TypeParts
<1>1. moves' \in 0 .. MaxMoves
  BY MovesStep
<1> DEFINE Rest == /\ OperationTypes' /\ Parts' /\ client' \in ClientState
                   /\ screen' \in ScreenState /\ poll' \in PollRead
<1>2. SUFFICES Rest
  BY <1>1, Zenon DEF TypeOK, OperationTypes, Parts
<1>3. UNCHANGED <<command, file, record>> => OperationTypes'
  BY DEF OperationTypes
<1>4. CASE Quiet
  <2>1. UNCHANGED <<sink, conn, client, screen, poll>> /\ Operation
    BY <1>4, QuietIs
  <2>2. OperationTypes'
    BY <2>1, OperationStep
  <2> QED
    BY <2>1, <2>2 DEF Parts
<1>5. CASE PublishOutput \/ PublishStatus
  <2>1. UNCHANGED <<client, screen, poll>> /\ Operation
    BY <1>5, PublishingIs
  <2>2. OperationTypes'
    BY <2>1, OperationStep
  <2>3. Parts'
    BY <1>5, PublishingIs, PublishEffect
  <2> QED
    BY <2>1, <2>2, <2>3
<1>6. CASE HandshakeOrServer
  BY <1>3, <1>6, ServerIs, ServerTyped
<1>7. ASSUME NEW s \in Sockets, OnOpen(s) PROVE Rest
  BY <1>3, <1>7, OnOpenEffect DEF OnOpen
<1>8. ASSUME NEW s \in Sockets, OnClose(s) PROVE Rest
  BY <1>3, <1>8, OnCloseEffect DEF OnClose
<1>9. ASSUME NEW s \in Sockets, OnMessage(s) PROVE Rest
  BY <1>3, <1>9, OnMessageEffect, MessageStepTyped
<1>10. ASSUME NEW s \in Sockets, Drop(s) PROVE Rest
  BY <1>3, <1>10, DropEffect
<1>11. CASE ReconnectTimer \/ SnapshotTimer
  BY <1>3, <1>11, TimersEffect DEF Parts
<1>12. CASE Connect \/ ReconnectOpen
  BY <1>3, <1>12, OpensIs
<1>13. CASE Subscribe
  <2>1. conn' \in [Sockets -> Connection]
    BY <1>13, SubscribeEffect, UpwardIs DEF Parts
  <2> QED
    BY <1>3, <1>13, <2>1, SubscribeEffect DEF Parts
<1>14. CASE Unsubscribe
  <2>1. conn' \in [Sockets -> Connection]
    BY <1>14, UnsubscribeEffect, UpwardIs DEF Parts
  <2> QED
    BY <1>3, <1>14, <2>1, UnsubscribeEffect, NoScreenTyped DEF Parts
<1>15. CASE Dispose
  BY <1>3, <1>15, DisposeEffect, NoScreenTyped
<1>16. CASE Poll
  BY <1>3, <1>16, PollIs, PollEffect DEF Parts
<1> HIDE DEF Rest
<1> QED
  BY <1>4, <1>5, <1>6, <1>7, <1>8, <1>9, <1>10, <1>11, <1>12, <1>13, <1>14, <1>15, <1>16, Zenon
     DEF Next, Service, HandshakeOrServer, Browser, Timers, User, Quiet

LEMMA LogStep ==
  ASSUME TypeOK, ServiceInv, LogInv, EntriesInv, ClientInv, BufferInv, Next
  PROVE  ServiceInv' /\ LogInv'
<1> USE TypeParts
<1> DEFINE Log == ServiceInv' /\ LogInv'
           Still == UNCHANGED <<command, file, record>>
<1>1. Operation /\ UNCHANGED poll => Log
  BY OperationStep
<1>2. Still => ServiceInv'
  BY DEF ServiceInv, ExitSaid, Published
<1>3. Still /\ UNCHANGED poll => Log
  BY <1>2 DEF LogInv, Floor
<1>4. /\ Still /\ poll'.bytes = 0 /\ poll'.kept = 0 => Log
  <2>1. Floor >= 0 /\ record.bytes \in Nat
    BY Sizes, FileTyped, RecordTyped DEF OperationTypes, Floor, LogInv
  <2> QED
    BY <1>2, <2>1 DEF LogInv, Floor
<1>5. CASE Quiet
  BY <1>1, <1>5, QuietIs
<1>6. CASE PublishOutput \/ PublishStatus
  BY <1>1, <1>6, PublishingIs
<1>7. CASE HandshakeOrServer
  BY <1>3, <1>7, ServerIs
<1>8. ASSUME NEW s \in Sockets, Browser(s) \/ Drop(s) PROVE Still /\ UNCHANGED poll
  BY <1>8, Zenon DEF Browser, OnOpen, OnClose, OnMessage, Drop
<1>9. CASE Timers \/ Connect \/ Subscribe \/ Unsubscribe
  <2>1. Still /\ UNCHANGED poll
    BY <1>9, Zenon DEF Timers, ReconnectTimer, ReconnectOpen, SnapshotTimer, Connect, Subscribe,
                       Unsubscribe
  <2> QED
    BY <1>3, <2>1
<1>10. CASE Dispose
  BY <1>4, <1>10, DisposeEffect DEF NoPoll
<1>11. CASE PollBegin
  <2>1. Still /\ poll'.bytes = poll.bytes /\ poll'.kept = poll.kept
    BY <1>11 DEF PollBegin, PollRead
  <2> QED
    BY <1>2, <2>1 DEF LogInv, Floor
<1>12. CASE PollState
  <2>1. Still /\ poll'.bytes = record.bytes /\ poll'.kept = record.kept
    BY <1>12 DEF PollState, PollRead
  <2>2. record.bytes \in Nat
    BY RecordTyped DEF OperationTypes
  <2> QED
    BY <1>2, <2>1, <2>2 DEF LogInv, Floor
<1>13. CASE PollLog
  BY <1>4, <1>13, PollLogEffect DEF PollLog
<1>14. CASE PollApply
  <2>1. Still /\ poll'.bytes = 0 /\ poll'.kept = 0
    BY <1>14 DEF PollApply, NoPoll
  <2> QED
    BY <1>4, <2>1
<1>15. ASSUME NEW s \in Sockets, Browser(s) \/ Drop(s) PROVE Log
  BY <1>3, <1>8, <1>15
<1> HIDE DEF Log, Still
<1> QED
  BY <1>5, <1>6, <1>7, <1>9, <1>10, <1>11, <1>12, <1>13, <1>14, <1>15, Zenon
     DEF Next, Service, HandshakeOrServer, User, Poll, Quiet, Log

-----------------------------------------------------------------------------
(***************************************************************************)
(* Every step keeps entries and sockets of one mind.                       *)
(***************************************************************************)

LEMMA EntriesKept ==
  ASSUME EntriesInv,
         \A h \in Sinks : /\ sink'[h].pc = sink[h].pc /\ sink'[h].socket = sink[h].socket
                          /\ sink'[h].generation = sink[h].generation,
         \A t \in Sockets : /\ conn'[t].server = conn[t].server /\ conn'[t].sub = conn[t].sub
                            /\ conn'[t].handshake = conn[t].handshake
                            /\ conn'[t].link => conn[t].link
                            /\ ~conn'[t].link => conn'[t].up = <<>> /\ conn'[t].down = <<>>,
         \A h \in Sinks : sink[h].pc = "live" => sink[h].socket \in Sockets
  PROVE  EntriesInv'
<1>1. ASSUME NEW h \in Sinks PROVE EntryOK(h)'
  <2>1. EntryOK(h)
    BY DEF EntriesInv
  <2> QED
    BY <2>1 DEF EntryOK
<1>2. ASSUME NEW t \in Sockets PROVE SocketOK(t)'
  <2>1. SocketOK(t)
    BY DEF EntriesInv
  <2> QED
    BY <2>1 DEF SocketOK
<1> QED
  BY <1>1, <1>2 DEF EntriesInv

LEMMA SocketsOf ==
  ASSUME Parts, EntriesInv
  PROVE  \A h \in Sinks : sink[h].pc # "none" => sink[h].socket \in Sockets
<1> TAKE h \in Sinks
<1>1. sink[h] \in Entry /\ EntryOK(h)
  BY DEF Parts, EntriesInv
<1> QED
  BY <1>1, EntryTyped DEF EntryOK

LEMMA ServerEntries ==
  ASSUME OperationTypes, Parts, ServiceInv, LogInv, EntriesInv, BufferInv, HandshakeOrServer
  PROVE  EntriesInv'
<1>0. /\ \A h \in Sinks : EntryOK(h)
      /\ \A s \in Sockets : SocketOK(s)
      /\ \A h \in Sinks : sink[h].pc # "none" => sink[h].socket \in Sockets
  BY SocketsOf DEF EntriesInv
<1>1. ASSUME NEW h \in Sinks, GetSession(h) \/ ReadSession(h) PROVE EntriesInv'
  <2>1. /\ conn' = conn /\ \A g \in Sinks \ {h} : sink'[g] = sink[g]
        /\ sink[h].pc \in Pending /\ sink'[h].pc \in Pending
        /\ sink'[h].socket = sink[h].socket /\ sink'[h].generation = sink[h].generation
    BY <1>1, EnqueuedTyped, GetSessionEffect, ReadSessionEffect DEF OperationTypes, Pending
  <2>2. ASSUME NEW g \in Sinks PROVE EntryOK(g)'
    BY <1>0, <2>1 DEF EntryOK, Pending
  <2>3. ASSUME NEW t \in Sockets PROVE SocketOK(t)'
    BY <1>0, <2>1 DEF SocketOK, Pending
  <2> QED
    BY <2>2, <2>3 DEF EntriesInv
<1>2. ASSUME NEW h \in Sinks, Complete(h) PROVE EntriesInv'
  <2>0. PICK s \in Sockets : Completed(h, s)
    BY <1>2, CompleteEffect
  <2>1. /\ s \in Sockets /\ sink[h].pc = "log"
        /\ \A g \in Sinks \ {h} : sink'[g] = sink[g]
        /\ \A t \in Sockets \ {s} : conn'[t] = conn[t]
        /\ conn'[s].link = conn[s].link /\ conn'[s].server = conn[s].server
        /\ conn'[s].up = conn[s].up
        /\ ~(conn[s].link /\ conn[s].server) => conn'[s].down = conn[s].down
        /\ \/ /\ conn[s].handshake # sink[h].generation
              /\ sink'[h] = FreeSink
              /\ conn'[s].handshake = conn[s].handshake /\ conn'[s].sub = conn[s].sub
           \/ /\ conn[s].handshake = sink[h].generation
              /\ sink'[h].pc = "live" /\ sink'[h].socket = s
              /\ conn'[s].handshake = 0 /\ conn'[s].sub = h
    BY <2>0, Zenon DEF Completed
  <2>2. sink[h].generation \in Nat /\ sink[h].generation >= 1
    BY <1>0, <2>1, EntryTyped DEF Parts, EntryOK, Pending
  <2>3. ASSUME NEW g \in Sinks PROVE EntryOK(g)'
    <3>1. CASE g = h
      <4>1. CASE sink'[h] = FreeSink
        BY <3>1, <4>1, FreeTyped DEF EntryOK, Pending
      <4>2. CASE /\ conn[s].handshake = sink[h].generation /\ sink'[h].pc = "live"
                 /\ sink'[h].socket = s /\ conn'[s].sub = h
        <5>1. conn[s].server
          BY <1>0, <2>1, <2>2, <4>2 DEF SocketOK
        <5> QED
          BY <2>1, <3>1, <4>2, <5>1, Sizes DEF EntryOK, Pending
      <4> QED
        BY <2>1, <4>1, <4>2
    <3>2. CASE g # h
      <4>1. EntryOK(g) /\ sink'[g] = sink[g]
        BY <1>0, <2>1, <3>2
      <4>2. CASE sink[g].pc = "live" /\ sink[g].socket = s
        <5>1. conn[s].sub = g /\ g # NoSink
          BY <4>1, <4>2, Sizes DEF EntryOK
        <5>2. conn[s].handshake = 0
          BY <1>0, <2>1, <5>1 DEF SocketOK
        <5> QED
          BY <2>1, <2>2, <4>1, <4>2, <5>1, <5>2 DEF EntryOK
      <4>3. CASE ~(sink[g].pc = "live" /\ sink[g].socket = s)
        BY <1>0, <2>1, <4>1, <4>3 DEF EntryOK
      <4> QED
        BY <4>2, <4>3
    <3> QED
      BY <3>1, <3>2
  <2>4. ASSUME NEW t \in Sockets PROVE SocketOK(t)'
    <3>1. SocketOK(t)
      BY <1>0
    <3>2. CASE t # s
      BY <2>1, <3>1, <3>2 DEF SocketOK
    <3>3. CASE t = s /\ sink'[h] = FreeSink
      BY <2>1, <2>2, <3>1, <3>3, FreeTyped DEF SocketOK
    <3>4. CASE /\ t = s /\ conn[s].handshake = sink[h].generation
               /\ sink'[h].pc = "live" /\ sink'[h].socket = s
               /\ conn'[s].handshake = 0 /\ conn'[s].sub = h
      BY <2>1, <2>2, <3>1, <3>4 DEF SocketOK
    <3> QED
      BY <2>1, <3>2, <3>3, <3>4
  <2> QED
    BY <2>3, <2>4 DEF EntriesInv
<1>3. ASSUME NEW s \in Sockets, HandleSubscribe(s) PROVE EntriesInv'
  <2>1. /\ conn[s].link /\ conn[s].server
        /\ \A t \in Sockets \ {s} : conn'[t] = conn[t]
        /\ conn'[s].link = conn[s].link /\ conn'[s].server = conn[s].server
        /\ conn'[s].handshake = conn[s].handshake + 1 /\ conn'[s].sub = NoSink
    BY <1>3, HandleSubscribeEffect
  <2>2. PICK h \in Sinks :
               /\ WithoutSub(s)[h].pc = "none"
               /\ sink'[h].pc = "session" /\ sink'[h].socket = s
               /\ sink'[h].generation = conn[s].handshake + 1
               /\ \A g \in Sinks \ {h} : sink'[g] = WithoutSub(s)[g]
    BY <1>3, HandleSubscribeEffect
  <2>3. conn[s].handshake \in Nat
    BY ConnectionTyped DEF Parts
  <2>4. \A g \in Sinks : WithoutSub(s)[g] = IF g = conn[s].sub THEN FreeSink ELSE sink[g]
    BY WithoutSubIs
  <2>5. ASSUME NEW g \in Sinks PROVE EntryOK(g)'
    <3>1. CASE g = h
      BY <2>2, <2>3, <3>1, Sizes DEF EntryOK
    <3>2. CASE g # h /\ g = conn[s].sub
      <4>1. sink'[g] = FreeSink
        BY <2>2, <2>4, <3>2
      <4> QED
        BY <4>1, FreeTyped DEF EntryOK, Pending
    <3>3. CASE g # h /\ g # conn[s].sub
      <4>1. sink'[g] = sink[g] /\ EntryOK(g)
        BY <1>0, <2>2, <2>4, <3>3
      <4> QED
        BY <1>0, <2>1, <3>3, <4>1 DEF EntryOK
    <3> QED
      BY <3>1, <3>2, <3>3
  <2>6. ASSUME NEW t \in Sockets PROVE SocketOK(t)'
    <3>1. CASE t = s
      BY <2>1, <3>1, Sizes DEF SocketOK
    <3>2. CASE t # s
      <4>1. SocketOK(t) /\ conn'[t] = conn[t]
        BY <1>0, <2>1, <3>2
      <4>2. ASSUME NEW g \in Sinks, conn[t].sub = g PROVE sink'[g] = sink[g]
        <5>1. sink[g].pc = "live" /\ sink[g].socket = t
          BY <4>1, <4>2 DEF SocketOK
        <5>2. g # conn[s].sub
          BY <1>0, <3>2, <5>1 DEF SocketOK
        <5>3. g # h
          BY <2>2, <2>4, <5>1, <5>2
        <5> QED
          BY <2>2, <2>4, <5>2, <5>3
      <4> QED
        BY <4>1, <4>2 DEF SocketOK
    <3> QED
      BY <3>1, <3>2
  <2> QED
    BY <2>5, <2>6 DEF EntriesInv
<1>4. ASSUME NEW s \in Sockets, HandleUnsubscribe(s) PROVE EntriesInv'
  <2>1. /\ conn[s].link /\ conn[s].server
        /\ \A t \in Sockets \ {s} : conn'[t] = conn[t]
        /\ conn'[s].link = conn[s].link /\ conn'[s].server = conn[s].server
        /\ conn'[s].sub = NoSink /\ sink' = WithoutSub(s)
    BY <1>4, HandleUnsubscribeEffect
  <2>2. \A g \in Sinks : sink'[g] = IF g = conn[s].sub THEN FreeSink ELSE sink[g]
    BY <2>1, WithoutSubIs
  <2>3. ASSUME NEW g \in Sinks PROVE EntryOK(g)'
    <3>1. CASE g = conn[s].sub
      <4>1. sink'[g] = FreeSink
        BY <2>2, <3>1
      <4> QED
        BY <4>1, FreeTyped DEF EntryOK, Pending
    <3>2. CASE g # conn[s].sub
      <4>1. sink'[g] = sink[g] /\ EntryOK(g)
        BY <1>0, <2>2, <3>2
      <4> QED
        BY <1>0, <2>1, <3>2, <4>1 DEF EntryOK
    <3> QED
      BY <3>1, <3>2
  <2>4. ASSUME NEW t \in Sockets PROVE SocketOK(t)'
    <3>1. CASE t = s
      BY <2>1, <3>1, Sizes DEF SocketOK
    <3>2. CASE t # s
      <4>1. SocketOK(t) /\ conn'[t] = conn[t]
        BY <1>0, <2>1, <3>2
      <4>2. ASSUME NEW g \in Sinks, conn[t].sub = g PROVE sink'[g] = sink[g]
        <5>1. sink[g].pc = "live" /\ sink[g].socket = t
          BY <4>1, <4>2 DEF SocketOK
        <5>2. g # conn[s].sub
          BY <1>0, <3>2, <5>1 DEF SocketOK
        <5> QED
          BY <2>2, <5>2
      <4> QED
        BY <4>1, <4>2 DEF SocketOK
    <3> QED
      BY <3>1, <3>2
  <2> QED
    BY <2>3, <2>4 DEF EntriesInv
<1>5. ASSUME NEW s \in Sockets, CleanupSocket(s) PROVE EntriesInv'
  <2>1. /\ ~conn[s].link
        /\ \A t \in Sockets \ {s} : conn'[t] = conn[t]
        /\ ~conn'[s].link /\ ~conn'[s].server /\ conn'[s].down = conn[s].down
        /\ conn'[s].up = conn[s].up /\ conn'[s].handshake = 0 /\ conn'[s].sub = NoSink
        /\ \A g \in Sinks :
               /\ g = conn[s].sub => sink'[g].pc = "none" /\ sink'[g].socket = NoSocket
               /\ g # conn[s].sub => sink'[g].pc = sink[g].pc /\ sink'[g].socket = sink[g].socket
                                     /\ sink'[g].generation = sink[g].generation
    BY <1>5, CleanupSocketEffect, Zenon
  <2>2. ASSUME NEW g \in Sinks PROVE EntryOK(g)'
    <3>1. CASE g = conn[s].sub
      BY <2>1, <3>1 DEF EntryOK, Pending
    <3>2. CASE g # conn[s].sub
      <4>1. /\ sink'[g].pc = sink[g].pc /\ sink'[g].socket = sink[g].socket
            /\ sink'[g].generation = sink[g].generation
        BY <2>1, <3>2
      <4>2. EntryOK(g)
        BY <1>0
      <4>3. sink[g].pc = "live" => sink[g].socket # s /\ sink[g].socket \in Sockets
        BY <1>0, <3>2, <4>2 DEF EntryOK
      <4> QED
        BY <2>1, <4>1, <4>2, <4>3 DEF EntryOK
    <3> QED
      BY <3>1, <3>2
  <2>3. ASSUME NEW t \in Sockets PROVE SocketOK(t)'
    <3>1. CASE t = s
      <4>1. SocketOK(s)
        BY <1>0
      <4> QED
        BY <2>1, <3>1, <4>1, Sizes DEF SocketOK
    <3>2. CASE t # s
      <4>1. SocketOK(t) /\ conn'[t] = conn[t]
        BY <1>0, <2>1, <3>2
      <4>2. ASSUME NEW g \in Sinks, conn[t].sub = g
            PROVE  sink'[g].pc = "live" /\ sink'[g].socket = t
        <5>1. sink[g].pc = "live" /\ sink[g].socket = t
          BY <4>1, <4>2 DEF SocketOK
        <5>2. g # conn[s].sub
          BY <1>0, <3>2, <5>1 DEF SocketOK
        <5> QED
          BY <2>1, <5>1, <5>2
      <4> QED
        BY <4>1, <4>2 DEF SocketOK
    <3> QED
      BY <3>1, <3>2
  <2> QED
    BY <2>2, <2>3 DEF EntriesInv
<1> QED
  BY <1>1, <1>2, <1>3, <1>4, <1>5, Zenon DEF HandshakeOrServer, Handshake, Server

LEMMA EntriesStep ==
  ASSUME TypeOK, ServiceInv, LogInv, EntriesInv, ClientInv, BufferInv, Next
  PROVE  EntriesInv'
<1> USE TypeParts
<1>0. /\ \A h \in Sinks : sink[h].pc = "live" => sink[h].socket \in Sockets
      /\ \A s \in Sockets : SocketOK(s)
      /\ \A s \in Sockets : conn[s] \in Connection
  BY SocketsOf DEF EntriesInv, Parts
<1>1. UNCHANGED <<sink, conn>> => EntriesInv'
  BY <1>0, EntriesKept DEF SocketOK
<1>2. CASE Quiet
  BY <1>1, <1>2, QuietIs
<1>3. CASE PublishOutput \/ PublishStatus
  <2>1. PICK m \in Message : Publish(m)
    BY <1>3, PublishingIs
  <2>2. /\ \A h \in Sinks : /\ sink'[h].pc = sink[h].pc /\ sink'[h].socket = sink[h].socket
                            /\ sink'[h].generation = sink[h].generation
        /\ \A t \in Sockets : /\ conn'[t].server = conn[t].server /\ conn'[t].sub = conn[t].sub
                              /\ conn'[t].handshake = conn[t].handshake
                              /\ conn'[t].link = conn[t].link /\ conn'[t].up = conn[t].up
                              /\ ~conn[t].link => conn'[t].down = conn[t].down
    BY <2>1, PublishEffect
  <2> QED
    BY <1>0, <2>2, EntriesKept DEF SocketOK
<1>4. CASE HandshakeOrServer
  BY <1>4, ServerEntries
<1>5. CASE Timers \/ Connect
  <2>1. CASE ReconnectTimer \/ SnapshotTimer
    BY <1>1, <2>1, TimersEffect
  <2>2. CASE Connect \/ ReconnectOpen
    <3>1. sink' = sink /\ ((SameClient /\ conn' = conn) \/ \E s \in Sockets : Opened(s))
      BY <2>2, OpensIs
    <3>2. ASSUME NEW s \in Sockets, Opened(s) PROVE EntriesInv'
      <4>1. /\ \A t \in Sockets \ {s} : conn'[t] = conn[t]
            /\ conn'[s].server /\ conn'[s].link /\ conn'[s].handshake = 0 /\ conn'[s].sub = NoSink
            /\ \A h \in Sinks : sink[h].socket # s
        BY <3>2 DEF Opened, FreeSocket
      <4>2. ASSUME NEW h \in Sinks PROVE EntryOK(h)'
        <5>1. EntryOK(h)
          BY DEF EntriesInv
        <5> QED
          BY <1>0, <3>1, <4>1, <5>1 DEF EntryOK
      <4>3. ASSUME NEW t \in Sockets PROVE SocketOK(t)'
        <5>1. CASE t = s
          BY <4>1, <5>1, Sizes DEF SocketOK
        <5>2. CASE t # s
          BY <1>0, <3>1, <4>1, <5>2 DEF SocketOK
        <5> QED
          BY <5>1, <5>2
      <4> QED
        BY <4>2, <4>3 DEF EntriesInv
    <3> QED
      BY <1>1, <3>1, <3>2
  <2> QED
    BY <1>5, <2>1, <2>2 DEF Timers
<1>6. CASE Subscribe \/ Unsubscribe
  <2>1. PICK m \in {"subscribe", "unsubscribe"} : conn' = Upward(conn, m) /\ sink' = sink
    BY <1>6, SubscribeEffect, UnsubscribeEffect
  <2>2. \A t \in Sockets :
               /\ conn'[t].link = conn[t].link /\ conn'[t].server = conn[t].server
               /\ conn'[t].handshake = conn[t].handshake
               /\ conn'[t].sub = conn[t].sub /\ conn'[t].down = conn[t].down
               /\ ~conn[t].link => conn'[t].up = conn[t].up
    BY <2>1, UpwardIs DEF Parts
  <2> QED
    BY <1>0, <2>1, <2>2, EntriesKept DEF SocketOK
<1>7. CASE Dispose
  <2>1. /\ sink' = sink
        /\ \A t \in Sockets : IF t = client.socket THEN Unlinked(t) ELSE conn'[t] = conn[t]
    BY <1>7, DisposeEffect
  <2>2. \A t \in Sockets : /\ conn'[t].server = conn[t].server /\ conn'[t].sub = conn[t].sub
                           /\ conn'[t].handshake = conn[t].handshake
                           /\ conn'[t].link => conn[t].link
                           /\ ~conn'[t].link => conn'[t].up = <<>> /\ conn'[t].down = <<>>
    BY <1>0, <2>1 DEF Unlinked, SocketOK
  <2> QED
    BY <1>0, <2>1, <2>2, EntriesKept
<1>8. ASSUME NEW s \in Sockets, Drop(s) PROVE EntriesInv'
  <2>1. sink' = sink /\ Unlinked(s) /\ \A t \in Sockets \ {s} : conn'[t] = conn[t]
    BY <1>8, DropEffect
  <2>2. \A t \in Sockets : /\ conn'[t].server = conn[t].server /\ conn'[t].sub = conn[t].sub
                           /\ conn'[t].handshake = conn[t].handshake
                           /\ conn'[t].link => conn[t].link
                           /\ ~conn'[t].link => conn'[t].up = <<>> /\ conn'[t].down = <<>>
    BY <1>0, <2>1 DEF Unlinked, SocketOK
  <2> QED
    BY <1>0, <2>1, <2>2, EntriesKept
<1>9. ASSUME NEW s \in Sockets, OnOpen(s) PROVE EntriesInv'
  <2>1. /\ \A t \in Sockets \ {s} : conn'[t] = conn[t]
        /\ conn[s].link /\ conn'[s].link = conn[s].link /\ conn'[s].server = conn[s].server
        /\ conn'[s].handshake = conn[s].handshake /\ conn'[s].sub = conn[s].sub
    BY <1>9, OnOpenEffect
  <2>2. sink' = sink
    BY <1>9 DEF OnOpen
  <2>3. \A t \in Sockets : /\ conn'[t].server = conn[t].server /\ conn'[t].sub = conn[t].sub
                           /\ conn'[t].handshake = conn[t].handshake
                           /\ conn'[t].link = conn[t].link
                           /\ ~conn'[t].link => conn'[t].up = <<>> /\ conn'[t].down = <<>>
    <3> TAKE t \in Sockets
    <3>1. CASE t = s
      BY <2>1, <3>1
    <3>2. CASE t # s
      <4>1. conn'[t] = conn[t]
        BY <2>1, <3>2
      <4> QED
        BY <1>0, <4>1 DEF SocketOK
    <3> QED
      BY <3>1, <3>2
  <2> QED
    BY <1>0, <2>2, <2>3, EntriesKept
<1>10. ASSUME NEW s \in Sockets, OnClose(s) PROVE EntriesInv'
  <2>1. /\ \A t \in Sockets \ {s} : conn'[t] = conn[t]
        /\ conn'[s].link = conn[s].link /\ conn'[s].server = conn[s].server
        /\ conn'[s].handshake = conn[s].handshake /\ conn'[s].sub = conn[s].sub
        /\ conn'[s].down = conn[s].down /\ conn'[s].up = conn[s].up
    BY <1>10, OnCloseEffect
  <2>2. sink' = sink
    BY <1>10 DEF OnClose
  <2> QED
    BY <1>0, <2>1, <2>2, EntriesKept DEF SocketOK
<1>11. ASSUME NEW s \in Sockets, OnMessage(s) PROVE EntriesInv'
  <2>1. PICK m : Heard(s, m)
    BY <1>11, OnMessageEffect
  <2>2. sink' = sink
    BY <1>11, OnMessageEffect
  <2>3. conn[s].link
    BY <1>0, <2>1 DEF Heard, SocketOK
  <2>4. \A t \in Sockets : /\ conn'[t].server = conn[t].server /\ conn'[t].sub = conn[t].sub
                           /\ conn'[t].handshake = conn[t].handshake
                           /\ conn'[t].link = conn[t].link
                           /\ ~conn'[t].link => conn'[t].up = <<>> /\ conn'[t].down = <<>>
    BY <1>0, <2>1, <2>3 DEF Heard, SocketOK
  <2> QED
    BY <1>0, <2>2, <2>4, EntriesKept
<1>12. CASE Poll
  BY <1>1, <1>12, PollIs
<1> QED
  BY <1>2, <1>3, <1>4, <1>5, <1>6, <1>7, <1>8, <1>9, <1>10, <1>11, <1>12, Zenon
     DEF Next, Service, HandshakeOrServer, Browser, Timers, User, Quiet

-----------------------------------------------------------------------------
(***************************************************************************)
(* Every step keeps what the client believes.                              *)
(***************************************************************************)

LEMMA ClientKept ==
  ASSUME ClientInv, SameClient,
         client.socket \in Sockets \cup {NoSocket},
         \A t \in Sockets : conn'[t].browser = conn[t].browser,
         \A t \in Sockets : conn[t].browser = "opening" =>
             /\ conn'[t].up = <<>> /\ conn'[t].down = <<>>
             /\ \A h \in Sinks : sink'[h].socket # t
  PROVE  ClientInv'
BY DEF ClientInv, SameClient

LEMMA ServerClient ==
  ASSUME OperationTypes, Parts, client \in ClientState, ServiceInv, LogInv, EntriesInv,
         ClientInv, BufferInv, HandshakeOrServer
  PROVE  ClientInv'
<1>0. /\ SameClient /\ client.socket \in Sockets \cup {NoSocket}
      /\ \A t \in Sockets : conn[t].browser = "opening" =>
             /\ conn[t].up = <<>> /\ conn[t].down = <<>>
             /\ \A h \in Sinks : sink[h].socket # t
      /\ \A t \in Sockets : t # NoSocket
  BY ServerIs, ClientTyped, Sizes DEF SameClient, ClientInv
<1>1. ASSUME NEW h \in Sinks, GetSession(h) \/ ReadSession(h) PROVE ClientInv'
  <2>1. /\ conn' = conn /\ \A g \in Sinks \ {h} : sink'[g] = sink[g]
        /\ sink'[h].socket = sink[h].socket
    BY <1>1, EnqueuedTyped, GetSessionEffect, ReadSessionEffect DEF OperationTypes
  <2> QED
    BY <1>0, <2>1, ClientKept
<1>2. ASSUME NEW h \in Sinks, Complete(h) PROVE ClientInv'
  <2>1. PICK s \in Sockets : Completed(h, s)
    BY <1>2, CompleteEffect
  <2>2. /\ sink[h].socket = s /\ \A g \in Sinks \ {h} : sink'[g] = sink[g]
        /\ \A t \in Sockets \ {s} : conn'[t] = conn[t]
        /\ conn'[s].browser = conn[s].browser
        /\ sink'[h].socket \in {s, NoSocket}
    BY <2>1, FreeTyped DEF Completed
  <2>3. conn[s].browser # "opening"
    BY <1>0, <2>2
  <2> QED
    BY <1>0, <2>2, <2>3, ClientKept
<1>3. ASSUME NEW s \in Sockets, HandleSubscribe(s) PROVE ClientInv'
  <2>1. /\ conn[s].up # <<>> /\ \A t \in Sockets \ {s} : conn'[t] = conn[t]
        /\ conn'[s].browser = conn[s].browser
    BY <1>3, HandleSubscribeEffect
  <2>2. PICK h \in Sinks :
               /\ sink'[h].socket = s
               /\ \A g \in Sinks \ {h} : sink'[g] = WithoutSub(s)[g]
    BY <1>3, HandleSubscribeEffect
  <2>3. \A g \in Sinks : WithoutSub(s)[g].socket \in {sink[g].socket, NoSocket}
    BY WithoutSubIs, FreeTyped
  <2>4. conn[s].browser # "opening"
    BY <1>0, <2>1
  <2>5. \A t \in Sockets : \A g \in Sinks :
           conn[t].browser = "opening" => sink'[g].socket # t
    BY <1>0, <2>2, <2>3, <2>4
  <2> QED
    BY <1>0, <2>1, <2>4, <2>5, ClientKept
<1>4. ASSUME NEW s \in Sockets, HandleUnsubscribe(s) PROVE ClientInv'
  <2>1. /\ conn[s].up # <<>> /\ \A t \in Sockets \ {s} : conn'[t] = conn[t]
        /\ conn'[s].browser = conn[s].browser /\ sink' = WithoutSub(s)
    BY <1>4, HandleUnsubscribeEffect
  <2>2. \A g \in Sinks : sink'[g].socket \in {sink[g].socket, NoSocket}
    BY <2>1, WithoutSubIs, FreeTyped
  <2>3. conn[s].browser # "opening"
    BY <1>0, <2>1
  <2> QED
    BY <1>0, <2>1, <2>2, <2>3, ClientKept
<1>5. ASSUME NEW s \in Sockets, CleanupSocket(s) PROVE ClientInv'
  <2>1. /\ \A t \in Sockets \ {s} : conn'[t] = conn[t]
        /\ conn'[s].browser = conn[s].browser /\ conn'[s].down = conn[s].down
        /\ conn'[s].up = conn[s].up
        /\ \A g \in Sinks : sink'[g].socket \in {sink[g].socket, NoSocket}
    <3>1. \A g \in Sinks :
             /\ g = conn[s].sub => sink'[g].socket = NoSocket
             /\ g # conn[s].sub => sink'[g].socket = sink[g].socket
      BY <1>5, CleanupSocketEffect
    <3> QED
      BY <1>5, <3>1, CleanupSocketEffect
  <2> QED
    BY <1>0, <2>1, ClientKept
<1> QED
  BY <1>1, <1>2, <1>3, <1>4, <1>5, Zenon DEF HandshakeOrServer, Handshake, Server

LEMMA ClientStep ==
  ASSUME TypeOK, ServiceInv, LogInv, EntriesInv, ClientInv, BufferInv, Next
  PROVE  ClientInv'
<1> USE TypeParts
<1>0. /\ client.socket \in Sockets \cup {NoSocket}
      /\ client.on \in BOOLEAN /\ client.base \in BOOLEAN
      /\ \A t \in Sockets : conn[t].browser = "opening" =>
             /\ conn[t].up = <<>> /\ conn[t].down = <<>>
             /\ \A h \in Sinks : sink[h].socket # t
      /\ \A t \in Sockets : t # NoSocket
      /\ client.base => client.on
      /\ client.socket = NoSocket => ~client.base /\ client.state # "connected"
      /\ client.socket # NoSocket =>
            /\ conn[client.socket].browser # "none"
            /\ client.state = "connected" <=> conn[client.socket].browser = "open"
  BY ClientTyped, Sizes DEF ClientInv
<1>1. UNCHANGED <<sink, conn>> /\ SameClient => ClientInv'
  BY <1>0, ClientKept
<1>2. CASE Quiet
  BY <1>1, <1>2, QuietIs DEF SameClient
<1>3. CASE PublishOutput \/ PublishStatus
  <2>1. PICK m \in Message : Publish(m)
    BY <1>3, PublishingIs
  <2>2. SameClient
    BY <1>3, PublishingIs DEF SameClient
  <2>3. /\ \A h \in Sinks : sink'[h].socket = sink[h].socket
        /\ \A t \in Sockets : /\ conn'[t].browser = conn[t].browser /\ conn'[t].up = conn[t].up
                              /\ ~Attached(t) => conn'[t].down = conn[t].down
    BY <2>1, PublishEffect
  <2>4. \A t \in Sockets : conn[t].browser = "opening" => ~Attached(t)
    BY <1>0 DEF Attached
  <2> QED
    BY <1>0, <2>2, <2>3, <2>4, ClientKept
<1>4. CASE HandshakeOrServer
  BY <1>4, ServerClient
<1>5. CASE Timers \/ Connect
  <2>1. CASE ReconnectTimer \/ SnapshotTimer
    BY <1>1, <2>1, TimersEffect
  <2>2. CASE Connect \/ ReconnectOpen
    <3>1. sink' = sink /\ ((SameClient /\ conn' = conn) \/ \E s \in Sockets : Opened(s))
      BY <2>2, OpensIs
    <3>2. ASSUME NEW s \in Sockets, Opened(s) PROVE ClientInv'
      <4>1. /\ \A t \in Sockets \ {s} : conn'[t] = conn[t]
            /\ conn'[s].browser = "opening" /\ conn'[s].up = <<>> /\ conn'[s].down = <<>>
            /\ \A h \in Sinks : sink[h].socket # s
            /\ client'.socket = s /\ client'.state = "connecting"
            /\ client'.on = client.on /\ client'.base = client.base
        BY <3>2 DEF Opened, FreeSocket
      <4> QED
        BY <1>0, <3>1, <4>1 DEF ClientInv
    <3> QED
      BY <1>1, <3>1, <3>2
  <2> QED
    BY <1>5, <2>1, <2>2 DEF Timers
<1>6. CASE Subscribe \/ Unsubscribe
  <2>1. PICK m \in {"subscribe", "unsubscribe"} : conn' = Upward(conn, m) /\ sink' = sink
    BY <1>6, SubscribeEffect, UnsubscribeEffect
  <2>2. \A t \in Sockets :
               /\ conn'[t].browser = conn[t].browser /\ conn'[t].down = conn[t].down
               /\ ~(t = client.socket /\ client.state = "connected") =>
                     conn'[t].up = conn[t].up
    BY <2>1, UpwardIs DEF Parts
  <2>3. /\ client'.base = FALSE /\ client'.socket = client.socket
        /\ client'.state = client.state
    BY <1>6, SubscribeEffect, UnsubscribeEffect
  <2>4. \A t \in Sockets : conn[t].browser = "opening" =>
             /\ conn'[t].up = <<>> /\ conn'[t].down = <<>>
    BY <1>0, <2>2
  <2>5. client.socket # NoSocket => conn'[client.socket].browser = conn[client.socket].browser
    BY <1>0, <2>2
  <2> QED
    BY <1>0, <2>1, <2>2, <2>3, <2>4, <2>5 DEF ClientInv
<1>7. CASE Dispose
  <2>1. /\ sink' = sink /\ client'.socket = NoSocket /\ client'.base = FALSE
        /\ client'.state = "disconnected"
        /\ \A t \in Sockets : IF t = client.socket THEN Unlinked(t) ELSE conn'[t] = conn[t]
    BY <1>7, DisposeEffect
  <2>2. \A t \in Sockets : conn'[t].browser = "opening" =>
           /\ conn[t].browser = "opening" /\ conn'[t].up = <<>> /\ conn'[t].down = <<>>
    BY <1>0, <2>1 DEF Unlinked
  <2> QED
    BY <1>0, <2>1, <2>2 DEF ClientInv
<1>8. ASSUME NEW s \in Sockets, Drop(s) PROVE ClientInv'
  <2>1. /\ sink' = sink /\ client' = client /\ Unlinked(s)
        /\ \A t \in Sockets \ {s} : conn'[t] = conn[t]
    BY <1>8, DropEffect
  <2> QED
    BY <1>0, <2>1, ClientKept DEF Unlinked, SameClient
<1>9. ASSUME NEW s \in Sockets, OnOpen(s) PROVE ClientInv'
  <2>1. /\ \A t \in Sockets \ {s} : conn'[t] = conn[t]
        /\ conn'[s].browser = "open"
        /\ client.socket # s => SameClient
        /\ client.socket = s =>
               /\ client'.socket = s /\ client'.state = "connected"
               /\ client'.on = client.on
               /\ client.on => client'.base = FALSE
               /\ ~client.on => client'.base = client.base
    BY <1>9, OnOpenEffect
  <2>2. sink' = sink
    BY <1>9 DEF OnOpen
  <2>3. CASE client.socket = s
    BY <1>0, <2>1, <2>2, <2>3 DEF ClientInv
  <2>4. CASE client.socket # s
    BY <1>0, <2>1, <2>2, <2>4 DEF ClientInv, SameClient
  <2> QED
    BY <2>3, <2>4
<1>10. ASSUME NEW s \in Sockets, OnClose(s) PROVE ClientInv'
  <2>1. /\ \A t \in Sockets \ {s} : conn'[t] = conn[t]
        /\ conn'[s].browser = "none"
        /\ client.socket # s => client' = client
        /\ client.socket = s =>
               /\ client'.socket = NoSocket /\ client'.state # "connected"
               /\ client'.base = FALSE
    BY <1>10, OnCloseEffect
  <2>2. sink' = sink
    BY <1>10 DEF OnClose
  <2>3. CASE client.socket = s
    BY <1>0, <2>1, <2>2, <2>3 DEF ClientInv
  <2>4. CASE client.socket # s
    BY <1>0, <2>1, <2>2, <2>4 DEF ClientInv
  <2> QED
    BY <2>3, <2>4
<1>11. ASSUME NEW s \in Sockets, OnMessage(s) PROVE ClientInv'
  <2>1. PICK m : /\ Heard(s, m)
                 /\ Ignored(s, m) \/ SnapshotApplied(s, m)
                    \/ OutputApplied(s, m) \/ StatusApplied(s, m)
    BY <1>11, OnMessageEffect
  <2>2. sink' = sink
    BY <1>11, OnMessageEffect
  <2>3. /\ \A t \in Sockets : conn'[t].browser = conn[t].browser
        /\ \A t \in Sockets : conn[t].browser = "opening" =>
              /\ conn'[t].up = <<>> /\ conn'[t].down = <<>>
              /\ \A h \in Sinks : sink'[h].socket # t
        /\ client'.socket = client.socket /\ client'.state = client.state
        /\ client'.on = client.on
    BY <1>0, <2>1, <2>2 DEF Heard
  <2>4. client'.base = client.base \/ (client'.base = TRUE /\ client.on /\ client.socket = s)
    BY <2>1 DEF Ignored, SnapshotApplied, OutputApplied, StatusApplied
  <2> QED
    BY <1>0, <2>3, <2>4 DEF ClientInv
<1>12. CASE Poll
  BY <1>1, <1>12, PollIs DEF SameClient
<1> QED
  BY <1>2, <1>3, <1>4, <1>5, <1>6, <1>7, <1>8, <1>9, <1>10, <1>11, <1>12, Zenon
     DEF Next, Service, HandshakeOrServer, Browser, Timers, User, Quiet

-----------------------------------------------------------------------------
(***************************************************************************)
(* Every step keeps what the handshakes have buffered.                     *)
(***************************************************************************)

LEMMA PublishedTyped ==
  ASSUME OperationTypes, ServiceInv
  PROVE  /\ Published \in Nat /\ Published <= MaxOutput /\ Published <= command.written
         /\ record.bytes \in Nat /\ record.bytes >= Published /\ record.bytes <= file.to
         /\ record.bytes <= Published + 1 /\ file.to <= Published + 1
         /\ command.written \in Nat /\ file.to \in Nat /\ file.to <= command.written
         /\ ExitSaid => record.status = "exited" /\ Published = command.written
         /\ record.status = "exited" =>
               /\ record.bytes = command.written /\ command.ended
               /\ Published = command.written /\ file.to = command.written
BY Sizes, CommandTyped, FileTyped, RecordTyped
   DEF OperationTypes, ServiceInv, ExitSaid, Published

LEMMA RecentKept ==
  ASSUME Published' = Published
  PROVE  \A n, said : Recent(n, said)' = Recent(n, said)
<1> DEFINE p == Published
<1>1. p' = p
  OBVIOUS
<1>2. ASSUME NEW n, NEW said PROVE Recent(n, said)' = Recent(n, said)
  <2>1. Recent(n, said) = [i \in 1 .. (n + IF said THEN 1 ELSE 0) |->
                             IF i <= n THEN Output(p - n + i) ELSE StatusMessage("exited")]
    BY DEF Recent
  <2>2. Recent(n, said)' = [i \in 1 .. (n + IF said THEN 1 ELSE 0) |->
                              IF i <= n THEN Output(p' - n + i) ELSE StatusMessage("exited")]
    BY DEF Recent
  <2> HIDE DEF p
  <2> QED
    BY <1>1, <2>1, <2>2
<1> QED
  BY <1>2

LEMMA OutputsGrow ==
  ASSUME NEW p \in Nat, NEW n \in Nat
  PROVE  Append([i \in 1 .. n |-> Output(p - n + i)], Output(p + 1)) =
           [i \in 1 .. n + 1 |-> Output(p - n + i)]
<1> DEFINE Outs == [i \in 1 .. n |-> Output(p - n + i)]
           Values == {Output(p - n + i) : i \in 1 .. n}
<1>1. Outs \in Seq(Values) /\ Len(Outs) = n
  <2>1. \A i \in 1 .. n : Output(p - n + i) \in Values
    OBVIOUS
  <2> HIDE DEF Values
  <2> QED
    BY <2>1
<1>2. Append(Outs, Output(p + 1)) =
        [i \in 1 .. Len(Outs) + 1 |-> IF i <= Len(Outs) THEN Outs[i] ELSE Output(p + 1)]
  <2> HIDE DEF Outs
  <2> QED
    BY <1>1, AppendIs
<1>3. p - n + (n + 1) = p + 1
  OBVIOUS
<1> QED
  BY <1>1, <1>2, <1>3

LEMMA NoOutputs ==
  ASSUME NEW q
  PROVE  [i \in 1 .. (0 + 0) |-> IF i <= 0 THEN Output(q - 0 + i) ELSE StatusMessage("exited")]
           = <<>>
OBVIOUS

LEMMA RecentGrows ==
  ASSUME Published \in Nat, Published' = Published + 1, NEW n \in 0 .. Published
  PROVE  Append(Recent(n, FALSE), Output(Published + 1)) = Recent(n + 1, FALSE)'
<1> DEFINE p == Published
           r == Recent(n, FALSE)
<1>1. p' = p + 1 /\ p \in Nat /\ n \in Nat
  OBVIOUS
<1>2. Recent(n, FALSE) = [i \in 1 .. n |-> Output(p - n + i)]
  BY <1>1, RecentParts
<1>3. Recent(n + 1, FALSE)' = [i \in 1 .. n + 1 |-> Output(p' - (n + 1) + i)]
  <2>1. Recent(n + 1, FALSE)' = [i \in 1 .. (n + 1 + 0) |->
                              IF i <= n + 1 THEN Output(p' - (n + 1) + i)
                              ELSE StatusMessage("exited")]
    BY Zenon DEF Recent
  <2>2. n + 1 + 0 = n + 1 /\ \A i \in 1 .. n + 1 : i <= n + 1
    BY <1>1
  <2> HIDE DEF p
  <2> QED
    BY <2>1, <2>2
<1> HIDE DEF p
<1>4. \A i \in 1 .. n + 1 : p' - (n + 1) + i = p - n + i
  BY <1>1
<1>5. Recent(n + 1, FALSE)' = [i \in 1 .. n + 1 |-> Output(p - n + i)]
  BY <1>3, <1>4
<1>6. Append([i \in 1 .. n |-> Output(p - n + i)], Output(p + 1)) =
        [i \in 1 .. n + 1 |-> Output(p - n + i)]
  BY <1>1, OutputsGrow
<1>7. r = [i \in 1 .. n |-> Output(p - n + i)]
  BY <1>2
<1> HIDE DEF r
<1>8. Append(r, Output(p + 1)) = Recent(n + 1, FALSE)'
  BY <1>5, <1>6, <1>7
<1> QED
  BY <1>8 DEF r, p

\* What may pass a handshake by.
LEMMA BufferKept ==
  ASSUME BufferInv, UNCHANGED <<command, record>>,
         \A h \in Sinks : sink'[h].pc \in Pending /\ conn'[sink'[h].socket].server =>
             sink'[h] = sink[h] /\ conn[sink[h].socket].server
  PROVE  BufferInv'
<1>1. Published' = Published /\ (ExitSaid' <=> ExitSaid)
  BY DEF Published, ExitSaid
<1>2. \A n, said : Recent(n, said)' = Recent(n, said)
  BY <1>1, RecentKept
<1>3. ASSUME NEW h \in Sinks, sink'[h].pc \in Pending, conn'[sink'[h].socket].server
      PROVE  BufferOK(h)'
  <2>1. sink'[h] = sink[h] /\ BufferOK(h)
    BY <1>3 DEF BufferInv
  <2>2. PICK n \in 0 .. Published, said \in BOOLEAN :
          /\ said => ExitSaid
          /\ sink[h].buffer = Recent(n, said)
          /\ sink[h].pc = "log" => sink[h].bytes >= Published - n
          /\ sink[h].pc = "log" /\ ExitSaid => said \/ sink[h].status = "exited"
    BY <2>1, Zenon DEF BufferOK
  <2>3. /\ n \in 0 .. Published'
        /\ said => ExitSaid'
        /\ sink'[h].buffer = Recent(n, said)'
        /\ sink'[h].pc = "log" => sink'[h].bytes >= Published' - n
        /\ sink'[h].pc = "log" /\ ExitSaid' => said \/ sink'[h].status = "exited"
    BY <1>1, <1>2, <2>1, <2>2
  <2>4. /\ record' = record /\ command' = command
        /\ sink[h].pc = "log" =>
             /\ sink[h].bytes <= record.bytes
             /\ sink[h].status = "exited" =>
                   record.status = "exited" /\ sink[h].bytes = command.written
    BY <2>1, Zenon DEF BufferOK
  <2>5. sink'[h].pc = "log" =>
             /\ sink'[h].bytes <= record'.bytes
             /\ sink'[h].status = "exited" =>
                   record'.status = "exited" /\ sink'[h].bytes = command'.written
    BY <2>1, <2>4
  <2> QED
    BY <2>3, <2>5, Zenon DEF BufferOK
<1> QED
  BY <1>3 DEF BufferInv

LEMMA OperationBuffers ==
  ASSUME TypeOK, ServiceInv, LogInv, EntriesInv, BufferInv,
         Quiet \/ PublishOutput \/ PublishStatus
  PROVE  BufferInv'
<1> USE TypeParts
<1>0. /\ Published \in Nat /\ ~ExitSaid /\ record.bytes <= record'.bytes
      /\ record.status = "exited" => record'.status = "exited" /\ command'.written = command.written
      /\ ~PublishOutput => Published' = Published
      /\ ~PublishStatus => ~ExitSaid'
      /\ PublishOutput => Published' = Published + 1 /\ record.bytes = Published + 1
      /\ PublishStatus => ExitSaid'
      /\ record.bytes \in Nat /\ record'.bytes \in Nat
  <2>1. Operation
    BY QuietIs, PublishingIs
  <2>2. OperationTypes'
    <3>1. UNCHANGED poll
      BY QuietIs, PublishingIs
    <3> QED
      BY <2>1, <3>1, OperationStep
  <2>3. record'.bytes \in Nat
    BY <2>2, Sizes DEF OperationTypes, RecordState, Offsets
  <2> QED
    BY <2>1, <2>3, OperationGrows, PublishedTyped
<1> SUFFICES ASSUME NEW h \in Sinks, sink'[h].pc \in Pending, conn'[sink'[h].socket].server
             PROVE  BufferOK(h)'
  BY DEF BufferInv
<1>1. /\ sink'[h].pc = sink[h].pc /\ sink'[h].socket = sink[h].socket
      /\ sink'[h].bytes = sink[h].bytes /\ sink'[h].status = sink[h].status
      /\ conn[sink[h].socket].server
      /\ Quiet => sink'[h].buffer = sink[h].buffer
      /\ PublishOutput => sink'[h].buffer = Append(sink[h].buffer, Output(record.bytes))
      /\ PublishStatus => sink'[h].buffer = Append(sink[h].buffer, StatusMessage("exited"))
  <2>1. CASE Quiet /\ ~PublishOutput /\ ~PublishStatus
    BY <2>1, QuietIs
  <2>2. ASSUME NEW m \in Message, Publish(m)
        PROVE  /\ sink'[h].pc = sink[h].pc /\ sink'[h].socket = sink[h].socket
               /\ sink'[h].bytes = sink[h].bytes /\ sink'[h].status = sink[h].status
               /\ conn[sink[h].socket].server
               /\ sink'[h].buffer = Append(sink[h].buffer, m)
    <3>1. /\ sink'[h].pc = sink[h].pc /\ sink'[h].socket = sink[h].socket
          /\ sink'[h].bytes = sink[h].bytes /\ sink'[h].status = sink[h].status
          /\ \A s \in Sockets : conn'[s].server = conn[s].server
          /\ sink[h].pc \in Pending /\ conn[sink[h].socket].server =>
                sink'[h].buffer = Append(sink[h].buffer, m)
      BY <2>2, PublishEffect
    <3>2. sink[h].socket \in Sockets
      BY <3>1, SocketsOf DEF Pending
    <3> QED
      BY <3>1, <3>2
  <2>3. CASE PublishOutput
    <3>1. Publish(Output(record.bytes)) /\ Output(record.bytes) \in Message
          /\ ~PublishStatus /\ ~Quiet
      <4>1. ~Quiet
        BY <2>3, CommandTyped DEF PublishOutput, OperationTypes, CommandState, Quiet, Write,
           Exit, AppendLog, Trim, Rewrite, CommitOutput, CommitExit
      <4> QED
        BY <2>3, <4>1, PublishingIs DEF PublishStatus, PublishOutput
    <3> QED
      BY <2>2, <3>1
  <2>4. CASE PublishStatus
    <3>1. Publish(StatusMessage("exited")) /\ StatusMessage("exited") \in Message
          /\ ~PublishOutput /\ ~Quiet
      <4>1. ~Quiet
        BY <2>4, CommandTyped DEF PublishStatus, OperationTypes, CommandState, Quiet, Write,
           Exit, AppendLog, Trim, Rewrite, CommitOutput, CommitExit
      <4> QED
        BY <2>4, <4>1, PublishingIs DEF PublishStatus, PublishOutput
    <3> QED
      BY <2>2, <3>1
  <2> QED
    BY <2>1, <2>3, <2>4
<1>2. BufferOK(h)
  BY <1>1 DEF BufferInv
<1>3. PICK n \in 0 .. Published, said \in BOOLEAN :
          /\ said => ExitSaid
          /\ sink[h].buffer = Recent(n, said)
          /\ sink[h].pc = "log" => sink[h].bytes >= Published - n
  BY <1>2, Zenon DEF BufferOK
<1>4. sink[h].buffer = Recent(n, FALSE) /\ n \in Nat
  <2>1. said = FALSE /\ n \in Nat
    BY <1>0, <1>3
  <2> QED
    BY <1>3, <2>1, Zenon
<1>5. sink[h].pc = "log" =>
        /\ sink[h].bytes <= record.bytes /\ sink[h].bytes \in Nat
        /\ sink[h].status = "exited" =>
              record.status = "exited" /\ sink[h].bytes = command.written
  BY <1>2, EntryTyped DEF BufferOK, Parts
<1>6. sink'[h].pc = "log" =>
        /\ sink'[h].bytes <= record'.bytes
        /\ sink'[h].status = "exited" =>
              record'.status = "exited" /\ sink'[h].bytes = command'.written
  BY <1>0, <1>1, <1>5
<1>7. \E k \in 0 .. Published', was \in BOOLEAN :
          /\ was => ExitSaid'
          /\ sink'[h].buffer = Recent(k, was)'
          /\ sink'[h].pc = "log" => sink'[h].bytes >= Published' - k
          /\ sink'[h].pc = "log" /\ ExitSaid' => was \/ sink'[h].status = "exited"
  <2>1. CASE PublishOutput
    <3>1. sink'[h].buffer = Recent(n + 1, FALSE)'
      BY <1>0, <1>1, <1>3, <1>4, <2>1, RecentGrows
    <3>2. /\ n + 1 \in 0 .. Published'
          /\ sink'[h].pc = "log" => sink'[h].bytes >= Published' - (n + 1)
          /\ ~ExitSaid'
      <4>1. ~PublishStatus
        BY <2>1 DEF PublishStatus, PublishOutput
      <4> QED
        BY <1>0, <1>1, <1>3, <1>4, <1>5, <2>1, <4>1
    <3> DEFINE k == n + 1
    <3> HIDE DEF k
    <3>3. k \in 0 .. Published' /\ FALSE \in BOOLEAN
      BY <3>2 DEF k
    <3> QED
      BY <3>1, <3>2, <3>3, Zenon DEF k
  <2>2. CASE PublishStatus
    <3>1. Published' = Published
      BY <1>0, <2>2 DEF PublishStatus, PublishOutput
    <3>2. sink'[h].buffer = Append(Recent(n, FALSE), StatusMessage("exited"))
      BY <1>1, <1>4, <2>2
    <3>3. sink'[h].buffer = Recent(n, TRUE)
      BY <1>4, <3>2, RecentParts, Zenon
    <3>4. sink'[h].buffer = Recent(n, TRUE)'
      BY <3>1, <3>3, RecentKept, Zenon
    <3>5. /\ n \in 0 .. Published' /\ TRUE \in BOOLEAN /\ ExitSaid'
          /\ sink'[h].pc = "log" => sink'[h].bytes >= Published' - n
      BY <1>0, <1>1, <1>3, <2>2, <3>1
    <3> QED
      BY <3>4, <3>5, Zenon
  <2>3. CASE ~PublishOutput /\ ~PublishStatus
    <3>1. Published' = Published /\ ~ExitSaid' /\ sink'[h].buffer = Recent(n, FALSE)
      BY <1>0, <1>1, <1>4, <2>3
    <3>2. sink'[h].buffer = Recent(n, FALSE)'
      BY <3>1, RecentKept, Zenon
    <3>3. /\ n \in 0 .. Published' /\ FALSE \in BOOLEAN
          /\ sink'[h].pc = "log" => sink'[h].bytes >= Published' - n
      BY <1>1, <1>3, <3>1
    <3> QED
      BY <3>1, <3>2, <3>3, Zenon
  <2> QED
    BY <2>1, <2>2, <2>3
<1> QED
  BY <1>6, <1>7, Zenon DEF BufferOK

LEMMA BufferStep ==
  ASSUME TypeOK, ServiceInv, LogInv, EntriesInv, ClientInv, BufferInv, Next
  PROVE  BufferInv'
<1> USE TypeParts
<1>0. /\ \A h \in Sinks : sink[h].pc # "none" => sink[h].socket \in Sockets
      /\ \A h \in Sinks : sink[h].pc \in Pending => sink[h].socket \in Sockets
  BY SocketsOf DEF Pending
<1>1. /\ UNCHANGED <<command, record, sink>>
      /\ \A t \in Sockets : conn'[t].server => conn[t].server
      => BufferInv'
  BY <1>0, BufferKept
<1>2. CASE Quiet \/ PublishOutput \/ PublishStatus
  BY <1>2, OperationBuffers
<1>3. ASSUME NEW h \in Sinks, GetSession(h) \/ ReadSession(h) PROVE BufferInv'
  <2>1. /\ UNCHANGED <<command, file, record, conn>>
        /\ \A g \in Sinks \ {h} : sink'[g] = sink[g]
        /\ sink[h].pc \in {"session", "state"}
        /\ sink'[h].socket = sink[h].socket /\ sink'[h].buffer = sink[h].buffer
        /\ sink'[h].pc = "log" => /\ sink'[h].bytes = record.bytes
                                  /\ sink'[h].status = record.status
    <3>1. CASE GetSession(h)
      BY <3>1, EnqueuedTyped, GetSessionEffect DEF GetSession
    <3>2. CASE ReadSession(h)
      BY <3>2, ReadSessionEffect DEF ReadSession, OperationTypes
    <3> QED
      BY <1>3, <3>1, <3>2
  <2>2. Published' = Published /\ (ExitSaid' <=> ExitSaid)
    BY <2>1 DEF Published, ExitSaid
  <2>3. \A n, said : Recent(n, said)' = Recent(n, said)
    BY <2>2, RecentKept
  <2>4. ASSUME conn'[sink'[h].socket].server
        PROVE  BufferOK(h)'
    <3>1. BufferOK(h)
      BY <2>1, <2>4 DEF BufferInv, Pending
    <3>2. PICK n \in 0 .. Published, said \in BOOLEAN :
              (said => ExitSaid) /\ sink[h].buffer = Recent(n, said)
      BY <3>1, Zenon DEF BufferOK
    <3>3. /\ n \in 0 .. Published' /\ (said => ExitSaid') /\ sink'[h].buffer = Recent(n, said)'
          /\ sink'[h].pc = "log" => sink'[h].bytes >= Published' - n
          /\ sink'[h].pc = "log" /\ ExitSaid' => said \/ sink'[h].status = "exited"
      BY <2>1, <2>2, <2>3, <3>2, PublishedTyped
    <3>4. sink'[h].pc = "log" =>
             /\ sink'[h].bytes <= record'.bytes
             /\ sink'[h].status = "exited" =>
                   record'.status = "exited" /\ sink'[h].bytes = command'.written
      BY <2>1, PublishedTyped
    <3> QED
      BY <3>3, <3>4, Zenon DEF BufferOK
  <2>5. ASSUME NEW g \in Sinks \ {h}, sink'[g].pc \in Pending, conn'[sink'[g].socket].server
        PROVE  BufferOK(g)'
    <3>1. sink'[g] = sink[g] /\ BufferOK(g)
      BY <2>1, <2>5 DEF BufferInv
    <3>2. PICK n \in 0 .. Published, said \in BOOLEAN :
            /\ said => ExitSaid
            /\ sink[g].buffer = Recent(n, said)
            /\ sink[g].pc = "log" => sink[g].bytes >= Published - n
            /\ sink[g].pc = "log" /\ ExitSaid => said \/ sink[g].status = "exited"
      BY <3>1, Zenon DEF BufferOK
    <3>3. /\ n \in 0 .. Published'
          /\ said => ExitSaid'
          /\ sink'[g].buffer = Recent(n, said)'
          /\ sink'[g].pc = "log" => sink'[g].bytes >= Published' - n
          /\ sink'[g].pc = "log" /\ ExitSaid' => said \/ sink'[g].status = "exited"
      BY <2>2, <2>3, <3>1, <3>2
    <3>4. sink[g].pc = "log" =>
             /\ sink[g].bytes <= record.bytes
             /\ sink[g].status = "exited" =>
                   record.status = "exited" /\ sink[g].bytes = command.written
      BY <3>1, Zenon DEF BufferOK
    <3>5. sink'[g].pc = "log" =>
             /\ sink'[g].bytes <= record'.bytes
             /\ sink'[g].status = "exited" =>
                   record'.status = "exited" /\ sink'[g].bytes = command'.written
      BY <2>1, <3>1, <3>4
    <3> QED
      BY <3>3, <3>5, Zenon DEF BufferOK
  <2> QED
    BY <2>4, <2>5 DEF BufferInv
<1>4. ASSUME NEW h \in Sinks, Complete(h) PROVE BufferInv'
  <2>1. PICK s \in Sockets : Completed(h, s)
    BY <1>4, CompleteEffect
  <2>2. UNCHANGED <<command, record>>
    BY <1>4 DEF Complete
  <2>3. sink'[h].pc \notin Pending /\ \A g \in Sinks \ {h} : sink'[g] = sink[g]
    BY <2>1, FreeTyped DEF Completed, Pending
  <2>4. \A t \in Sockets : conn'[t].server = conn[t].server
    BY <2>1 DEF Completed
  <2> QED
    BY <1>0, <2>2, <2>3, <2>4, BufferKept
<1>5. ASSUME NEW s \in Sockets, HandleSubscribe(s) PROVE BufferInv'
  <2>1. /\ \A t \in Sockets : conn'[t].server = conn[t].server
        /\ UNCHANGED <<command, file, record>>
    <3>1. UNCHANGED <<command, file, record>>
      BY <1>5 DEF HandleSubscribe
    <3>2. /\ conn'[s].server = conn[s].server
          /\ \A t \in Sockets \ {s} : conn'[t] = conn[t]
      BY <1>5, HandleSubscribeEffect
    <3> QED
      BY <3>1, <3>2
  <2>2. PICK h \in Sinks :
               /\ sink'[h].pc = "session" /\ sink'[h].socket = s /\ sink'[h].buffer = <<>>
               /\ \A g \in Sinks \ {h} : sink'[g] = WithoutSub(s)[g]
    BY <1>5, HandleSubscribeEffect
  <2>3. \A g \in Sinks \ {h} : sink'[g].pc \in Pending => sink'[g] = sink[g]
    BY <2>2, WithoutSubIs, FreeTyped DEF Pending
  <2>4. BufferOK(h)'
    <3>1. Recent(0, FALSE)' = <<>>
      <4>1. Recent(0, FALSE)' = [i \in 1 .. (0 + 0) |->
                              IF i <= 0 THEN Output(Published' - 0 + i)
                              ELSE StatusMessage("exited")]
        BY Zenon DEF Recent
      <4> QED
        BY <4>1, NoOutputs, Zenon
    <3>2. 0 \in 0 .. Published' /\ FALSE \in BOOLEAN
      BY <2>1, PublishedTyped DEF Published, ExitSaid
    <3>3. sink'[h].pc # "log" /\ sink'[h].buffer = Recent(0, FALSE)'
      BY <2>2, <3>1
    <3> QED
      BY <3>2, <3>3, Zenon DEF BufferOK
  <2>5. Published' = Published /\ (ExitSaid' <=> ExitSaid)
    BY <2>1 DEF Published, ExitSaid
  <2>6. \A n, said : Recent(n, said)' = Recent(n, said)
    BY <2>5, RecentKept
  <2>7. ASSUME NEW g \in Sinks \ {h}, sink'[g].pc \in Pending, conn'[sink'[g].socket].server
        PROVE  BufferOK(g)'
    <3>1. sink'[g] = sink[g] /\ BufferOK(g)
      <4>1. sink'[g] = sink[g]
        BY <2>3, <2>7
      <4>2. conn[sink[g].socket].server
        BY <1>0, <2>1, <2>7, <4>1
      <4> QED
        BY <2>7, <4>1, <4>2 DEF BufferInv
    <3>2. PICK n \in 0 .. Published, said \in BOOLEAN :
            /\ said => ExitSaid
            /\ sink[g].buffer = Recent(n, said)
            /\ sink[g].pc = "log" => sink[g].bytes >= Published - n
            /\ sink[g].pc = "log" /\ ExitSaid => said \/ sink[g].status = "exited"
      BY <3>1, Zenon DEF BufferOK
    <3>3. /\ n \in 0 .. Published'
          /\ said => ExitSaid'
          /\ sink'[g].buffer = Recent(n, said)'
          /\ sink'[g].pc = "log" => sink'[g].bytes >= Published' - n
          /\ sink'[g].pc = "log" /\ ExitSaid' => said \/ sink'[g].status = "exited"
      BY <2>5, <2>6, <3>1, <3>2
    <3>4. sink[g].pc = "log" =>
             /\ sink[g].bytes <= record.bytes
             /\ sink[g].status = "exited" =>
                   record.status = "exited" /\ sink[g].bytes = command.written
      BY <3>1, Zenon DEF BufferOK
    <3>5. sink'[g].pc = "log" =>
             /\ sink'[g].bytes <= record'.bytes
             /\ sink'[g].status = "exited" =>
                   record'.status = "exited" /\ sink'[g].bytes = command'.written
      BY <2>1, <3>1, <3>4
    <3> QED
      BY <3>3, <3>5, Zenon DEF BufferOK
  <2> QED
    BY <2>4, <2>7 DEF BufferInv
<1>6. ASSUME NEW s \in Sockets, HandleUnsubscribe(s) PROVE BufferInv'
  <2>1. /\ \A t \in Sockets : conn'[t].server = conn[t].server
        /\ sink' = WithoutSub(s)
    BY <1>6, HandleUnsubscribeEffect
  <2>2. UNCHANGED <<command, record>>
    BY <1>6 DEF HandleUnsubscribe
  <2>3. \A g \in Sinks : sink'[g].pc \in Pending => sink'[g] = sink[g]
    BY <2>1, WithoutSubIs, FreeTyped DEF Pending
  <2> QED
    BY <1>0, <2>1, <2>2, <2>3, BufferKept
<1>7. ASSUME NEW s \in Sockets, CleanupSocket(s) PROVE BufferInv'
  <2>1. /\ \A t \in Sockets \ {s} : conn'[t] = conn[t]
        /\ ~conn'[s].server
        /\ \A h \in Sinks :
               /\ sink[h].socket # s => sink'[h] = sink[h]
               /\ sink[h].pc \in Pending => sink'[h].socket = sink[h].socket
               /\ h = conn[s].sub => sink'[h].pc = "none"
               /\ h # conn[s].sub => sink'[h].pc = sink[h].pc
    BY <1>7, CleanupSocketEffect, Zenon
  <2>2. UNCHANGED <<command, record>>
    BY <1>7 DEF CleanupSocket
  <2>3. ASSUME NEW g \in Sinks, sink'[g].pc \in Pending, conn'[sink'[g].socket].server
        PROVE  sink'[g] = sink[g] /\ conn[sink[g].socket].server
    <3>1. sink[g].pc \in Pending
      BY <2>1, <2>3 DEF Pending
    <3>2. sink'[g].socket = sink[g].socket /\ sink[g].socket \in Sockets
      BY <1>0, <2>1, <3>1
    <3> QED
      BY <2>1, <2>3, <3>2
  <2> QED
    BY <2>2, <2>3, BufferKept
<1>8. CASE Timers \/ Connect
  <2>1. CASE ReconnectTimer \/ SnapshotTimer
    BY <1>1, <2>1, TimersEffect
  <2>2. CASE Connect \/ ReconnectOpen
    <3>1. /\ UNCHANGED <<command, record, sink>>
          /\ (SameClient /\ conn' = conn) \/ \E s \in Sockets : Opened(s)
      BY <2>2, OpensIs
    <3>2. ASSUME NEW s \in Sockets, Opened(s) PROVE BufferInv'
      <4>1. /\ \A t \in Sockets \ {s} : conn'[t] = conn[t]
            /\ \A h \in Sinks : sink[h].socket # s
        BY <3>2 DEF Opened
      <4> QED
        BY <1>0, <3>1, <4>1, BufferKept
    <3> QED
      BY <1>1, <3>1, <3>2
  <2> QED
    BY <1>8, <2>1, <2>2 DEF Timers
<1>9. CASE Subscribe \/ Unsubscribe
  <2>1. PICK m \in {"subscribe", "unsubscribe"} :
           conn' = Upward(conn, m) /\ UNCHANGED <<command, record, sink>>
    BY <1>9, SubscribeEffect, UnsubscribeEffect
  <2>2. \A t \in Sockets : conn'[t].server = conn[t].server
    BY <2>1, UpwardIs DEF Parts
  <2> QED
    BY <1>1, <2>1, <2>2
<1>10. CASE Dispose
  <2>1. /\ UNCHANGED <<command, record, sink>>
        /\ \A t \in Sockets : IF t = client.socket THEN Unlinked(t) ELSE conn'[t] = conn[t]
    BY <1>10, DisposeEffect
  <2> QED
    BY <1>1, <2>1 DEF Unlinked
<1>11. ASSUME NEW s \in Sockets, Drop(s) PROVE BufferInv'
  <2>1. /\ UNCHANGED <<command, record, sink>> /\ Unlinked(s)
        /\ \A t \in Sockets \ {s} : conn'[t] = conn[t]
    BY <1>11, DropEffect
  <2> QED
    BY <1>1, <2>1 DEF Unlinked
<1>12. ASSUME NEW s \in Sockets, Browser(s) PROVE BufferInv'
  <2>1. \A t \in Sockets : conn'[t].server = conn[t].server
    <3>1. CASE OnOpen(s)
      BY <3>1, OnOpenEffect
    <3>2. CASE OnClose(s)
      BY <3>2, OnCloseEffect
    <3>3. CASE OnMessage(s)
      <4>1. PICK m : Heard(s, m)
        BY <3>3, OnMessageEffect
      <4> QED
        BY <4>1 DEF Heard
    <3> QED
      BY <1>12, <3>1, <3>2, <3>3 DEF Browser
  <2>2. UNCHANGED <<command, record, sink>>
    BY <1>12 DEF Browser, OnOpen, OnClose, OnMessage
  <2> QED
    BY <1>1, <2>1, <2>2
<1>13. CASE Poll
  BY <1>1, <1>13, PollIs
<1> QED
  BY <1>2, <1>3, <1>4, <1>5, <1>6, <1>7, <1>8, <1>9, <1>10, <1>11, <1>12, <1>13, Zenon
     DEF Next, Service, Handshake, Server, User, Quiet

-----------------------------------------------------------------------------
(***************************************************************************)
(* Every step keeps what is true of the messages on the wires.             *)
(***************************************************************************)

AllOK(wire) == \A i \in 1 .. Len(wire) : MessageOK(wire[i])

LEMMA MessageKept ==
  ASSUME TypeOK, ServiceInv, LogInv,
         \/ UNCHANGED <<command, file, record>>
         \/ Quiet \/ PublishOutput \/ PublishStatus,
         NEW m \in Message, MessageOK(m)
  PROVE  MessageOK(m)'
<1> USE TypeParts
<1>1. CASE UNCHANGED <<command, file, record>>
  BY <1>1 DEF MessageOK, TrueText, Published, ExitSaid
<1>2. CASE Quiet \/ PublishOutput \/ PublishStatus
  <2>1. Operation
    BY <1>2, QuietIs, PublishingIs
  <2>2. /\ ~ExitSaid /\ file.to <= file'.to /\ Published <= Published'
        /\ file'.from = 0 => file.from = 0
        /\ record.status = "exited" => record'.status = "exited"
        /\ record.status = "exited" => command'.written = command.written
    <3>1. Published \in Nat /\ (record.status = "exited" => command.ended)
      BY PublishedTyped
    <3>2. Published' = Published \/ Published' = Published + 1
      BY <2>1, OperationGrows
    <3> QED
      BY <2>1, <3>1, <3>2, OperationGrows
  <2>3. m.end \in Nat /\ file.to \in Nat /\ Published \in Nat
    BY MessageTyped, PublishedTyped
  <2>4. file'.to \in Nat /\ Published' \in Nat
    <3>1. OperationTypes' /\ ServiceInv'
      <4>1. UNCHANGED poll
        BY <1>2, QuietIs, PublishingIs
      <4> QED
        BY <2>1, <4>1, OperationStep
    <3>2. file'.to \in Nat
      BY <3>1, Sizes DEF OperationTypes, FileState, Offsets
    <3>3. Published' = Published \/ Published' = Published + 1
      BY <2>1, OperationGrows
    <3> QED
      BY <2>3, <3>2, <3>3
  <2>5. m.end <= file'.to /\ (m.end <= Published => m.end <= Published')
    BY <2>2, <2>3, <2>4 DEF MessageOK
  <2>6. m.type = "snapshot" => TrueText(m.text, m.end)'
    BY <2>2 DEF MessageOK, TrueText
  <2>7. m.type = "status" => FALSE
    BY <2>2 DEF MessageOK
  <2>8. m.type = "snapshot" /\ m.status = "exited" => m.end = command'.written
    BY <2>2 DEF MessageOK
  <2> HIDE DEF Published
  <2> QED
    BY <2>2, <2>5, <2>6, <2>7, <2>8 DEF MessageOK
<1> QED
  BY <1>1, <1>2

LEMMA WireKept ==
  ASSUME TypeOK, ServiceInv, LogInv,
         \/ UNCHANGED <<command, file, record>>
         \/ Quiet \/ PublishOutput \/ PublishStatus,
         NEW wire \in Seq(Message), AllOK(wire)
  PROVE  AllOK(wire)'
<1>1. ASSUME NEW i \in 1 .. Len(wire) PROVE MessageOK(wire[i])'
  <2>1. wire[i] \in Message /\ MessageOK(wire[i])
    BY DEF AllOK
  <2>2. PICK m : m = wire[i]
    OBVIOUS
  <2>3. MessageOK(m)'
    BY <2>1, <2>2, MessageKept
  <2> QED
    BY <2>2, <2>3
<1> QED
  BY <1>1 DEF AllOK

LEMMA WireParts ==
  ASSUME NEW wire \in Seq(Message), AllOK(wire)
  PROVE  /\ AllOK(<<>>)
         /\ wire # <<>> => AllOK(Tail(wire)) /\ MessageOK(Head(wire))
         /\ \A m \in Message : MessageOK(m) => AllOK(Append(wire, m))
<1>1. AllOK(<<>>)
  BY DEF AllOK
<1>2. ASSUME wire # <<>> PROVE AllOK(Tail(wire)) /\ MessageOK(Head(wire))
  <2>1. /\ Len(wire) \in Nat /\ Len(wire) >= 1 /\ Len(Tail(wire)) = Len(wire) - 1
        /\ Head(wire) = wire[1]
        /\ \A i \in 1 .. Len(Tail(wire)) : Tail(wire)[i] = wire[i + 1]
    BY <1>2
  <2> QED
    BY <2>1 DEF AllOK
<1>3. ASSUME NEW m \in Message, MessageOK(m) PROVE AllOK(Append(wire, m))
  <2>1. /\ Len(wire) \in Nat /\ Len(Append(wire, m)) = Len(wire) + 1
        /\ \A i \in 1 .. Len(wire) : Append(wire, m)[i] = wire[i]
        /\ Append(wire, m)[Len(wire) + 1] = m
    OBVIOUS
  <2>2. ASSUME NEW i \in 1 .. Len(Append(wire, m)) PROVE MessageOK(Append(wire, m)[i])
    <3>1. i \in 1 .. Len(wire) \/ i = Len(wire) + 1
      BY <2>1
    <3> QED
      BY <1>3, <2>1, <3>1 DEF AllOK
  <2> QED
    BY <2>2 DEF AllOK
<1> QED
  BY <1>1, <1>2, <1>3

LEMMA RecentOK ==
  ASSUME TypeOK, ServiceInv, NEW n \in 0 .. Published, NEW said \in BOOLEAN, said => ExitSaid
  PROVE  AllOK(Recent(n, said))
<1> USE TypeParts
<1>1. Published \in Nat /\ Published <= file.to /\ file.to \in Nat
      /\ (ExitSaid => record.status = "exited")
  <2>1. /\ Published \in Nat /\ record.bytes >= Published /\ record.bytes <= file.to
        /\ record.bytes \in Nat /\ file.to \in Nat
    BY PublishedTyped
  <2>2. Published <= file.to
    <3> HIDE DEF Published
    <3> QED
      BY <2>1
  <2> QED
    BY <2>1, <2>2, PublishedTyped
<1>2. /\ Len(Recent(n, said)) = n + (IF said THEN 1 ELSE 0)
      /\ \A i \in 1 .. n : Recent(n, said)[i] = Output(Published - n + i)
      /\ said => Recent(n, said)[n + 1] = StatusMessage("exited")
  <2>1. n \in Nat
    OBVIOUS
  <2> QED
    BY <2>1, RecentItems
<1>3. ASSUME NEW k \in 1 .. Published PROVE MessageOK(Output(k))
  <2>1. /\ Output(k).type = "output" /\ Output(k).end = k /\ Output(k).status = "running"
    BY MessageFields
  <2>2. k <= file.to /\ k <= Published
    <3> HIDE DEF Published
    <3> QED
      BY <1>1
  <2> QED
    BY <2>1, <2>2 DEF MessageOK
<1>4. said => MessageOK(StatusMessage("exited"))
  <2> HAVE said
  <2>1. /\ StatusMessage("exited").type = "status" /\ StatusMessage("exited").end = 0
        /\ StatusMessage("exited").status = "exited"
    BY MessageFields
  <2> QED
    BY <1>1, <2>1 DEF MessageOK
<1>5. ASSUME NEW i \in 1 .. Len(Recent(n, said)) PROVE MessageOK(Recent(n, said)[i])
  <2>1. i \in 1 .. n \/ (said /\ i = n + 1)
    BY <1>2
  <2>2. CASE i \in 1 .. n
    <3>1. Published - n + i \in 1 .. Published
      <4> HIDE DEF Published
      <4> QED
        BY <1>1, <2>2
    <3> QED
      BY <1>2, <1>3, <2>2, <3>1
  <2>3. CASE said /\ i = n + 1
    BY <1>2, <1>4, <2>3
  <2> QED
    BY <2>1, <2>2, <2>3
<1> QED
  BY <1>5 DEF AllOK

LEMMA ReplyOK ==
  ASSUME TypeOK, ServiceInv, LogInv, BufferInv,
         NEW h \in Sinks, sink[h].pc = "log", conn[sink[h].socket].server
  PROVE  AllOK(Reply(sink[h])) /\ Reply(sink[h]) \in Seq(Message)
<1>1. PICK snap \in Message, left \in 0 .. Published, said \in BOOLEAN :
            /\ Reply(sink[h]) = <<snap>> \o Recent(left, said)
            /\ MessageOK(snap) /\ (said => ExitSaid)
  BY TypeParts, ReplyIs, Zenon
<1>2. AllOK(Recent(left, said))
  BY <1>1, RecentOK
<1>3. Published \in Nat /\ Published <= MaxOutput
  BY TypeParts, PublishedTyped
<1>4. Recent(left, said) \in Seq(Message) /\ Reply(sink[h]) \in Seq(Message)
  <2>1. left \in Nat /\ left <= Published
    <3> HIDE DEF Published
    <3> QED
      BY <1>3
  <2> QED
    BY <1>1, <1>3, <2>1, RecentTyped, ReplyTyped
<1> DEFINE r == Recent(left, said)
           whole == <<snap>> \o r
<1> HIDE DEF r
<1>5. AllOK(whole)
  <2>1. /\ Len(whole) = Len(r) + 1 /\ Len(r) \in Nat /\ whole[1] = snap
        /\ \A i \in 2 .. Len(whole) : whole[i] = r[i - 1] /\ i - 1 \in 1 .. Len(r)
    BY <1>4 DEF r
  <2>2. ASSUME NEW i \in 1 .. Len(whole) PROVE MessageOK(whole[i])
    <3> HIDE DEF whole
    <3>1. i = 1 \/ i \in 2 .. Len(whole)
      OBVIOUS
    <3> QED
      BY <1>1, <1>2, <2>1, <3>1 DEF AllOK, r
  <2> QED
    BY <2>2 DEF AllOK
<1> QED
  BY <1>1, <1>4, <1>5 DEF r

LEMMA JoinOK ==
  ASSUME NEW a \in Seq(Message), NEW b \in Seq(Message), AllOK(a), AllOK(b)
  PROVE  AllOK(a \o b)
<1>1. /\ Len(a \o b) = Len(a) + Len(b) /\ Len(a) \in Nat /\ Len(b) \in Nat
      /\ \A i \in 1 .. Len(a) : (a \o b)[i] = a[i]
      /\ \A i \in Len(a) + 1 .. Len(a) + Len(b) : (a \o b)[i] = b[i - Len(a)]
  OBVIOUS
<1>2. ASSUME NEW i \in 1 .. Len(a \o b) PROVE MessageOK((a \o b)[i])
  <2>1. i \in 1 .. Len(a) \/ (i \in Len(a) + 1 .. Len(a) + Len(b) /\ i - Len(a) \in 1 .. Len(b))
    BY <1>1
  <2> QED
    BY <1>1, <2>1 DEF AllOK
<1> QED
  BY <1>2 DEF AllOK

ClientTrue ==
    /\ client.status = "exited" => record.status = "exited"
    /\ client.base => client.end \in Offsets /\ client.end <= file.to

LEMMA WiresIs == WiresInv <=> (\A s \in Sockets : AllOK(conn[s].down)) /\ ClientTrue
BY DEF WiresInv, AllOK, ClientTrue

LEMMA WiresKept ==
  ASSUME TypeOK, TypeOK', ServiceInv, LogInv, WiresInv,
         UNCHANGED <<command, file, record>>,
         \A t \in Sockets : \/ conn'[t].down = conn[t].down
                            \/ conn'[t].down = <<>>
                            \/ conn[t].down # <<>> /\ conn'[t].down = Tail(conn[t].down)
  PROVE  \A s \in Sockets : AllOK(conn[s].down)'
<1> TAKE s \in Sockets
<1>1. conn[s].down \in Seq(Message) /\ AllOK(conn[s].down)
  <2>1. conn[s] \in Connection
    BY DEF TypeOK
  <2> QED
    BY <2>1, ConnectionTyped DEF WiresInv, AllOK
<1>2. PICK wire : wire = conn'[s].down
  OBVIOUS
<1>3. wire \in Seq(Message) /\ AllOK(wire)
  <2>1. PICK old : old = conn[s].down
    OBVIOUS
  <2>2. old \in Seq(Message) /\ AllOK(old)
    BY <1>1, <2>1
  <2>3. AllOK(<<>>) /\ (old # <<>> => AllOK(Tail(old)) /\ Tail(old) \in Seq(Message))
    BY <2>2, WireParts
  <2>4. wire = old \/ wire = <<>> \/ (old # <<>> /\ wire = Tail(old))
    BY <1>2, <2>1
  <2>5. <<>> \in Seq(Message)
    OBVIOUS
  <2> QED
    BY <2>2, <2>3, <2>4, <2>5, Zenon
<1>4. AllOK(wire)'
  BY <1>3, WireKept
<1> QED
  BY <1>2, <1>4

LEMMA ClientTrueKept ==
  ASSUME ClientTrue, UNCHANGED <<file, record>>,
         client'.status \in {client.status, "running"},
         client'.base = FALSE \/ (client'.base = client.base /\ client'.end = client.end)
  PROVE  ClientTrue'
BY DEF ClientTrue

LEMMA WiresStep ==
  ASSUME TypeOK, TypeOK', ServiceInv, LogInv, EntriesInv, ClientInv, BufferInv, WiresInv, Next
  PROVE  WiresInv'
<1> USE TypeParts
<1> DEFINE Still == UNCHANGED <<command, file, record>>
           Wires == \A s \in Sockets : AllOK(conn[s].down)'
<1>0. /\ ClientTrue
      /\ \A s \in Sockets : AllOK(conn[s].down)
      /\ \A s \in Sockets : conn[s].down \in Seq(Message)
  BY WiresIs, ConnectionTyped DEF Parts, WiresInv, AllOK, ClientTrue
<1> SUFFICES Wires /\ ClientTrue'
  BY DEF WiresInv, AllOK, ClientTrue
<1>1. ASSUME Quiet \/ PublishOutput \/ PublishStatus PROVE ClientTrue'
  <2>1. Operation /\ client' = client
    BY <1>1, QuietIs, PublishingIs
  <2>2. /\ file.to <= file'.to /\ (record.status = "exited" => record'.status = "exited")
        /\ file.to \in Nat
    BY <2>1, OperationGrows, PublishedTyped
  <2>3. file'.to \in Nat
    BY Sizes DEF TypeOK, FileState, Offsets
  <2> QED
    BY <1>0, <2>1, <2>2, <2>3, Sizes DEF ClientTrue, Offsets
<1>2. CASE Quiet
  <2>1. conn' = conn
    BY <1>2, QuietIs
  <2>2. ASSUME NEW s \in Sockets PROVE AllOK(conn[s].down)'
    <3>1. PICK wire : wire = conn[s].down
      OBVIOUS
    <3>2. AllOK(wire)'
      BY <1>0, <1>2, <3>1, WireKept
    <3> QED
      BY <2>1, <3>1, <3>2
  <2> QED
    BY <1>1, <1>2, <2>2
<1>3. CASE PublishOutput \/ PublishStatus
  <2>1. PICK m \in Message : Publish(m) /\ MessageOK(m)'
    <3>1. CASE PublishOutput
      <4>1. /\ Publish(Output(record.bytes)) /\ Output(record.bytes) \in Message
            /\ UNCHANGED <<file, record>>
        BY <3>1, PublishingIs
      <4>2. PICK b : b = record.bytes
        OBVIOUS
      <4>3. /\ Output(b).type = "output" /\ Output(b).end = b /\ Output(b).status = "running"
        BY MessageFields
      <4>4. b <= file'.to /\ b = Published'
        <5>1. Operation
          BY <3>1, PublishingIs
        <5> QED
          BY <3>1, <4>1, <4>2, <5>1, OperationGrows, PublishedTyped
      <4>5. b \in Nat
        BY <4>2, PublishedTyped
      <4>6. MessageOK(Output(b))'
        <5> HIDE DEF Published
        <5> QED
          BY <4>3, <4>4, <4>5 DEF MessageOK
      <4> QED
        BY <4>1, <4>2, <4>6
    <3>2. CASE PublishStatus
      <4>1. /\ Publish(StatusMessage("exited")) /\ StatusMessage("exited") \in Message
            /\ UNCHANGED <<file, record>>
        BY <3>2, PublishingIs
      <4>2. /\ StatusMessage("exited").type = "status" /\ StatusMessage("exited").end = 0
            /\ StatusMessage("exited").status = "exited"
        BY MessageFields
      <4>3. ExitSaid' /\ record.status = "exited" /\ file.to \in Nat
        <5>1. Operation
          BY <3>2, PublishingIs
        <5>2. command.op = "status"
          BY <3>2 DEF PublishStatus
        <5> QED
          BY <3>2, <5>1, <5>2, OperationGrows, PublishedTyped DEF ServiceInv
      <4>4. MessageOK(StatusMessage("exited"))'
        BY <4>1, <4>2, <4>3 DEF MessageOK
      <4> QED
        BY <4>1, <4>4
    <3> QED
      BY <1>3, <3>1, <3>2
  <2>2. ASSUME NEW s \in Sockets PROVE AllOK(conn[s].down)'
    <3>1. conn'[s].down = conn[s].down \/ conn'[s].down = Append(conn[s].down, m)
      BY <2>1, PublishEffect
    <3>2. PICK wire : wire = conn[s].down
      OBVIOUS
    <3>3. wire \in Seq(Message) /\ AllOK(wire)'
      BY <1>0, <1>3, <3>2, WireKept
    <3>4. AllOK(Append(wire, m))'
      <4>1. /\ Len(wire) \in Nat /\ Len(Append(wire, m)) = Len(wire) + 1
            /\ \A i \in 1 .. Len(wire) : Append(wire, m)[i] = wire[i]
            /\ Append(wire, m)[Len(wire) + 1] = m
        BY <3>3
      <4>2. ASSUME NEW i \in 1 .. Len(Append(wire, m)) PROVE MessageOK(Append(wire, m)[i])'
        <5>1. i \in 1 .. Len(wire) \/ i = Len(wire) + 1
          BY <4>1
        <5>2. CASE i = Len(wire) + 1
          BY <2>1, <4>1, <5>2
        <5>3. CASE i \in 1 .. Len(wire)
          BY <3>3, <4>1, <5>3 DEF AllOK
        <5> QED
          BY <5>1, <5>2, <5>3
      <4> QED
        BY <4>2 DEF AllOK
    <3> QED
      BY <3>1, <3>2, <3>3, <3>4
  <2> QED
    BY <1>1, <1>3, <2>2
<1>4. ASSUME NEW h \in Sinks, Complete(h) PROVE Wires /\ ClientTrue'
  <2>1. PICK s \in Sockets : Completed(h, s)
    BY <1>4, CompleteEffect
  <2>2. Still /\ client' = client
    BY <1>4 DEF Complete, Page
  <2>3. /\ sink[h].pc = "log" /\ sink[h].socket = s
        /\ \A t \in Sockets \ {s} : conn'[t] = conn[t]
        /\ \/ conn'[s].down = conn[s].down
           \/ conn[s].server /\ conn'[s].down = conn[s].down \o Reply(sink[h])
    BY <2>1 DEF Completed
  <2>4. ASSUME NEW t \in Sockets PROVE AllOK(conn[t].down)'
    <3>1. PICK wire : wire = conn'[t].down
      OBVIOUS
    <3>2. wire \in Seq(Message) /\ AllOK(wire)
      <4>1. CASE conn'[t].down = conn[t].down
        BY <1>0, <3>1, <4>1
      <4>2. CASE /\ t = s /\ conn[s].server
                 /\ conn'[s].down = conn[s].down \o Reply(sink[h])
        <5>1. AllOK(Reply(sink[h])) /\ Reply(sink[h]) \in Seq(Message)
          BY <2>3, <4>2, ReplyOK
        <5> QED
          BY <1>0, <3>1, <4>2, <5>1, JoinOK
      <4> QED
        BY <2>3, <4>1, <4>2
    <3>3. AllOK(wire)'
      BY <2>2, <3>2, WireKept
    <3> QED
      BY <3>1, <3>3
  <2>5. ClientTrue'
    BY <1>0, <2>2, ClientTrueKept
  <2> QED
    BY <2>4, <2>5
<1>5. ASSUME HandshakeOrServer, \A h \in Sinks : ~Complete(h) PROVE Wires /\ ClientTrue'
  <2>1. Still /\ client' = client
    BY <1>5, ServerIs
  <2>2. \A t \in Sockets : conn'[t].down = conn[t].down
    <3>1. ASSUME NEW h \in Sinks, GetSession(h) \/ ReadSession(h)
          PROVE  \A t \in Sockets : conn'[t].down = conn[t].down
      BY <3>1, EnqueuedTyped, GetSessionEffect, ReadSessionEffect DEF OperationTypes
    <3>2. ASSUME NEW s \in Sockets, Server(s)
          PROVE  \A t \in Sockets : conn'[t].down = conn[t].down
      <4>1. (\A t \in Sockets \ {s} : conn'[t] = conn[t]) /\ conn'[s].down = conn[s].down
        BY <3>2, HandleSubscribeEffect, HandleUnsubscribeEffect, CleanupSocketEffect DEF Server
      <4> QED
        BY <4>1
    <3> QED
      BY <1>5, <3>1, <3>2, Zenon DEF HandshakeOrServer, Handshake
  <2> QED
    BY <1>0, <2>1, <2>2, WiresKept, ClientTrueKept
<1>6. ASSUME NEW s \in Sockets, OnMessage(s) PROVE Wires /\ ClientTrue'
  <2>1. PICK m \in Message :
               /\ Heard(s, m)
               /\ Ignored(s, m) \/ SnapshotApplied(s, m)
                  \/ OutputApplied(s, m) \/ StatusApplied(s, m)
    BY <1>6, OnMessageEffect
  <2>2. Still
    BY <1>6, OnMessageEffect
  <2>3. Wires
    <3>1. \A t \in Sockets : \/ conn'[t].down = conn[t].down
                             \/ conn[t].down # <<>> /\ conn'[t].down = Tail(conn[t].down)
      BY <2>1 DEF Heard
    <3> QED
      BY <2>2, <3>1, WiresKept
  <2>4. MessageOK(m) /\ m.end \in Offsets
    BY <1>0, <2>1, WireParts DEF Heard, Message
  <2>5. ClientTrue'
    <3>1. CASE Ignored(s, m)
      BY <1>0, <2>2, <3>1 DEF Ignored, ClientTrue
    <3>2. CASE SnapshotApplied(s, m)
      BY <1>0, <2>2, <2>4, <3>2 DEF SnapshotApplied, ClientTrue, MessageOK
    <3>3. CASE OutputApplied(s, m)
      BY <1>0, <2>2, <2>4, <3>3 DEF OutputApplied, ClientTrue, MessageOK
    <3>4. CASE StatusApplied(s, m)
      BY <1>0, <2>2, <2>4, <3>4 DEF StatusApplied, ClientTrue, MessageOK
    <3> QED
      BY <2>1, <3>1, <3>2, <3>3, <3>4
  <2> QED
    BY <2>3, <2>5
<1>7. CASE Timers \/ Connect
  <2>1. CASE ReconnectTimer \/ SnapshotTimer
    <3>1. Still /\ conn' = conn /\ SameClient
      BY <2>1, TimersEffect
    <3> QED
      BY <1>0, <3>1, WiresKept, ClientTrueKept DEF SameClient
  <2>2. CASE Connect \/ ReconnectOpen
    <3>1. Still /\ ((SameClient /\ conn' = conn) \/ \E s \in Sockets : Opened(s))
      BY <2>2, OpensIs
    <3>2. CASE SameClient /\ conn' = conn
      BY <1>0, <3>1, <3>2, WiresKept, ClientTrueKept DEF SameClient
    <3>3. ASSUME NEW s \in Sockets, Opened(s) PROVE Wires /\ ClientTrue'
      <4>1. /\ \A t \in Sockets \ {s} : conn'[t] = conn[t]
            /\ conn'[s].down = <<>>
            /\ client'.base = client.base /\ client'.end = client.end
            /\ client'.status = client.status
        BY <3>3 DEF Opened, FreeSocket
      <4> QED
        BY <1>0, <3>1, <4>1, WiresKept, ClientTrueKept
    <3> QED
      BY <3>1, <3>2, <3>3
  <2> QED
    BY <1>7, <2>1, <2>2 DEF Timers
<1>8. CASE Subscribe \/ Unsubscribe
  <2>1. PICK m \in {"subscribe", "unsubscribe"} : conn' = Upward(conn, m) /\ Still
    BY <1>8, SubscribeEffect, UnsubscribeEffect
  <2>2. \A t \in Sockets : conn'[t].down = conn[t].down
    BY <2>1, UpwardIs DEF Parts
  <2>3. client'.base = FALSE /\ client'.status \in {client.status, "running"}
    BY <1>8, SubscribeEffect, UnsubscribeEffect
  <2> QED
    BY <1>0, <2>1, <2>2, <2>3, WiresKept, ClientTrueKept
<1>9. CASE Dispose
  <2>1. /\ Still /\ client'.base = FALSE /\ client'.status = "running"
        /\ \A t \in Sockets : IF t = client.socket THEN Unlinked(t) ELSE conn'[t] = conn[t]
    BY <1>9, DisposeEffect
  <2>2. \A t \in Sockets : conn'[t].down = <<>> \/ conn'[t].down = conn[t].down
    BY <2>1 DEF Unlinked
  <2> QED
    BY <1>0, <2>1, <2>2, WiresKept, ClientTrueKept
<1>10. ASSUME NEW s \in Sockets, Drop(s) PROVE Wires /\ ClientTrue'
  <2>1. /\ Still /\ client' = client /\ Unlinked(s)
        /\ \A t \in Sockets \ {s} : conn'[t] = conn[t]
    BY <1>10, DropEffect
  <2>2. \A t \in Sockets : conn'[t].down = <<>> \/ conn'[t].down = conn[t].down
    BY <2>1 DEF Unlinked
  <2> QED
    BY <1>0, <2>1, <2>2, WiresKept, ClientTrueKept
<1>11. ASSUME NEW s \in Sockets, OnOpen(s) PROVE Wires /\ ClientTrue'
  <2>1. /\ \A t \in Sockets : conn'[t].down = <<>> \/ conn'[t].down = conn[t].down
        /\ client'.status = client.status
        /\ client'.base = FALSE \/ (client'.base = client.base /\ client'.end = client.end)
    BY <1>11, OnOpenEffect DEF SameClient
  <2>2. Still
    BY <1>11 DEF OnOpen
  <2> QED
    BY <1>0, <2>1, <2>2, WiresKept, ClientTrueKept
<1>12. ASSUME NEW s \in Sockets, OnClose(s) PROVE Wires /\ ClientTrue'
  <2>1. /\ \A t \in Sockets : conn'[t].down = conn[t].down
        /\ client'.status = client.status
        /\ client'.base = FALSE \/ (client'.base = client.base /\ client'.end = client.end)
    BY <1>12, OnCloseEffect
  <2>2. Still
    BY <1>12 DEF OnClose
  <2> QED
    BY <1>0, <2>1, <2>2, WiresKept, ClientTrueKept
<1>13. CASE Poll
  BY <1>0, <1>13, PollIs, WiresKept, ClientTrueKept
<1> HIDE DEF Wires, Still
<1> QED
  BY <1>2, <1>3, <1>4, <1>5, <1>6, <1>7, <1>8, <1>9, <1>10, <1>11, <1>12, <1>13, Zenon
     DEF Next, Service, HandshakeOrServer, Browser, User, Quiet

-----------------------------------------------------------------------------
(***************************************************************************)
(* Every step keeps the console true.                                      *)
(***************************************************************************)

LEMMA BytesExtend ==
  ASSUME NEW hi \in Nat, NEW size \in Nat
  PROVE  Bytes(hi - size, hi) \o <<hi + 1>> = Bytes(hi - size, hi + 1)
<1> DEFINE b == Bytes(hi - size, hi)
           c == Bytes(hi - size, hi + 1)
<1>1. Len(b) = size /\ b \in Seq(Int) /\ \A i \in 1 .. Len(b) : b[i] = hi - size + i
  <2>1. hi - size \in Int /\ hi \in Int
    OBVIOUS
  <2>2. (IF hi > hi - size THEN hi - (hi - size) ELSE 0) = size
    OBVIOUS
  <2> QED
    BY <2>1, <2>2, BytesIs
<1>2. Len(c) = size + 1 /\ c \in Seq(Int) /\ \A i \in 1 .. Len(c) : c[i] = hi - size + i
  <2>1. hi - size \in Int /\ hi + 1 \in Int
    OBVIOUS
  <2>2. (IF hi + 1 > hi - size THEN (hi + 1) - (hi - size) ELSE 0) = size + 1
    OBVIOUS
  <2> QED
    BY <2>1, <2>2, BytesIs
<1> HIDE DEF b, c
<1>3. /\ b \o <<hi + 1>> \in Seq(Int) /\ Len(b \o <<hi + 1>>) = size + 1
      /\ \A i \in 1 .. size : (b \o <<hi + 1>>)[i] = b[i]
      /\ (b \o <<hi + 1>>)[size + 1] = hi + 1
  <2> DEFINE x == hi + 1
  <2>1. x \in Int /\ <<x>> \in Seq(Int) /\ Len(<<x>>) = 1 /\ <<x>>[1] = x
    OBVIOUS
  <2> HIDE DEF x
  <2>2. /\ b \o <<x>> \in Seq(Int) /\ Len(b \o <<x>>) = size + 1
        /\ \A i \in 1 .. size : (b \o <<x>>)[i] = b[i]
        /\ (b \o <<x>>)[size + 1] = x
    BY <1>1, <2>1
  <2> QED
    BY <2>2 DEF x
<1>4. ASSUME NEW i \in 1 .. size + 1 PROVE (b \o <<hi + 1>>)[i] = c[i]
  <2>1. CASE i \in 1 .. size
    BY <1>1, <1>2, <1>3, <2>1
  <2>2. CASE i = size + 1
    <3>1. hi - size + (size + 1) = hi + 1 /\ size + 1 \in 1 .. Len(c)
      BY <1>2
    <3> QED
      BY <1>2, <1>3, <2>2, <3>1
  <2>3. i \in 1 .. size \/ i = size + 1
    OBVIOUS
  <2> QED
    BY <2>1, <2>2, <2>3
<1> DEFINE d == b \o <<hi + 1>>
<1>5. d \in Seq(Int) /\ Len(d) = Len(c) /\ \A i \in 1 .. Len(d) : d[i] = c[i]
  BY <1>2, <1>3, <1>4
<1> HIDE DEF d
<1>6. d = c
  BY <1>2, <1>5
<1> QED
  BY <1>6 DEF b, c, d

Shown == screen.end # None => screen.text = Bytes(screen.end - Len(screen.text), screen.end)

LEMMA ShownIs == ShownIsTrue <=> (file.from = 0 => Shown)
BY DEF ShownIsTrue, TextIsOutput, Shown

LEMMA ScreenKept ==
  ASSUME ScreenInv, UNCHANGED screen, file'.from = 0 => file.from = 0,
         file.from = 0 /\ file'.from = 0 =>
            record'.kept = record'.bytes /\ poll'.kept = poll'.bytes,
         poll'.pc = "apply" =>
            poll.pc = "apply" /\ poll'.text = poll.text /\ poll'.end = poll.end
  PROVE  ScreenInv'
BY DEF ScreenInv, ShownIsTrue, TextIsOutput, TrueText

LEMMA HeardScreen ==
  ASSUME TypeOK, WiresInv, ScreenInv, NEW s \in Sockets, NEW m \in Message, Heard(s, m),
         Ignored(s, m) \/ SnapshotApplied(s, m) \/ OutputApplied(s, m) \/ StatusApplied(s, m),
         file' = file
  PROVE  ShownIsTrue'
<1> USE TypeParts
<1> SUFFICES ASSUME file.from = 0, screen'.end # None
             PROVE  screen'.text = Bytes(screen'.end - Len(screen'.text), screen'.end)
  BY DEF ShownIsTrue, TextIsOutput
<1>1. MessageOK(m)
  <2>1. conn[s] \in Connection /\ conn[s].down # <<>> /\ m = Head(conn[s].down)
    BY DEF Heard, Parts
  <2>2. m = conn[s].down[1] /\ 1 \in 1 .. Len(conn[s].down)
    BY <2>1, ConnectionTyped
  <2> QED
    BY <2>2 DEF WiresInv
<1>2. screen.end # None => screen.text = Bytes(screen.end - Len(screen.text), screen.end)
  BY DEF ScreenInv, ShownIsTrue, TextIsOutput
<1>3. m.text \in Text /\ m.end \in Offsets /\ m.status \in Statuses
  BY DEF Message
<1>4. CASE Ignored(s, m)
  BY <1>2, <1>4 DEF Ignored
<1>5. CASE SnapshotApplied(s, m)
  <2> DEFINE p == Paint(m.text, m.end)
  <2>1. /\ p \in ScreenState /\ p.end = m.end
        /\ \/ screen.end = m.end /\ p = screen
           \/ p.text = m.text
    BY <1>3, PaintIs
  <2>2. screen' = [p EXCEPT !.status = m.status]
    BY <1>5 DEF SnapshotApplied
  <2> HIDE DEF p
  <2>3. screen'.text = p.text /\ screen'.end = p.end
    BY <2>1, <2>2 DEF ScreenState
  <2>4. m.text = Bytes(m.end - Len(m.text), m.end)
    BY <1>1, <1>5 DEF MessageOK, TrueText, SnapshotApplied
  <2>5. CASE screen.end = m.end /\ p = screen
    BY <1>2, <2>3, <2>5
  <2>6. CASE p.text = m.text
    BY <2>1, <2>3, <2>4, <2>6
  <2> QED
    BY <2>1, <2>5, <2>6
<1>6. CASE OutputApplied(s, m)
  <2>1. screen' = Extend(m.text, m.end)
    BY <1>6 DEF OutputApplied
  <2>2. \/ screen' = screen
        \/ /\ screen.end = m.end - Len(m.text)
           /\ screen'.text = screen.text \o m.text
           /\ screen'.end = m.end
    BY <1>3, <2>1, ExtendIs
  <2>3. CASE /\ screen.end = m.end - Len(m.text)
             /\ screen'.text = screen.text \o m.text
             /\ screen'.end = m.end
    <3> DEFINE e == m.end
               size == Len(screen.text)
    <3>1. m.text = <<e>> /\ e \in Nat /\ e >= 1
      <4>1. m = Output(e)
        BY <1>1, <1>6 DEF MessageOK, OutputApplied
      <4>2. m.text = <<e>>
        BY <4>1, MessageFields
      <4>3. e \in Nat
        BY MessageTyped
      <4> HIDE DEF e
      <4>4. <<e>>[1] \in 1 .. MaxOutput
        BY <1>3, <4>2 DEF Text
      <4> QED
        BY <4>2, <4>3, <4>4, Sizes
    <3>2. screen.text \in Text /\ size \in Nat
      BY DEF ScreenState, Text
    <3> HIDE DEF e, size
    <3>3. Len(<<e>>) = 1 /\ e - 1 \in Nat
      BY <3>1
    <3>4. screen.end = e - 1 /\ screen'.text = screen.text \o <<e>> /\ screen'.end = e
      BY <2>3, <3>1, <3>3 DEF e
    <3>5. screen.text = Bytes((e - 1) - size, e - 1)
      BY <1>2, <3>3, <3>4 DEF size, None
    <3>6. Bytes((e - 1) - size, e - 1) \o <<(e - 1) + 1>> = Bytes((e - 1) - size, (e - 1) + 1)
      BY <3>2, <3>3, BytesExtend, Zenon
    <3>7. (e - 1) + 1 = e /\ (e - 1) - size = e - (size + 1)
      BY <3>1, <3>2
    <3>8. screen'.text = Bytes(e - (size + 1), e)
      BY <3>4, <3>5, <3>6, <3>7
    <3>9. Len(screen'.text) = size + 1
      <4>1. /\ e - (size + 1) \in Int /\ e \in Int
            /\ (IF e > e - (size + 1) THEN e - (e - (size + 1)) ELSE 0) = size + 1
        BY <3>1, <3>2
      <4>2. PICK lo : lo = e - (size + 1)
        OBVIOUS
      <4>3. lo \in Int /\ e \in Int /\ (IF e > lo THEN e - lo ELSE 0) = size + 1
        BY <4>1, <4>2
      <4>4. Len(Bytes(lo, e)) = size + 1
        BY <4>3, BytesIs
      <4> QED
        BY <3>8, <4>2, <4>4
    <3> QED
      BY <3>4, <3>8, <3>9
  <2> QED
    BY <1>2, <2>2, <2>3
<1>7. CASE StatusApplied(s, m)
  <2>1. screen'.text = screen.text /\ screen'.end = screen.end
    BY <1>7 DEF StatusApplied, ScreenState
  <2> QED
    BY <1>2, <2>1
<1> QED
  BY <1>4, <1>5, <1>6, <1>7

LEMMA ScreenStep ==
  ASSUME TypeOK, ServiceInv, LogInv, EntriesInv, ClientInv, BufferInv, WiresInv, ScreenInv, Next
  PROVE  ScreenInv'
<1> USE TypeParts
<1>0. file.from = 0 => record.kept = record.bytes /\ poll.kept = poll.bytes
  BY DEF ScreenInv
<1>1. UNCHANGED <<file, record, screen, poll>> => ScreenInv'
  BY <1>0, ScreenKept
<1>2. CASE Quiet
  <2>1. Operation /\ UNCHANGED <<screen, poll>>
    BY <1>2, QuietIs
  <2>2. /\ file'.from = 0 => file.from = 0
        /\ file.from = 0 /\ file'.from = 0 /\ record.kept = record.bytes =>
              record'.kept = record'.bytes
    BY <2>1, OperationGrows
  <2> QED
    BY <1>0, <2>1, <2>2, ScreenKept
<1>3. CASE PublishOutput \/ PublishStatus
  BY <1>1, <1>3, PublishingIs
<1>4. CASE HandshakeOrServer
  BY <1>1, <1>4, ServerIs
<1>5. CASE Timers \/ Connect
  BY <1>1, <1>5, TimersEffect, OpensIs DEF Timers
<1>6. CASE Subscribe
  BY <1>1, <1>6, SubscribeEffect
<1>7. CASE Unsubscribe
  <2>1. UNCHANGED <<file, record, poll>> /\ screen'.end = None
    BY <1>7, UnsubscribeEffect, NoScreenTyped
  <2> QED
    BY <2>1 DEF ScreenInv, ShownIsTrue, TextIsOutput, TrueText
<1>8. CASE Dispose
  <2>1. UNCHANGED <<file, record>> /\ screen'.end = None /\ poll' = NoPoll
    BY <1>8, DisposeEffect, NoScreenTyped
  <2>2. poll'.pc = "none" /\ poll'.kept = 0 /\ poll'.bytes = 0
    BY <2>1 DEF NoPoll
  <2> QED
    BY <2>1, <2>2 DEF ScreenInv, ShownIsTrue, TextIsOutput
<1>9. ASSUME NEW s \in Sockets, Drop(s) PROVE ScreenInv'
  BY <1>1, <1>9, DropEffect
<1>10. ASSUME NEW s \in Sockets, OnOpen(s) \/ OnClose(s) PROVE ScreenInv'
  <2>1. UNCHANGED <<file, record, screen, poll>>
    BY <1>10, Zenon DEF OnOpen, OnClose
  <2> QED
    BY <1>1, <2>1
<1>11. ASSUME NEW s \in Sockets, OnMessage(s) PROVE ScreenInv'
  <2>1. UNCHANGED <<file, record, poll>>
    BY <1>11, OnMessageEffect
  <2>2. ShownIsTrue'
    BY <1>11, <2>1, OnMessageEffect, HeardScreen
  <2> QED
    BY <2>1, <2>2 DEF ScreenInv, TrueText
<1>12. CASE PollBegin
  <2>1. /\ UNCHANGED <<file, record, screen>> /\ poll'.pc = "state"
        /\ poll'.bytes = poll.bytes /\ poll'.kept = poll.kept
    BY <1>12 DEF PollBegin, PollRead
  <2> QED
    BY <1>0, <2>1, ScreenKept
<1>13. CASE PollState
  <2>1. /\ UNCHANGED <<file, record>> /\ poll'.pc = "log"
        /\ poll'.bytes = record.bytes /\ poll'.kept = record.kept
    BY <1>13 DEF PollState, PollRead
  <2>2. screen'.text = screen.text /\ screen'.end = screen.end
    BY <1>13 DEF PollState, ScreenState
  <2> QED
    BY <1>0, <2>1, <2>2 DEF ScreenInv, ShownIsTrue, TextIsOutput, TrueText
<1>14. CASE PollLog
  <2>1. UNCHANGED <<file, record, screen>>
    BY <1>14 DEF PollLog
  <2>2. /\ poll'.bytes = 0 /\ poll'.kept = 0
        /\ file.from = 0 /\ poll.kept = poll.bytes => TrueText(poll'.text, poll'.end)
    BY <1>14, PollLogEffect
  <2> QED
    BY <1>0, <2>1, <2>2 DEF ScreenInv, ShownIsTrue, TextIsOutput, TrueText
<1>15. CASE PollApply
  <2>1. /\ UNCHANGED <<file, record>> /\ poll' = NoPoll /\ poll.pc = "apply"
        /\ screen' = screen \/ screen' = Paint(poll.text, poll.end)
    BY <1>15 DEF PollApply
  <2>2. poll'.pc = "none" /\ poll'.kept = 0 /\ poll'.bytes = 0
    BY <2>1 DEF NoPoll
  <2>3. /\ Paint(poll.text, poll.end).end = poll.end
        /\ \/ screen.end = poll.end /\ Paint(poll.text, poll.end) = screen
           \/ Paint(poll.text, poll.end).text = poll.text
    <3>1. poll.text \in Text /\ poll.end \in Offsets
      BY DEF PollRead
    <3> QED
      BY <3>1, PaintIs
  <2>4. \/ screen' = screen
        \/ screen'.text = poll.text /\ screen'.end = poll.end
    BY <2>1, <2>3
  <2>5. file.from = 0 => poll.text = Bytes(poll.end - Len(poll.text), poll.end)
    BY <2>1 DEF ScreenInv, TrueText
  <2> QED
    BY <2>1, <2>2, <2>4, <2>5 DEF ScreenInv, ShownIsTrue, TextIsOutput
<1> QED
  BY <1>2, <1>3, <1>4, <1>5, <1>6, <1>7, <1>8, <1>9, <1>10, <1>11, <1>12, <1>13, <1>14, <1>15,
     Zenon
     DEF Next, Service, HandshakeOrServer, Browser, User, Quiet, Poll

-----------------------------------------------------------------------------
(***************************************************************************)
(* Every step keeps the wires continuous.                                  *)
(***************************************************************************)

LEMMA LinkedKept ==
  ASSUME NEW wire, Len(wire) \in Nat, Linked(wire),
         \/ command'.written = command.written
         \/ \A i \in 1 .. Len(wire) : wire[i].type # "status"
  PROVE  Linked(wire)'
<1>1. ASSUME NEW i \in 1 .. Len(wire) - 1 PROVE Follows(wire[i], wire[i + 1])'
  <2>1. Follows(wire[i], wire[i + 1]) /\ i \in 1 .. Len(wire) /\ i + 1 \in 1 .. Len(wire)
    BY DEF Linked
  <2> QED
    BY <2>1 DEF Follows, Continuing
<1> QED
  BY <1>1 DEF Linked

LEMMA LinkedTail ==
  ASSUME NEW wire \in Seq(Message), Linked(wire), wire # <<>>
  PROVE  /\ Linked(Tail(wire)) /\ Head(wire) = wire[1]
         /\ Tail(wire) # <<>> => /\ Follows(Head(wire), Tail(wire)[1])
                                 /\ EndsCurrent(wire) => EndsCurrent(Tail(wire))
         /\ Tail(wire) = <<>> => (EndsCurrent(wire) =>
               Head(wire).type = "status" \/ Current(Head(wire).end, Head(wire).status))
<1> DEFINE n == Len(wire)
<1>1. /\ n \in Nat /\ n >= 1 /\ Len(Tail(wire)) = n - 1 /\ Head(wire) = wire[1]
      /\ \A i \in 1 .. n - 1 : Tail(wire)[i] = wire[i + 1]
      /\ Tail(wire) = <<>> <=> n = 1
  <2>1. /\ n \in Nat /\ n >= 1 /\ Len(Tail(wire)) = n - 1 /\ Head(wire) = wire[1]
        /\ \A i \in 1 .. Len(Tail(wire)) : Tail(wire)[i] = wire[i + 1]
    OBVIOUS
  <2>2. PICK rest : rest = Tail(wire)
    OBVIOUS
  <2>3. rest \in Seq(Message) /\ (rest = <<>> <=> Len(rest) = 0)
    <3>1. rest \in Seq(Message)
      BY <2>2
    <3> QED
      BY <3>1, EmptySeq
  <2> HIDE DEF n
  <2> QED
    BY <2>1, <2>2, <2>3
<1> HIDE DEF n
<1>2. Linked(Tail(wire))
  <2>1. ASSUME NEW i \in 1 .. Len(Tail(wire)) - 1
        PROVE  Follows(Tail(wire)[i], Tail(wire)[i + 1])
    <3>1. i + 1 \in 1 .. Len(wire) - 1 /\ i \in 1 .. n - 1 /\ i + 1 \in 1 .. n - 1
      BY <1>1 DEF n
    <3>2. Follows(wire[i + 1], wire[(i + 1) + 1])
      BY <3>1 DEF Linked
    <3> QED
      BY <1>1, <3>1, <3>2
  <2> QED
    BY <2>1 DEF Linked
<1>3. ASSUME Tail(wire) # <<>>
      PROVE  /\ Follows(Head(wire), Tail(wire)[1])
             /\ EndsCurrent(wire) => EndsCurrent(Tail(wire))
  <2>1. n > 1 /\ 1 \in 1 .. Len(wire) - 1 /\ 1 \in 1 .. n - 1 /\ n - 1 \in 1 .. n - 1
    BY <1>1, <1>3 DEF n
  <2>2. Follows(wire[1], wire[1 + 1]) /\ Tail(wire)[1] = wire[1 + 1]
    BY <1>1, <2>1 DEF Linked
  <2>3. Tail(wire)[Len(Tail(wire))] = wire[Len(wire)]
    <3>1. Tail(wire)[n - 1] = wire[(n - 1) + 1] /\ (n - 1) + 1 = n
      BY <1>1, <2>1
    <3> QED
      BY <1>1, <3>1 DEF n
  <2> QED
    BY <1>1, <2>2, <2>3 DEF EndsCurrent
<1>4. ASSUME Tail(wire) = <<>>, EndsCurrent(wire)
      PROVE  Head(wire).type = "status" \/ Current(Head(wire).end, Head(wire).status)
  <2>1. wire[Len(wire)] = Head(wire)
    BY <1>1, <1>4 DEF n
  <2> QED
    BY <1>4, <2>1 DEF EndsCurrent
<1> QED
  BY <1>1, <1>2, <1>3, <1>4

LEMMA LinkedJoin ==
  ASSUME NEW a \in Seq(Message), NEW b \in Seq(Message), Linked(a), Linked(b),
         b # <<>>, b[1].type = "snapshot"
  PROVE  /\ Linked(a \o b) /\ a \o b # <<>> /\ (EndsCurrent(b) => EndsCurrent(a \o b))
         /\ (a \o b)[1] = IF a = <<>> THEN b[1] ELSE a[1]
<1> DEFINE m == Len(a)
           n == Len(b)
           c == a \o b
<1>1. /\ m \in Nat /\ n \in Nat /\ n >= 1 /\ Len(c) = m + n /\ c # <<>>
      /\ \A i \in 1 .. m : c[i] = a[i]
      /\ \A i \in m + 1 .. m + n : c[i] = b[i - m]
      /\ a = <<>> <=> m = 0
  OBVIOUS
<1> HIDE DEF c, m, n
<1>2. c[m + n] = b[n]
  <2>1. m + n \in m + 1 .. m + n /\ (m + n) - m = n
    BY <1>1
  <2> QED
    BY <1>1, <2>1
<1>3. c[1] = IF a = <<>> THEN b[1] ELSE a[1]
  <2>1. CASE m = 0
    <3>1. 1 \in m + 1 .. m + n /\ 1 - m = 1
      BY <1>1, <2>1
    <3> QED
      BY <1>1, <2>1, <3>1
  <2>2. CASE m # 0
    <3>1. 1 \in 1 .. m
      BY <1>1, <2>2
    <3> QED
      BY <1>1, <2>2, <3>1
  <2> QED
    BY <2>1, <2>2
<1>4. ASSUME NEW i \in 1 .. (m + n) - 1 PROVE Follows(c[i], c[i + 1])
  <2>1. CASE i < m
    <3>1. i \in 1 .. m /\ i + 1 \in 1 .. m /\ i \in 1 .. Len(a) - 1
      BY <1>1, <2>1 DEF m
    <3> QED
      BY <1>1, <3>1 DEF Linked
  <2>2. CASE i = m
    <3>1. i + 1 \in m + 1 .. m + n /\ (i + 1) - m = 1
      BY <1>1, <2>2
    <3>2. c[i + 1] = b[1]
      BY <1>1, <3>1
    <3> QED
      BY <3>2 DEF Follows
  <2>3. CASE i > m
    <3>1. /\ i \in m + 1 .. m + n /\ i + 1 \in m + 1 .. m + n
          /\ i - m \in 1 .. Len(b) - 1 /\ (i + 1) - m = (i - m) + 1
      BY <1>1, <2>3 DEF n
    <3>2. Follows(b[i - m], b[(i - m) + 1])
      BY <3>1 DEF Linked
    <3> QED
      BY <1>1, <3>1, <3>2
  <2> QED
    BY <1>1, <2>1, <2>2, <2>3
<1>5. Linked(c)
  BY <1>1, <1>4 DEF Linked
<1>6. EndsCurrent(b) => EndsCurrent(c)
  BY <1>1, <1>2 DEF EndsCurrent, n
<1> QED
  BY <1>1, <1>3, <1>5, <1>6 DEF c

LEMMA LinkedAppend ==
  ASSUME NEW wire \in Seq(Message), NEW m \in Message, Linked(wire),
         wire # <<>> => Follows(wire[Len(wire)], m)
  PROVE  /\ Linked(Append(wire, m)) /\ Append(wire, m) # <<>>
         /\ Append(wire, m)[Len(Append(wire, m))] = m
         /\ Append(wire, m)[1] = IF wire = <<>> THEN m ELSE wire[1]
<1> DEFINE n == Len(wire)
           c == Append(wire, m)
<1>1. /\ n \in Nat /\ Len(c) = n + 1 /\ c # <<>> /\ c[n + 1] = m
      /\ \A i \in 1 .. n : c[i] = wire[i]
      /\ wire = <<>> <=> n = 0
  <2>1. /\ n \in Nat /\ Len(c) = n + 1 /\ c[n + 1] = m
        /\ \A i \in 1 .. n : c[i] = wire[i]
    OBVIOUS
  <2>2. wire = <<>> <=> n = 0
    BY EmptySeq
  <2>3. c # <<>>
    <3>1. Len(<<>>) = 0
      OBVIOUS
    <3> HIDE DEF n, c
    <3> QED
      BY <2>1, <3>1
  <2> QED
    BY <2>1, <2>2, <2>3
<1> HIDE DEF n, c
<1>2. ASSUME NEW i \in 1 .. (n + 1) - 1 PROVE Follows(c[i], c[i + 1])
  <2>1. CASE i < n
    <3>1. i \in 1 .. n /\ i + 1 \in 1 .. n /\ i \in 1 .. Len(wire) - 1
      BY <1>1, <2>1 DEF n
    <3> QED
      BY <1>1, <3>1 DEF Linked
  <2>2. CASE i = n
    <3>1. wire # <<>> /\ c[i] = wire[Len(wire)] /\ c[i + 1] = m
      BY <1>1, <2>2 DEF n
    <3> QED
      BY <3>1
  <2> QED
    BY <1>1, <2>1, <2>2
<1>3. Linked(c)
  BY <1>1, <1>2 DEF Linked
<1>4. c[1] = IF wire = <<>> THEN m ELSE wire[1]
  <2>1. CASE n = 0
    BY <1>1, <2>1
  <2>2. CASE n # 0
    <3>1. 1 \in 1 .. n
      BY <1>1, <2>2
    <3> QED
      BY <1>1, <2>2, <3>1
  <2> QED
    BY <2>1, <2>2
<1> QED
  BY <1>1, <1>3, <1>4 DEF c

\* The reply continues from its snapshot to the last event published.
LEMMA ReplyLinked ==
  ASSUME TypeOK, ServiceInv, LogInv, BufferInv,
         NEW h \in Sinks, sink[h].pc = "log", conn[sink[h].socket].server
  PROVE  /\ Reply(sink[h]) \in Seq(Message) /\ Linked(Reply(sink[h]))
         /\ Reply(sink[h]) # <<>> /\ Reply(sink[h])[1].type = "snapshot"
         /\ EndsCurrent(Reply(sink[h]))
<1> USE TypeParts
<1>1. PICK snap \in Message, left \in 0 .. Published, said \in BOOLEAN :
            /\ Reply(sink[h]) = <<snap>> \o Recent(left, said)
            /\ snap.type = "snapshot" /\ MessageOK(snap)
            /\ snap.end <= Published + 1
            /\ left = IF snap.end < Published THEN Published - snap.end ELSE 0
            /\ said => ExitSaid /\ snap.status # "exited"
            /\ ExitSaid => said \/ snap.status = "exited"
  BY ReplyIs, Zenon
<1> DEFINE p == Published
           r == Recent(left, said)
           size == left + (IF said THEN 1 ELSE 0)
           c == <<snap>> \o r
<1>2. /\ p \in Nat /\ p <= MaxOutput /\ file.to \in Nat /\ file.to <= command.written
      /\ command.written \in Nat
      /\ ExitSaid => p = command.written
      /\ record.status = "exited" => p = command.written /\ file.to = command.written
  BY PublishedTyped
<1>3. snap.end \in Nat /\ snap.end <= file.to /\ left \in Nat /\ left <= p
      /\ left = (IF snap.end < p THEN p - snap.end ELSE 0) /\ snap.end <= p + 1
  <2>1. snap.end \in Nat /\ snap.end <= file.to
    BY <1>1, MessageTyped DEF MessageOK
  <2> QED
    BY <1>1, <1>2, <2>1
<1>4. /\ Len(r) = size /\ r \in Seq(Message)
      /\ \A i \in 1 .. left : r[i] = Output(p - left + i)
      /\ said => r[left + 1] = StatusMessage("exited")
  <2>1. r \in Seq(Message)
    BY <1>2, <1>3, RecentTyped
  <2> QED
    BY <1>3, <2>1, RecentItems
<1>5. snap.status = "exited" => snap.end = command.written /\ record.status = "exited"
  BY <1>1 DEF MessageOK
<1> HIDE DEF r
<1>6. /\ c \in Seq(Message) /\ Len(c) = size + 1 /\ c # <<>> /\ c[1] = snap
      /\ \A i \in 1 .. size : c[i + 1] = r[i]
  <2>1. Len(r) = size /\ size \in Nat
    BY <1>3, <1>4
  <2> HIDE DEF size
  <2> QED
    BY <1>4, <2>1
<1> HIDE DEF c, p
<1>7. ASSUME NEW i \in 1 .. size PROVE Follows(c[i], c[i + 1])
  <2>1. CASE i <= left
    <3>1. c[i + 1] = Output(p - left + i)
      BY <1>3, <1>4, <1>6, <2>1
    <3>2. p - left = snap.end
      BY <1>2, <1>3, <2>1
    <3>3. /\ c[i + 1].type = "output" /\ c[i + 1].end = snap.end + i
      BY <3>1, <3>2, MessageFields
    <3>4. CASE i = 1
      BY <1>1, <1>3, <1>6, <3>3, <3>4 DEF Follows, Continuing
    <3>5. CASE i # 1
      <4>1. i - 1 \in 1 .. left /\ i - 1 \in 1 .. size /\ (i - 1) + 1 = i
        BY <1>3, <2>1, <3>5
      <4>2. c[i] = Output(p - left + (i - 1))
        BY <1>4, <1>6, <4>1
      <4>3. /\ c[i].type = "output" /\ c[i].end = snap.end + (i - 1)
        BY <3>2, <4>2, MessageFields
      <4>4. snap.end + (i - 1) = (snap.end + i) - 1
        BY <1>3
      <4> QED
        BY <1>3, <3>3, <4>3, <4>4 DEF Follows, Continuing
    <3> QED
      BY <3>4, <3>5
  <2>2. CASE i > left
    <3>1. said /\ i = left + 1
      BY <1>3, <2>2
    <3>2. c[i + 1].type = "status"
      BY <1>4, <1>6, <3>1, MessageFields
    <3>3. p = command.written
      BY <1>1, <1>2, <3>1
    <3>4. CASE left = 0
      <4>1. snap.end = command.written
        BY <1>2, <1>3, <3>3, <3>4
      <4> QED
        BY <1>1, <1>6, <3>1, <3>2, <3>4, <4>1 DEF Follows, Continuing
    <3>5. CASE left # 0
      <4>1. left \in 1 .. left /\ left \in 1 .. size /\ p - left + left = p
        BY <1>2, <1>3, <3>5
      <4>2. c[i] = Output(p)
        BY <1>4, <1>6, <3>1, <4>1
      <4>3. c[i].type = "output" /\ c[i].end = command.written
        BY <3>3, <4>2, MessageFields
      <4> QED
        BY <3>2, <4>3 DEF Follows, Continuing
    <3> QED
      BY <3>4, <3>5
  <2> QED
    BY <1>3, <2>1, <2>2
<1>8. Linked(c)
  <2>1. Len(c) - 1 = size
    BY <1>3, <1>6
  <2> QED
    BY <1>7, <2>1 DEF Linked
<1>9. c[size + 1].type = "status" \/ Current(c[size + 1].end, c[size + 1].status)
  <2>1. CASE said
    <3>1. size = left + 1 /\ size \in 1 .. size
      BY <1>3, <2>1
    <3> QED
      BY <1>4, <1>6, <2>1, <3>1, MessageFields
  <2>2. CASE ~said /\ left = 0
    <3>1. c[size + 1] = snap /\ snap.end \in {p, p + 1}
      BY <1>2, <1>3, <1>6, <2>2
    <3> QED
      BY <1>1, <2>2, <3>1 DEF Current, p
  <2>3. CASE ~said /\ left # 0
    <3>1. size = left /\ size \in 1 .. size /\ left \in 1 .. left /\ p - left + left = p
      BY <1>2, <1>3, <2>3
    <3>2. c[size + 1] = Output(p)
      BY <1>4, <1>6, <3>1
    <3>3. c[size + 1].end = p
      BY <3>2, MessageFields
    <3>4. snap.end < p
      BY <1>2, <1>3, <2>3
    <3>5. ~ExitSaid
      BY <1>1, <1>2, <1>3, <1>5, <2>3, <3>4
    <3> QED
      BY <3>3, <3>5 DEF Current, p
  <2> QED
    BY <2>1, <2>2, <2>3
<1>10. EndsCurrent(c)
  BY <1>6, <1>9 DEF EndsCurrent
<1> QED
  BY <1>1, <1>6, <1>8, <1>10 DEF c, r

LEMMA StreamKept ==
  ASSUME TypeOK, StreamInv, NEW t \in Sockets,
         command' = command, conn'[t].down = conn[t].down,
         Attached(t)' /\ conn'[t].link => Attached(t) /\ conn[t].link,
         Mine(t)' => /\ Mine(t) /\ client'.end = client.end
                     /\ client'.status = client.status
  PROVE  WireOK(t)'
<1>1. WireOK(t)
  BY DEF StreamInv
<1>2. PICK wire : wire = conn[t].down
  OBVIOUS
<1>3. Len(wire) \in Nat /\ Linked(wire)
  <2>1. conn[t] \in Connection
    BY DEF TypeOK
  <2>2. wire \in Seq(Message)
    BY <1>2, <2>1, ConnectionTyped
  <2> QED
    BY <1>1, <1>2, <2>2 DEF WireOK
<1>4. Linked(wire)'
  BY <1>3, LinkedKept
<1>5. Mine(t)' /\ wire # <<>> => Continuing(client.end, wire[1])'
  BY <1>1, <1>2 DEF WireOK, Continuing
<1>6. Attached(t)' /\ conn'[t].link =>
        /\ wire # <<>> => EndsCurrent(wire)'
        /\ Mine(t)' /\ wire = <<>> => Current(client.end, client.status)'
  BY <1>1, <1>2 DEF WireOK, EndsCurrent, Current, Published, ExitSaid
<1> QED
  BY <1>2, <1>4, <1>5, <1>6 DEF WireOK

LEMMA WireEmpty ==
  ASSUME NEW t \in Sockets, conn'[t].down = <<>>, ~(Attached(t)' /\ conn'[t].link)
  PROVE  WireOK(t)'
<1>1. Linked(<<>>)'
  BY DEF Linked
<1> QED
  BY <1>1 DEF WireOK

LEMMA AttachedKept ==
  ASSUME \A h \in Sinks : sink'[h].pc = "live" =>
            sink[h].pc = "live" /\ sink'[h].socket = sink[h].socket
  PROVE  \A t \in Sockets : Attached(t)' => Attached(t)
BY DEF Attached

AllShown == client.base /\ client.status = "exited" => client.end = command.written

LEMMA StreamIs == StreamInv <=> (\A s \in Sockets : WireOK(s)) /\ AllShown
BY DEF StreamInv, AllShown

LEMMA AllShownKept ==
  ASSUME AllShown, command' = command,
         \/ client'.base = FALSE
         \/ /\ client'.base = client.base /\ client'.end = client.end
            /\ client'.status = client.status
  PROVE  AllShown'
BY DEF AllShown

\* A message that every current offset continues to goes behind what is sent.
LEMMA PublishLinks ==
  ASSUME TypeOK, EntriesInv, WiresInv, StreamInv,
         NEW m \in Message, Publish(m), command'.written = command.written, client' = client,
         ~ExitSaid, m.type # "snapshot",
         \A end \in Nat : end <= file.to /\ end \in {Published, Published + 1} =>
             Continuing(end, m),
         m.type = "status" \/ Current(m.end, m.status)'
  PROVE  \A t \in Sockets : WireOK(t)'
<1> TAKE t \in Sockets
<1>1. WireOK(t) /\ (client.base => client.end \in Nat /\ client.end <= file.to)
  BY Sizes DEF StreamInv, WiresInv, Offsets
<1>2. PICK wire : wire = conn[t].down
  OBVIOUS
<1>3. /\ wire \in Seq(Message) /\ Len(wire) \in Nat /\ Linked(wire)
      /\ \A i \in 1 .. Len(wire) : MessageOK(wire[i]) /\ wire[i].type # "status"
  <2>1. conn[t] \in Connection
    BY DEF TypeOK
  <2>2. wire \in Seq(Message)
    BY <1>2, <2>1, ConnectionTyped
  <2>3. \A i \in 1 .. Len(wire) : MessageOK(wire[i])
    BY <1>2 DEF WiresInv
  <2> QED
    BY <1>1, <1>2, <2>2, <2>3 DEF WireOK, MessageOK
<1>4. /\ Attached(t)' <=> Attached(t)
      /\ conn'[t].link = conn[t].link
      /\ Attached(t) /\ conn[t].link => conn'[t].down = Append(wire, m)
      /\ ~(Attached(t) /\ conn[t].link) => conn'[t].down = wire
  <2>1. /\ \A h \in Sinks : sink'[h].pc = sink[h].pc /\ sink'[h].socket = sink[h].socket
        /\ conn'[t].link = conn[t].link
        /\ Attached(t) /\ conn[t].link /\ conn[t].server =>
              conn'[t].down = Append(conn[t].down, m)
        /\ ~(Attached(t) /\ conn[t].link /\ conn[t].server) => conn'[t].down = conn[t].down
    BY TypeParts, PublishEffect
  <2>2. Attached(t) => conn[t].server
    BY DEF Attached, EntriesInv, EntryOK
  <2> QED
    BY <1>2, <2>1, <2>2 DEF Attached
<1>5. CASE ~(Attached(t) /\ conn[t].link)
  <2>1. Linked(wire)'
    BY <1>3, LinkedKept
  <2>2. Mine(t)' /\ wire # <<>> => Continuing(client.end, wire[1])'
    BY <1>1, <1>2 DEF WireOK, Continuing, Mine
  <2> QED
    BY <1>4, <1>5, <2>1, <2>2 DEF WireOK
<1>6. CASE Attached(t) /\ conn[t].link
  <2>1. wire # <<>> => Follows(wire[Len(wire)], m)
    <3> HAVE wire # <<>>
    <3>1. EndsCurrent(wire)
      BY <1>1, <1>2, <1>6 DEF WireOK
    <3>2. PICK last : last = wire[Len(wire)]
      OBVIOUS
    <3>3. last \in Message /\ MessageOK(last) /\ last.type # "status"
      <4>1. Len(wire) \in 1 .. Len(wire) /\ wire[Len(wire)] \in Message
        BY <1>3, EmptySeq
      <4> QED
        BY <1>3, <3>2, <4>1
    <3>4. last.end \in Nat /\ last.end <= file.to /\ last.end \in {Published, Published + 1}
      <4> HIDE DEF Published
      <4> QED
        BY <3>1, <3>2, <3>3, MessageTyped DEF EndsCurrent, Current, MessageOK
    <3> QED
      BY <3>2, <3>3, <3>4 DEF Follows
  <2> DEFINE c == Append(wire, m)
  <2>2. /\ Linked(c) /\ c # <<>> /\ c[Len(c)] = m
        /\ c[1] = (IF wire = <<>> THEN m ELSE wire[1]) /\ Len(c) \in Nat
    <3>1. Len(c) \in Nat
      BY <1>3
    <3> QED
      BY <1>3, <2>1, <3>1, LinkedAppend
  <2> HIDE DEF c
  <2>3. conn'[t].down = c
    BY <1>4, <1>6 DEF c
  <2>4. PICK d : d = c
    OBVIOUS
  <2>5. Linked(d)'
    BY <2>2, <2>4, LinkedKept
  <2>6. Mine(t)' => Continuing(client.end, d[1])'
    <3>1. Mine(t)' => Continuing(client.end, d[1])
      <4> HAVE Mine(t)'
      <4>1. Mine(t)
        BY DEF Mine
      <4>2. CASE wire = <<>>
        <5>1. client.end \in {Published, Published + 1}
          BY <1>1, <1>2, <1>6, <4>1, <4>2 DEF WireOK, Current
        <5> QED
          BY <1>1, <2>2, <2>4, <4>1, <4>2, <5>1 DEF Mine
      <4>3. CASE wire # <<>>
        BY <1>1, <1>2, <2>2, <2>4, <4>1, <4>3 DEF WireOK
      <4> QED
        BY <4>2, <4>3
    <3> QED
      BY <3>1 DEF Continuing
  <2>7. EndsCurrent(d)'
    BY <2>2, <2>4 DEF EndsCurrent
  <2> QED
    BY <2>2, <2>3, <2>4, <2>5, <2>6, <2>7 DEF WireOK
<1> QED
  BY <1>5, <1>6

LEMMA OperationStream ==
  ASSUME TypeOK, ServiceInv, LogInv, EntriesInv, WiresInv, StreamInv,
         Quiet \/ PublishOutput \/ PublishStatus
  PROVE  StreamInv'
<1> USE TypeParts
<1>1. /\ Operation /\ client' = client /\ ~ExitSaid
      /\ record.status = "exited" => command'.written = command.written
      /\ Published \in Nat
  <2>1. Operation /\ client' = client
    BY QuietIs, PublishingIs
  <2> QED
    BY <2>1, OperationGrows, PublishedTyped
<1>2. AllShown'
  BY <1>1 DEF AllShown, StreamInv, WiresInv
<1>3. ASSUME NEW t \in Sockets, NEW i \in 1 .. Len(conn[t].down)
      PROVE  MessageOK(conn[t].down[i]) /\ conn[t].down[i].type # "status"
  BY <1>1 DEF WiresInv, MessageOK
<1>4. CASE Quiet /\ ~PublishOutput /\ ~PublishStatus
  <2>1. UNCHANGED <<sink, conn>> /\ Published' = Published /\ ~ExitSaid'
    BY <1>1, <1>4, QuietIs, OperationGrows
  <2>2. ASSUME NEW t \in Sockets PROVE WireOK(t)'
    <3>1. PICK wire : wire = conn[t].down
      OBVIOUS
    <3>2. Len(wire) \in Nat /\ Linked(wire) /\ WireOK(t)
      <4>1. conn[t] \in Connection
        BY DEF Parts
      <4>2. wire \in Seq(Message)
        BY <3>1, <4>1, ConnectionTyped
      <4> QED
        BY <3>1, <4>2 DEF StreamInv, WireOK
    <3>3. \A i \in 1 .. Len(wire) : wire[i].type # "status"
      BY <1>3, <3>1
    <3>4. Linked(wire)'
      BY <3>2, <3>3, LinkedKept
    <3>5. wire # <<>> => 1 \in 1 .. Len(wire)
      <4>1. conn[t] \in Connection
        BY DEF Parts
      <4>2. wire \in Seq(Message)
        BY <3>1, <4>1, ConnectionTyped
      <4> QED
        BY <4>2, EmptySeq
    <3>6. Mine(t)' /\ wire # <<>> => Continuing(client.end, wire[1])'
      BY <1>1, <3>1, <3>2, <3>3, <3>5 DEF WireOK, Continuing, Mine
    <3>7. /\ EndsCurrent(wire) => EndsCurrent(wire)'
          /\ Current(client.end, client.status) => Current(client.end, client.status)'
      <4> HIDE DEF Published, ExitSaid
      <4> QED
        BY <1>1, <2>1 DEF EndsCurrent, Current
    <3>8. Attached(t)' = Attached(t) /\ Mine(t)' = Mine(t)
      BY <1>1, <2>1 DEF Attached, Mine
    <3> QED
      BY <2>1, <3>1, <3>2, <3>4, <3>6, <3>7, <3>8 DEF WireOK
  <2> QED
    BY <1>2, <2>2 DEF StreamInv, AllShown
<1>5. CASE PublishOutput
  <2>0. PICK b : b = record.bytes
    OBVIOUS
  <2> DEFINE m == Output(b)
  <2>1. /\ Publish(m) /\ m \in Message /\ b = Published + 1 /\ Published' = b /\ b \in Nat
        /\ ~ExitSaid' /\ command'.written = command.written
    <3>1. /\ Publish(m) /\ m \in Message
      BY <1>5, <2>0, PublishingIs
    <3>2. Published' = Published + 1 /\ b = Published + 1 /\ ~ExitSaid'
      <4>1. ~PublishStatus
        BY <1>5 DEF PublishOutput, PublishStatus
      <4> QED
        BY <1>1, <1>5, <2>0, <4>1, OperationGrows
    <3>3. command'.written = command.written
      BY <1>5 DEF PublishOutput, OperationTypes, CommandState
    <3>4. b \in Nat
      BY <2>0, PublishedTyped
    <3> QED
      BY <3>1, <3>2, <3>3, <3>4
  <2>2. m.type = "output" /\ m.end = b
    BY MessageFields
  <2> HIDE DEF m
  <2>3. \A end \in Nat : end <= file.to /\ end \in {Published, Published + 1} =>
            Continuing(end, m)
    <3> HIDE DEF Published
    <3> QED
      BY <1>1, <2>1, <2>2 DEF Continuing
  <2>4. Current(m.end, m.status)'
    <3> HIDE DEF Published, ExitSaid
    <3> QED
      BY <2>1, <2>2 DEF Current
  <2>5. \A t \in Sockets : WireOK(t)'
    BY <1>1, <2>1, <2>2, <2>3, <2>4, PublishLinks
  <2> QED
    BY <1>2, <2>5 DEF StreamInv, AllShown
<1>6. CASE PublishStatus
  <2> DEFINE m == StatusMessage("exited")
  <2>1. Publish(m) /\ m \in Message /\ command'.written = command.written
    <3>1. command'.written = command.written
      BY <1>6 DEF PublishStatus, OperationTypes, CommandState
    <3> QED
      BY <1>6, <3>1, PublishingIs
  <2>2. m.type = "status"
    BY MessageFields
  <2> HIDE DEF m
  <2>3. \A end \in Nat : end <= file.to /\ end \in {Published, Published + 1} =>
            Continuing(end, m)
    <3>1. /\ Published = command.written /\ file.to <= command.written
          /\ file.to \in Nat /\ command.written \in Nat
      BY <1>1, <1>6, OperationGrows, PublishedTyped
    <3> HIDE DEF Published
    <3> QED
      BY <2>2, <3>1 DEF Continuing
  <2>4. \A t \in Sockets : WireOK(t)'
    BY <1>1, <2>1, <2>2, <2>3, PublishLinks
  <2> QED
    BY <1>2, <2>4 DEF StreamInv, AllShown
<1> QED
  BY <1>4, <1>5, <1>6

LEMMA CompleteStream ==
  ASSUME TypeOK, ServiceInv, LogInv, EntriesInv, BufferInv, StreamInv,
         NEW h \in Sinks, Complete(h)
  PROVE  StreamInv'
<1> USE TypeParts
<1>1. PICK s \in Sockets : Completed(h, s)
  BY CompleteEffect
<1>2. UNCHANGED <<command, client>>
  BY DEF Complete, Page
<1>3. AllShown'
  BY <1>2, AllShownKept DEF StreamInv, AllShown
<1>4. ASSUME NEW t \in Sockets \ {s} PROVE WireOK(t)'
  <2>1. conn'[t] = conn[t]
    BY <1>1 DEF Completed
  <2>2. Attached(t)' => Attached(t)
    <3>1. ASSUME NEW g \in Sinks, sink'[g].pc = "live", sink'[g].socket = t
          PROVE  sink[g].pc = "live" /\ sink[g].socket = t
      <4>1. CASE g = h
        BY <1>1, <3>1, <4>1, FreeTyped DEF Completed
      <4>2. CASE g # h
        BY <1>1, <3>1, <4>2 DEF Completed
      <4> QED
        BY <4>1, <4>2
    <3> QED
      BY <3>1 DEF Attached
  <2> QED
    BY <1>2, <2>1, <2>2, StreamKept DEF Mine
<1>5. WireOK(s)'
  <2>1. CASE ~conn[s].link
    <3>1. conn'[s].down = conn[s].down /\ ~conn'[s].link
      BY <1>1, <2>1 DEF Completed
    <3> QED
      BY <1>2, <3>1, StreamKept DEF Mine
  <2>2. CASE conn[s].link
    <3>1. conn[s].server /\ sink[h].pc = "log" /\ sink[h].socket = s
      <4>1. conn[s].server \in BOOLEAN
        <5>1. conn[s] \in Connection
          BY DEF Parts
        <5> QED
          BY <5>1, ConnectionTyped
      <4> QED
        BY <1>1, <2>2, <4>1 DEF EntriesInv, SocketOK, Completed
    <3>2. conn'[s].down = conn[s].down \o Reply(sink[h])
      BY <1>1, <2>2, <3>1 DEF Completed
    <3>3. PICK a : a = conn[s].down
      OBVIOUS
    <3>4. PICK b : b = Reply(sink[h])
      OBVIOUS
    <3>5. /\ b \in Seq(Message) /\ Linked(b) /\ b # <<>> /\ b[1].type = "snapshot"
          /\ EndsCurrent(b)
      BY <3>1, <3>4, ReplyLinked
    <3>6. a \in Seq(Message) /\ Linked(a) /\ WireOK(s)
      <4>1. conn[s] \in Connection
        BY DEF Parts
      <4> QED
        BY <3>3, <4>1, ConnectionTyped DEF StreamInv, WireOK
    <3>7. PICK c : c = a \o b
      OBVIOUS
    <3>8. /\ Linked(c) /\ c # <<>> /\ EndsCurrent(c) /\ Len(c) \in Nat
          /\ c[1] = IF a = <<>> THEN b[1] ELSE a[1]
      <4>1. Len(c) \in Nat
        BY <3>5, <3>6, <3>7
      <4> QED
        BY <3>5, <3>6, <3>7, <4>1, LinkedJoin
    <3>9. Linked(c)'
      BY <1>2, <3>8, LinkedKept
    <3>10. Mine(s)' => Continuing(client.end, c[1])'
      <4>1. Mine(s) => Continuing(client.end, c[1])
        BY <3>3, <3>5, <3>6, <3>8 DEF WireOK, Continuing
      <4> QED
        BY <1>2, <4>1 DEF Mine, Continuing
    <3>11. EndsCurrent(c)'
      BY <1>2, <3>8 DEF EndsCurrent, Current, Published, ExitSaid
    <3>12. conn'[s].down = c
      BY <3>2, <3>3, <3>4, <3>7
    <3> QED
      BY <3>8, <3>9, <3>10, <3>11, <3>12 DEF WireOK
  <2> QED
    BY <2>1, <2>2
<1> QED
  BY <1>3, <1>4, <1>5 DEF StreamInv, AllShown

\* A message a page hears is the next its wire has, and leaves the wire behind.
LEMMA MessageStream ==
  ASSUME TypeOK, ServiceInv, ClientInv, WiresInv, StreamInv,
         NEW s \in Sockets, NEW m \in Message, Heard(s, m),
         Ignored(s, m) \/ SnapshotApplied(s, m) \/ OutputApplied(s, m) \/ StatusApplied(s, m),
         UNCHANGED <<command, sink>>
  PROVE  StreamInv'
<1> USE TypeParts
<1> DEFINE p == Published
<1>1. PICK wire : wire = conn[s].down
  OBVIOUS
<1>2. /\ wire \in Seq(Message) /\ wire # <<>> /\ Linked(wire) /\ WireOK(s)
      /\ m = Head(wire) /\ m = wire[1] /\ MessageOK(m)
  <2>1. conn[s] \in Connection
    BY DEF Parts
  <2>2. wire \in Seq(Message) /\ wire # <<>> /\ m = Head(wire)
    BY <1>1, <2>1, ConnectionTyped DEF Heard
  <2>3. m = wire[1] /\ 1 \in 1 .. Len(wire)
    BY <2>2
  <2> QED
    BY <1>1, <2>2, <2>3 DEF WiresInv, StreamInv, WireOK
<1>3. /\ m.end \in Nat /\ m.type \in {"snapshot", "output", "status"}
      /\ m.type = "output" => Len(m.text) = 1 /\ m.status = "running" /\ m.end <= p
      /\ m.type = "status" => m.status = "exited" /\ ExitSaid
  <2>1. m.type = "output" => Len(m.text) = 1 /\ m.status = "running"
    <3> HAVE m.type = "output"
    <3>1. PICK e : e = m.end
      OBVIOUS
    <3>2. m = Output(e)
      BY <1>2, <3>1 DEF MessageOK
    <3>3. m.text = <<e>> /\ m.status = "running"
      BY <3>2, MessageFields
    <3> QED
      BY <3>3
  <2>2. m.type = "status" => m.status = "exited"
    <3> HAVE m.type = "status"
    <3>1. m = StatusMessage("exited")
      BY <1>2 DEF MessageOK
    <3> QED
      BY <3>1, MessageFields
  <2> QED
    BY <1>2, <2>1, <2>2, MessageTyped DEF MessageOK
<1>4. /\ p \in Nat /\ command.written \in Nat /\ p <= command.written
      /\ ExitSaid => p = command.written
  BY PublishedTyped
<1>5. /\ client'.socket = client.socket
      /\ client.base => client.on /\ client.end \in Nat
      /\ client.socket = s /\ client.base => Continuing(client.end, m)
      /\ client.base /\ client.status = "exited" => client.end = command.written
  BY <1>1, <1>2, Sizes DEF Heard, ClientInv, WiresInv, WireOK, Mine, StreamInv, Offsets
<1> HIDE DEF p
\* What the page knows afterwards is what the message says.
<1>6. client.socket = s /\ client'.base /\ client.on =>
         \/ m.type = "snapshot" /\ client'.end = m.end /\ client'.status = m.status
         \/ m.type = "output" /\ client'.end = m.end /\ client'.status = client.status
            /\ client.base
         \/ m.type = "status" /\ client'.end = command.written /\ client'.status = "exited"
  <2> HAVE client.socket = s /\ client'.base /\ client.on
  <2>1. CASE Ignored(s, m)
    <3>1. m.type = "output" /\ ~Continues(m) /\ client.base
      BY <2>1 DEF Ignored
    <3>2. client.end \in {m.end - 1, m.end}
      BY <1>5, <3>1 DEF Continuing
    <3>3. client.end # m.end - 1
      BY <1>3, <3>1 DEF Continues
    <3> QED
      BY <2>1, <3>1, <3>2, <3>3 DEF Ignored
  <2>2. CASE SnapshotApplied(s, m)
    BY <2>2 DEF SnapshotApplied
  <2>3. CASE OutputApplied(s, m)
    BY <2>3 DEF OutputApplied
  <2>4. CASE StatusApplied(s, m)
    BY <1>3, <1>5, <2>4 DEF StatusApplied, Continuing
  <2> QED
    BY <2>1, <2>2, <2>3, <2>4
<1>7. client.socket # s \/ ~client.on =>
         client'.base = client.base /\ client'.end = client.end
         /\ client'.status = client.status
  BY DEF Ignored, SnapshotApplied, OutputApplied, StatusApplied
<1>8. client'.base => client.on
  BY <1>5, <1>7
<1>9. AllShown'
  <2> SUFFICES ASSUME client'.base, client'.status = "exited"
               PROVE  client'.end = command.written
    BY DEF AllShown
  <2>1. CASE client.socket # s
    BY <1>5, <1>7, <2>1
  <2>2. CASE client.socket = s
    <3>1. CASE m.type = "snapshot"
      BY <1>2, <1>6, <1>8, <2>2, <3>1 DEF MessageOK
    <3>2. CASE m.type = "output"
      <4>1. /\ client'.end = m.end /\ client.status = "exited" /\ client.base
            /\ client.end \in {m.end - 1, m.end}
        BY <1>5, <1>6, <1>8, <2>2, <3>2 DEF Continuing
      <4> QED
        BY <1>3, <1>4, <1>5, <3>2, <4>1
    <3>3. CASE m.type = "status"
      BY <1>6, <1>8, <2>2, <3>3
    <3> QED
      BY <1>3, <3>1, <3>2, <3>3
  <2> QED
    BY <2>1, <2>2
<1>10. ASSUME NEW t \in Sockets \ {s} PROVE WireOK(t)'
  <2>1. conn'[t].down = conn[t].down /\ conn'[t].link = conn[t].link
    BY DEF Heard
  <2>2. Attached(t)' => Attached(t)
    BY DEF Attached
  <2>3. Mine(t)' => Mine(t) /\ client'.end = client.end /\ client'.status = client.status
    BY <1>5, <1>7 DEF Mine
  <2> QED
    BY <2>1, <2>2, <2>3, StreamKept
<1>11. WireOK(s)'
  <2>1. PICK rest : rest = Tail(wire)
    OBVIOUS
  <2>2. /\ rest \in Seq(Message) /\ Len(rest) \in Nat /\ Linked(rest)
        /\ rest # <<>> => Follows(m, rest[1]) /\ (EndsCurrent(wire) => EndsCurrent(rest))
        /\ rest = <<>> /\ EndsCurrent(wire) => m.type = "status" \/ Current(m.end, m.status)
    <3>1. rest \in Seq(Message) /\ Len(rest) \in Nat
      BY <1>2, <2>1
    <3> QED
      BY <1>2, <2>1, <3>1, LinkedTail
  <2>3. conn'[s].down = rest /\ conn'[s].link = conn[s].link /\ (Attached(s)' => Attached(s))
    BY <1>1, <2>1 DEF Heard, Attached
  <2>4. Linked(rest)'
    BY <2>2, LinkedKept
  <2>5. Mine(s)' => client.socket = s /\ client'.base /\ client.on
    BY <1>5, <1>8 DEF Mine
  <2>6. Mine(s)' /\ rest # <<>> => Continuing(client'.end, rest[1])
    BY <1>3, <1>6, <2>2, <2>5 DEF Follows, Continuing
  <2>7. Attached(s)' /\ conn'[s].link => EndsCurrent(wire)
    BY <1>1, <1>2, <2>3 DEF WireOK
  <2>8. Attached(s)' /\ conn'[s].link /\ Mine(s)' /\ rest = <<>> =>
           Current(client'.end, client'.status)
    <3> HAVE Attached(s)' /\ conn'[s].link /\ Mine(s)' /\ rest = <<>>
    <3>1. m.type = "status" \/ Current(m.end, m.status)
      BY <2>2, <2>7
    <3>2. CASE m.type = "snapshot"
      BY <1>6, <2>5, <3>1, <3>2
    <3>3. CASE m.type = "output"
      BY <1>3, <1>6, <2>5, <3>1, <3>3 DEF Current
    <3>4. CASE m.type = "status"
      <4>1. client'.end = p /\ client'.status = "exited"
        BY <1>3, <1>4, <1>6, <2>5, <3>4
      <4> QED
        BY <4>1 DEF Current, p
    <3> QED
      BY <1>3, <3>2, <3>3, <3>4
  <2>9. Mine(s)' /\ rest # <<>> => Continuing(client.end, rest[1])'
    BY <2>6 DEF Continuing
  <2>10. EndsCurrent(rest) => EndsCurrent(rest)'
    BY DEF EndsCurrent, Current, Published, ExitSaid
  <2>11. Current(client'.end, client'.status) => Current(client.end, client.status)'
    BY DEF Current, Published, ExitSaid
  <2> QED
    BY <2>2, <2>3, <2>4, <2>7, <2>8, <2>9, <2>10, <2>11 DEF WireOK
<1> QED
  BY <1>9, <1>10, <1>11 DEF StreamInv, AllShown

LEMMA StreamStep ==
  ASSUME TypeOK, ServiceInv, LogInv, EntriesInv, ClientInv, BufferInv, WiresInv, StreamInv,
         Next
  PROVE  StreamInv'
<1> USE TypeParts
<1>0. AllShown /\ client.socket \in Sockets \cup {NoSocket} /\ NoSocket \notin Sockets
  BY ClientTyped, Sizes DEF StreamInv, AllShown
<1>a. ASSUME AllShown', \A t \in Sockets : WireOK(t)' PROVE StreamInv'
  BY <1>a DEF StreamInv, AllShown
<1>b. ASSUME UNCHANGED <<command, sink, conn>>, SameClient PROVE StreamInv'
  <2>1. AllShown'
    BY <1>0, <1>b, AllShownKept DEF SameClient
  <2>2. ASSUME NEW t \in Sockets PROVE WireOK(t)'
    <3>1. /\ Attached(t)' => Attached(t)
          /\ Mine(t)' => Mine(t)
          /\ client'.end = client.end /\ client'.status = client.status
      BY <1>b DEF Attached, Mine, SameClient
    <3> QED
      BY <1>b, <3>1, StreamKept
  <2> QED
    BY <1>a, <2>1, <2>2
<1>1. CASE Quiet \/ PublishOutput \/ PublishStatus
  BY <1>1, OperationStream
<1>2. ASSUME NEW h \in Sinks, Complete(h) PROVE StreamInv'
  BY <1>2, CompleteStream
<1>3. ASSUME HandshakeOrServer, \A h \in Sinks : ~Complete(h) PROVE StreamInv'
  <2>1. UNCHANGED <<command, client>>
    BY <1>3, ServerIs
  <2>2. /\ \A t \in Sockets : /\ conn'[t].down = conn[t].down
                              /\ conn'[t].link => conn[t].link
        /\ \A g \in Sinks : sink'[g].pc = "live" =>
              sink[g].pc = "live" /\ sink'[g].socket = sink[g].socket
    <3> DEFINE Goal == /\ \A t \in Sockets : /\ conn'[t].down = conn[t].down
                                             /\ conn'[t].link => conn[t].link
                       /\ \A g \in Sinks : sink'[g].pc = "live" =>
                             sink[g].pc = "live" /\ sink'[g].socket = sink[g].socket
    <3>1. ASSUME NEW h \in Sinks, GetSession(h) \/ ReadSession(h) PROVE Goal
      <4>1. conn' = conn /\ sink'[h].pc \in {"state", "log"}
            /\ \A g \in Sinks \ {h} : sink'[g] = sink[g]
        BY <3>1, EnqueuedTyped, GetSessionEffect, ReadSessionEffect DEF OperationTypes
      <4> QED
        BY <4>1
    <3>2. ASSUME NEW s \in Sockets, HandleSubscribe(s) PROVE Goal
      <4>1. /\ \A t \in Sockets \ {s} : conn'[t] = conn[t]
            /\ conn'[s].down = conn[s].down /\ conn'[s].link = conn[s].link
        BY <3>2, HandleSubscribeEffect
      <4>2. PICK h \in Sinks : /\ sink'[h].pc = "session"
                               /\ \A g \in Sinks \ {h} : sink'[g] = WithoutSub(s)[g]
        BY <3>2, HandleSubscribeEffect
      <4>3. \A g \in Sinks : WithoutSub(s)[g] = IF g = conn[s].sub THEN FreeSink ELSE sink[g]
        BY WithoutSubIs
      <4> QED
        BY <4>1, <4>2, <4>3, FreeTyped
    <3>3. ASSUME NEW s \in Sockets, HandleUnsubscribe(s) PROVE Goal
      <4>1. /\ \A t \in Sockets \ {s} : conn'[t] = conn[t]
            /\ conn'[s].down = conn[s].down /\ conn'[s].link = conn[s].link
            /\ sink' = WithoutSub(s)
        BY <3>3, HandleUnsubscribeEffect
      <4>2. \A g \in Sinks : WithoutSub(s)[g] = IF g = conn[s].sub THEN FreeSink ELSE sink[g]
        BY WithoutSubIs
      <4> QED
        BY <4>1, <4>2, FreeTyped
    <3>4. ASSUME NEW s \in Sockets, CleanupSocket(s) PROVE Goal
      <4>1. /\ \A t \in Sockets \ {s} : conn'[t] = conn[t]
            /\ conn'[s].down = conn[s].down /\ ~conn'[s].link
            /\ \A g \in Sinks :
                  /\ g = conn[s].sub => sink'[g].pc = "none"
                  /\ g # conn[s].sub =>
                        sink'[g].pc = sink[g].pc /\ sink'[g].socket = sink[g].socket
        BY <3>4, CleanupSocketEffect
      <4> QED
        BY <4>1
    <3> HIDE DEF Goal
    <3>5. Goal
      BY <1>3, <3>1, <3>2, <3>3, <3>4, Zenon DEF HandshakeOrServer, Handshake, Server
    <3> QED
      BY <3>5 DEF Goal
  <2>3. \A t \in Sockets : Attached(t)' => Attached(t)
    BY <2>2, AttachedKept
  <2>4. ASSUME NEW t \in Sockets PROVE WireOK(t)'
    BY <2>1, <2>2, <2>3, StreamKept DEF Mine
  <2> QED
    BY <1>0, <1>a, <2>1, <2>4, AllShownKept
<1>4. ASSUME NEW s \in Sockets, OnMessage(s) PROVE StreamInv'
  BY <1>4, OnMessageEffect, MessageStream
<1>5. CASE Timers \/ Connect
  <2>1. CASE ReconnectTimer \/ SnapshotTimer
    BY <1>b, <2>1, TimersEffect
  <2>2. CASE Connect \/ ReconnectOpen
    <3>1. /\ UNCHANGED <<command, sink>>
          /\ (SameClient /\ conn' = conn) \/ \E s \in Sockets : Opened(s)
      BY <2>2, OpensIs
    <3>2. ASSUME NEW s \in Sockets, Opened(s) PROVE StreamInv'
      <4>1. AllShown'
        BY <1>0, <3>1, <3>2, AllShownKept DEF Opened
      <4>2. ASSUME NEW t \in Sockets \ {s} PROVE WireOK(t)'
        <5>1. conn'[t] = conn[t] /\ (Attached(t)' => Attached(t)) /\ ~Mine(t)'
          BY <3>1, <3>2 DEF Opened, Attached, Mine
        <5> QED
          BY <3>1, <5>1, StreamKept
      <4>3. WireOK(s)'
        <5>1. conn'[s].down = <<>> /\ ~Attached(s)'
          BY <3>1, <3>2 DEF Opened, Attached, FreeSocket
        <5> QED
          BY <5>1, WireEmpty
      <4> QED
        BY <1>a, <4>1, <4>2, <4>3
    <3> QED
      BY <1>b, <3>1, <3>2
  <2> QED
    BY <1>5, <2>1, <2>2 DEF Timers
<1>6. CASE Subscribe \/ Unsubscribe
  <2>1. PICK m \in {"subscribe", "unsubscribe"} :
              conn' = Upward(conn, m) /\ UNCHANGED <<command, sink>> /\ client'.base = FALSE
    BY <1>6, SubscribeEffect, UnsubscribeEffect
  <2>2. ASSUME NEW t \in Sockets PROVE WireOK(t)'
    <3>1. conn'[t].down = conn[t].down /\ conn'[t].link = conn[t].link
      BY <2>1, UpwardIs DEF Parts
    <3>2. (Attached(t)' => Attached(t)) /\ ~Mine(t)'
      BY <2>1 DEF Attached, Mine
    <3> QED
      BY <2>1, <3>1, <3>2, StreamKept
  <2> QED
    BY <1>0, <1>a, <2>1, <2>2, AllShownKept
<1>7. CASE Dispose
  <2>1. /\ UNCHANGED <<command, sink>> /\ client'.base = FALSE
        /\ \A t \in Sockets : IF t = client.socket THEN Unlinked(t) ELSE conn'[t] = conn[t]
    BY <1>7, DisposeEffect
  <2>2. ASSUME NEW t \in Sockets PROVE WireOK(t)'
    <3>1. (Attached(t)' => Attached(t)) /\ ~Mine(t)'
      BY <2>1 DEF Attached, Mine
    <3>2. CASE t = client.socket
      BY <2>1, <3>2, WireEmpty DEF Unlinked
    <3>3. CASE t # client.socket
      BY <2>1, <3>1, <3>3, StreamKept
    <3> QED
      BY <3>2, <3>3
  <2> QED
    BY <1>0, <1>a, <2>1, <2>2, AllShownKept
<1>8. ASSUME NEW s \in Sockets, Drop(s) PROVE StreamInv'
  <2>1. /\ UNCHANGED <<command, sink, client>> /\ Unlinked(s)
        /\ \A t \in Sockets \ {s} : conn'[t] = conn[t]
    BY <1>8, DropEffect
  <2>2. ASSUME NEW t \in Sockets PROVE WireOK(t)'
    <3>1. (Attached(t)' => Attached(t)) /\ (Mine(t)' => Mine(t))
      BY <2>1 DEF Attached, Mine
    <3>2. CASE t = s
      BY <2>1, <3>2, WireEmpty DEF Unlinked
    <3>3. CASE t # s
      BY <2>1, <3>1, <3>3, StreamKept
    <3> QED
      BY <3>2, <3>3
  <2> QED
    BY <1>0, <1>a, <2>1, <2>2, AllShownKept
<1>9. ASSUME NEW s \in Sockets, OnOpen(s) \/ OnClose(s) PROVE StreamInv'
  <2>1. UNCHANGED <<command, sink>>
    BY <1>9, Zenon DEF OnOpen, OnClose
  <2>2. /\ \A t \in Sockets \ {s} : conn'[t] = conn[t]
        /\ conn'[s].down = conn[s].down /\ conn'[s].link = conn[s].link
        /\ \/ client'.base = FALSE
           \/ /\ client'.socket = client.socket
              /\ client'.base = client.base /\ client'.end = client.end
              /\ client'.status = client.status
    BY <1>9, OnOpenEffect, OnCloseEffect DEF SameClient
  <2>3. ASSUME NEW t \in Sockets PROVE WireOK(t)'
    <3>1. conn'[t].down = conn[t].down /\ conn'[t].link = conn[t].link
      BY <2>2
    <3>2. Attached(t)' => Attached(t)
      BY <2>1 DEF Attached
    <3>3. Mine(t)' => /\ Mine(t) /\ client'.end = client.end
                      /\ client'.status = client.status
      BY <2>2 DEF Mine
    <3> QED
      BY <2>1, <3>1, <3>2, <3>3, StreamKept
  <2> QED
    BY <1>0, <1>a, <2>1, <2>2, <2>3, AllShownKept
<1>10. CASE Poll
  BY <1>10, <1>b, PollIs DEF SameClient
<1> QED
  BY <1>1, <1>2, <1>3, <1>4, <1>5, <1>6, <1>7, <1>8, <1>9, <1>10, Zenon
     DEF Next, Service, HandshakeOrServer, Browser, User, Quiet

-----------------------------------------------------------------------------
(***************************************************************************)
(* Every step keeps a subscribed page's answer on its way.                  *)
(***************************************************************************)

HasSnapshot(wire) == \E i \in 1 .. Len(wire) : wire[i].type = "snapshot"

LEMMA ComingIs ==
  ASSUME NEW s \in Sockets
  PROVE  Coming(s) <=> \/ \E h \in Sinks : sink[h].pc \in Pending /\ sink[h].socket = s
                       \/ HasSnapshot(conn[s].down)
BY DEF Coming, HasSnapshot

LEMMA SnapshotKept ==
  ASSUME NEW a \in Seq(Message)
  PROVE  /\ \A m \in Message : HasSnapshot(a) => HasSnapshot(Append(a, m))
         /\ \A b \in Seq(Message) :
               b # <<>> /\ b[1].type = "snapshot" => HasSnapshot(a \o b)
         /\ HasSnapshot(a) => a # <<>> /\ (Head(a).type = "snapshot" \/ HasSnapshot(Tail(a)))
<1>1. ASSUME NEW m \in Message, HasSnapshot(a) PROVE HasSnapshot(Append(a, m))
  <2>1. PICK i \in 1 .. Len(a) : a[i].type = "snapshot"
    BY <1>1 DEF HasSnapshot
  <2>2. i \in 1 .. Len(Append(a, m)) /\ Append(a, m)[i] = a[i]
    OBVIOUS
  <2> QED
    BY <2>1, <2>2 DEF HasSnapshot
<1>2. ASSUME NEW b \in Seq(Message), b # <<>>, b[1].type = "snapshot"
      PROVE  HasSnapshot(a \o b)
  <2>1. Len(b) >= 1 /\ Len(b) \in Nat /\ Len(a) \in Nat
    BY <1>2, EmptySeq
  <2>2. Len(a) + 1 \in 1 .. Len(a \o b) /\ (a \o b)[Len(a) + 1] = b[(Len(a) + 1) - Len(a)]
    BY <2>1
  <2>3. (Len(a) + 1) - Len(a) = 1
    BY <2>1
  <2> QED
    BY <1>2, <2>2, <2>3 DEF HasSnapshot
<1>3. ASSUME HasSnapshot(a)
      PROVE  a # <<>> /\ (Head(a).type = "snapshot" \/ HasSnapshot(Tail(a)))
  <2>1. PICK i \in 1 .. Len(a) : a[i].type = "snapshot"
    BY <1>3 DEF HasSnapshot
  <2>2. Len(a) \in Nat /\ Len(a) >= 1
    OBVIOUS
  <2>3. a # <<>>
    BY <2>2
  <2>4. /\ Head(a) = a[1] /\ Len(Tail(a)) = Len(a) - 1
        /\ \A j \in 1 .. Len(Tail(a)) : Tail(a)[j] = a[j + 1]
    BY <2>3
  <2>5. CASE i = 1
    BY <2>1, <2>3, <2>4, <2>5
  <2>6. CASE i # 1
    <3>1. i - 1 \in 1 .. Len(Tail(a)) /\ (i - 1) + 1 = i
      BY <2>2, <2>4, <2>6
    <3>2. Tail(a)[i - 1] = a[i]
      BY <2>4, <3>1
    <3> QED
      BY <2>1, <2>3, <3>1, <3>2 DEF HasSnapshot
  <2> QED
    BY <2>5, <2>6
<1> QED
  BY <1>1, <1>2, <1>3

\* What the answer rests on, when it moves at all, is still there.
LEMMA AnswerKept ==
  ASSUME AnswerInv, NEW t \in Sockets, Awaits(t)' => Awaits(t),
         conn'[t].up = conn[t].up, conn'[t].sub = conn[t].sub,
         conn'[t].handshake = conn[t].handshake,
         client'.base = client.base \/ client'.base = TRUE,
         \A h \in Sinks : sink[h].pc \in Pending /\ sink[h].socket = t =>
             /\ sink'[h].pc \in Pending /\ sink'[h].socket = t
             /\ sink'[h].generation = sink[h].generation,
         HasSnapshot(conn[t].down) => HasSnapshot(conn'[t].down) \/ client'.base = TRUE
  PROVE  Awaits(t)' => Answered(t)'
<1> SUFFICES ASSUME Awaits(t)' PROVE Answered(t)'
  OBVIOUS
<1>1. Answered(t)
  BY DEF AnswerInv
<1>2. CASE Asking(t)
  BY <1>2 DEF Answered, Asking
<1>3. CASE ~Asking(t)
  <2>1. Joining(t) => Joining(t)'
    BY DEF Joining
  <2>2. ~client'.base => Coming(t)'
    BY <1>1, <1>3 DEF Answered, Coming, HasSnapshot
  <2> QED
    BY <1>1, <1>3, <2>1, <2>2 DEF Answered
<1> QED
  BY <1>2, <1>3

LEMMA AskingNow ==
  ASSUME NEW t \in Sockets, NEW up \in Seq({"subscribe", "unsubscribe"}),
         conn'[t].up = Append(up, "subscribe")
  PROVE  Answered(t)'
<1> DEFINE c == Append(up, "subscribe")
<1>1. Len(c) = Len(up) + 1 /\ Len(up) \in Nat /\ c[Len(up) + 1] = "subscribe"
  OBVIOUS
<1>2. c # <<>> /\ c[Len(c)] = "subscribe"
  <2> HIDE DEF c
  <2>1. Len(<<>>) = 0
    OBVIOUS
  <2> QED
    BY <1>1, <2>1
<1> QED
  BY <1>2 DEF Answered, Asking, c

LEMMA LastWord ==
  ASSUME NEW up \in Seq({"subscribe", "unsubscribe"}), up # <<>>,
         up[Len(up)] = "subscribe"
  PROVE  \/ Tail(up) = <<>> /\ Head(up) = "subscribe"
         \/ Tail(up) # <<>> /\ Tail(up)[Len(Tail(up))] = "subscribe"
<1>1. /\ Len(up) \in Nat /\ Len(up) >= 1 /\ Head(up) = up[1] /\ Len(Tail(up)) = Len(up) - 1
      /\ \A i \in 1 .. Len(Tail(up)) : Tail(up)[i] = up[i + 1]
  OBVIOUS
<1>2. PICK rest : rest = Tail(up)
  OBVIOUS
<1>3. rest \in Seq({"subscribe", "unsubscribe"})
  BY <1>2
<1>4. CASE rest = <<>>
  <2>1. Len(rest) = 0
    BY <1>4
  <2>2. Len(up) = 1
    BY <1>1, <1>2, <2>1
  <2> QED
    BY <1>1, <1>2, <1>4, <2>2
<1>5. CASE rest # <<>>
  <2>1. Len(rest) \in Nat /\ Len(rest) >= 1
    BY <1>3, <1>5
  <2>2. Len(rest) \in 1 .. Len(Tail(up)) /\ Len(rest) + 1 = Len(up)
    BY <1>1, <1>2, <2>1
  <2> QED
    BY <1>1, <1>2, <1>5, <2>2
<1> QED
  BY <1>4, <1>5

LEMMA ServerAnswer ==
  ASSUME TypeOK, ServiceInv, LogInv, EntriesInv, BufferInv, AnswerInv,
         NEW s \in Sockets, Server(s), UNCHANGED client
  PROVE  AnswerInv'
<1> USE TypeParts
<1> SUFFICES ASSUME NEW t \in Sockets PROVE Awaits(t)' => Answered(t)'
  BY DEF AnswerInv
<1>1. conn[t] \in Connection /\ conn[t].up \in Seq({"subscribe", "unsubscribe"})
  <2>1. conn[t] \in Connection
    BY DEF Parts
  <2> QED
    BY <2>1, ConnectionTyped
<1>2. CASE HandleSubscribe(s)
  <2>1. /\ \A u \in Sockets \ {s} : conn'[u] = conn[u]
        /\ conn'[s].link = conn[s].link /\ conn[s].up # <<>>
        /\ Head(conn[s].up) = "subscribe" /\ conn'[s].up = Tail(conn[s].up)
        /\ conn'[s].handshake = conn[s].handshake + 1
    BY <1>2, HandleSubscribeEffect
  <2>2. PICK h \in Sinks :
               /\ WithoutSub(s)[h].pc = "none"
               /\ sink'[h].pc = "session" /\ sink'[h].socket = s
               /\ sink'[h].generation = conn[s].handshake + 1
               /\ \A g \in Sinks \ {h} : sink'[g] = WithoutSub(s)[g]
    BY <1>2, HandleSubscribeEffect
  <2>3. \A g \in Sinks : sink[g].pc \in Pending => g # h /\ sink'[g] = sink[g]
    BY <2>2, WithoutSubIs DEF Pending
  <2>4. CASE t = s
    <3> SUFFICES ASSUME Awaits(s)' PROVE Answered(s)'
      BY <2>4
    <3>1. Asking(s)
      BY <2>1 DEF AnswerInv, Awaits, Answered
    <3>2. \/ Tail(conn[s].up) = <<>>
          \/ Tail(conn[s].up) # <<>> /\ Tail(conn[s].up)[Len(Tail(conn[s].up))] = "subscribe"
      BY <1>1, <2>1, <2>4, <3>1, LastWord DEF Asking
    <3>3. Joining(s)' /\ Coming(s)'
      BY <2>1, <2>2 DEF Joining, Coming, Pending
    <3> QED
      BY <2>1, <3>2, <3>3 DEF Answered, Asking
  <2>5. CASE t # s
    <3>1. conn'[t] = conn[t]
      BY <2>1, <2>5
    <3> QED
      BY <2>3, <3>1, AnswerKept DEF Awaits
  <2> QED
    BY <2>4, <2>5
<1>3. CASE HandleUnsubscribe(s)
  <2>1. /\ \A u \in Sockets \ {s} : conn'[u] = conn[u]
        /\ conn'[s].link = conn[s].link /\ conn[s].up # <<>>
        /\ Head(conn[s].up) = "unsubscribe" /\ conn'[s].up = Tail(conn[s].up)
        /\ sink' = WithoutSub(s)
    BY <1>3, HandleUnsubscribeEffect
  <2>2. \A g \in Sinks : sink[g].pc \in Pending => sink'[g] = sink[g]
    BY <2>1, WithoutSubIs
  <2>3. CASE t = s
    <3> SUFFICES ASSUME Awaits(s)' PROVE Answered(s)'
      BY <2>3
    <3>1. Asking(s)
      BY <2>1 DEF AnswerInv, Awaits, Answered
    <3>2. Tail(conn[s].up) # <<>> /\ Tail(conn[s].up)[Len(Tail(conn[s].up))] = "subscribe"
      BY <1>1, <2>1, <2>3, <3>1, LastWord DEF Asking
    <3> QED
      BY <2>1, <3>2 DEF Answered, Asking
  <2>4. CASE t # s
    <3>1. conn'[t] = conn[t]
      BY <2>1, <2>4
    <3> QED
      BY <2>2, <3>1, AnswerKept DEF Awaits
  <2> QED
    BY <2>3, <2>4
<1>4. CASE CleanupSocket(s)
  <2>1. /\ \A u \in Sockets \ {s} : conn'[u] = conn[u]
        /\ ~conn'[s].link
        /\ \A g \in Sinks : sink[g].pc \in Pending =>
              /\ sink'[g].pc = sink[g].pc /\ sink'[g].socket = sink[g].socket
              /\ sink'[g].generation = sink[g].generation
    BY <1>4, CleanupSocketEffect
  <2>2. CASE t = s
    BY <2>1, <2>2 DEF Awaits
  <2>3. CASE t # s
    <3>1. conn'[t] = conn[t]
      BY <2>1, <2>3
    <3> QED
      BY <2>1, <3>1, AnswerKept DEF Awaits
  <2> QED
    BY <2>2, <2>3
<1> QED
  BY <1>2, <1>3, <1>4 DEF Server

LEMMA HandshakeAnswer ==
  ASSUME TypeOK, ServiceInv, LogInv, EntriesInv, BufferInv, AnswerInv,
         NEW h \in Sinks, Handshake(h), UNCHANGED client
  PROVE  AnswerInv'
<1> USE TypeParts
<1> SUFFICES ASSUME NEW t \in Sockets PROVE Awaits(t)' => Answered(t)'
  BY DEF AnswerInv
<1>1. CASE GetSession(h) \/ ReadSession(h)
  <2>1. /\ conn' = conn
        /\ \A g \in Sinks \ {h} : sink'[g] = sink[g]
        /\ sink'[h].pc \in {"state", "log"} /\ sink'[h].socket = sink[h].socket
        /\ sink'[h].generation = sink[h].generation
    BY <1>1, EnqueuedTyped, GetSessionEffect, ReadSessionEffect DEF OperationTypes
  <2>2. \A g \in Sinks : sink[g].pc \in Pending /\ sink[g].socket = t =>
             /\ sink'[g].pc \in Pending /\ sink'[g].socket = t
             /\ sink'[g].generation = sink[g].generation
    BY <2>1 DEF Pending
  <2> QED
    BY <2>1, <2>2, AnswerKept DEF Awaits
<1>2. CASE Complete(h)
  <2>1. PICK s \in Sockets : Completed(h, s)
    BY <1>2, CompleteEffect
  <2>2. CASE t # s
    <3>1. conn'[t] = conn[t]
      BY <2>1, <2>2 DEF Completed
    <3>2. \A g \in Sinks : sink[g].pc \in Pending /\ sink[g].socket = t => sink'[g] = sink[g]
      BY <2>1, <2>2 DEF Completed
    <3> QED
      BY <3>1, <3>2, AnswerKept DEF Awaits
  <2>3. CASE t = s
    <3> SUFFICES ASSUME Awaits(s)' PROVE Answered(s)'
      BY <2>3
    <3>1. conn[s].link /\ conn'[s].up = conn[s].up /\ Awaits(s)
      BY <2>1 DEF Completed, Awaits
    <3>2. conn[s].server /\ sink[h].pc = "log" /\ sink[h].socket = s
      <4>1. conn[s].server \in BOOLEAN
        <5>1. conn[s] \in Connection
          BY DEF Parts
        <5> QED
          BY <5>1, ConnectionTyped
      <4> QED
        BY <2>1, <3>1, <4>1 DEF EntriesInv, SocketOK, Completed
    <3>3. HasSnapshot(conn'[s].down)
      <4>1. conn'[s].down = conn[s].down \o Reply(sink[h])
        BY <2>1, <3>1, <3>2 DEF Completed
      <4>2. /\ Reply(sink[h]) \in Seq(Message) /\ Reply(sink[h]) # <<>>
            /\ Reply(sink[h])[1].type = "snapshot"
        BY <3>2, ReplyLinked
      <4>3. conn[s].down \in Seq(Message)
        <5>1. conn[s] \in Connection
          BY DEF Parts
        <5> QED
          BY <5>1, ConnectionTyped
      <4> QED
        BY <4>1, <4>2, <4>3, SnapshotKept
    <3>4. Coming(s)'
      BY <3>3 DEF Coming, HasSnapshot
    <3>5. Answered(s)
      BY <3>1 DEF AnswerInv
    <3>6. CASE Asking(s)
      BY <3>1, <3>6 DEF Asking, Answered
    <3>7. CASE ~Asking(s)
      <4>1. conn[s].up = <<>> /\ (conn[s].sub # NoSink \/ Joining(s))
        BY <3>5, <3>7 DEF Answered
      <4>2. conn'[s].sub # NoSink \/ Joining(s)'
        <5>1. CASE conn[s].handshake = sink[h].generation
          <6>1. conn'[s].sub = h \/ (conn[s].handshake # sink[h].generation)
            BY <2>1 DEF Completed
          <6> QED
            BY <5>1, <6>1, Sizes
        <5>2. CASE conn[s].handshake # sink[h].generation
          <6>1. /\ conn'[s].handshake = conn[s].handshake /\ conn'[s].sub = conn[s].sub
                /\ \A g \in Sinks \ {h} : sink'[g] = sink[g]
            BY <2>1, <5>2 DEF Completed
          <6> QED
            BY <4>1, <5>2, <6>1 DEF Joining
        <5> QED
          BY <5>1, <5>2
      <4> QED
        BY <3>1, <3>4, <4>1, <4>2 DEF Answered
    <3> QED
      BY <3>6, <3>7
  <2> QED
    BY <2>2, <2>3
<1> QED
  BY <1>1, <1>2 DEF Handshake

LEMMA MessageAnswer ==
  ASSUME TypeOK, ClientInv, AnswerInv, NEW s \in Sockets, NEW m \in Message, Heard(s, m),
         Ignored(s, m) \/ SnapshotApplied(s, m) \/ OutputApplied(s, m) \/ StatusApplied(s, m),
         UNCHANGED sink
  PROVE  AnswerInv'
<1> USE TypeParts
<1> SUFFICES ASSUME NEW t \in Sockets PROVE Awaits(t)' => Answered(t)'
  BY DEF AnswerInv
<1>1. /\ conn[t].up \in Seq({"subscribe", "unsubscribe"}) /\ conn[t].down \in Seq(Message)
      /\ client.base \in BOOLEAN
  <2>1. conn[t] \in Connection
    BY DEF Parts
  <2> QED
    BY <2>1, ConnectionTyped, ClientTyped
<1>2. /\ conn'[t].sub = conn[t].sub /\ conn'[t].handshake = conn[t].handshake
      /\ conn'[t].up = conn[t].up \/ conn'[t].up = Append(conn[t].up, "subscribe")
      /\ conn'[t].link = conn[t].link
      /\ conn'[t].down = (IF t = s THEN Tail(conn[t].down) ELSE conn[t].down)
      /\ client'.socket = client.socket /\ client'.state = client.state
      /\ client'.on = client.on
  BY DEF Heard
<1>3. client'.base = client.base \/ client'.base = TRUE
  BY DEF Ignored, SnapshotApplied, OutputApplied, StatusApplied
<1>4. CASE conn'[t].up = Append(conn[t].up, "subscribe")
  BY <1>1, <1>4, AskingNow
<1>5. CASE conn'[t].up = conn[t].up
  <2> SUFFICES ASSUME Awaits(t)' PROVE Answered(t)'
    OBVIOUS
  <2>1. client.socket = t /\ client.on /\ Awaits(t)
    BY <1>2 DEF Awaits
  <2>2. HasSnapshot(conn[t].down) => HasSnapshot(conn'[t].down) \/ client'.base = TRUE
    <3>1. CASE t # s
      BY <1>2, <3>1
    <3>2. CASE t = s
      <4> HAVE HasSnapshot(conn[t].down)
      <4>1. Head(conn[t].down).type = "snapshot" \/ HasSnapshot(Tail(conn[t].down))
        BY <1>1, SnapshotKept
      <4>2. m = Head(conn[t].down)
        BY <3>2 DEF Heard
      <4>3. m.type = "snapshot" => client'.base = TRUE
        BY <2>1, <3>2 DEF Ignored, SnapshotApplied, OutputApplied, StatusApplied
      <4> QED
        BY <1>2, <3>2, <4>1, <4>2, <4>3
    <3> QED
      BY <3>1, <3>2
  <2> QED
    BY <1>2, <1>3, <1>5, <2>1, <2>2, AnswerKept
<1> QED
  BY <1>2, <1>4, <1>5

LEMMA AnswerStep ==
  ASSUME TypeOK, ServiceInv, LogInv, EntriesInv, ClientInv, BufferInv, AnswerInv, Next
  PROVE  AnswerInv'
<1> USE TypeParts
<1>0. \A t \in Sockets : /\ conn[t].up \in Seq({"subscribe", "unsubscribe"})
                         /\ conn[t].down \in Seq(Message)
  BY ConnectionTyped DEF Parts
<1>a. ASSUME UNCHANGED <<sink, conn>>, SameClient PROVE AnswerInv'
  BY <1>a, AnswerKept DEF AnswerInv, Awaits, SameClient
<1>1. CASE Quiet
  BY <1>1, <1>a, QuietIs DEF SameClient
<1>2. CASE PublishOutput \/ PublishStatus
  <2>1. client' = client
    BY <1>2, PublishingIs
  <2>2. PICK m \in Message : Publish(m)
    BY <1>2, PublishingIs
  <2>3. ASSUME NEW t \in Sockets PROVE Awaits(t)' => Answered(t)'
    <3>1. /\ conn'[t].up = conn[t].up /\ conn'[t].sub = conn[t].sub
          /\ conn'[t].handshake = conn[t].handshake /\ conn'[t].link = conn[t].link
          /\ conn'[t].down = conn[t].down \/ conn'[t].down = Append(conn[t].down, m)
          /\ \A h \in Sinks : /\ sink'[h].pc = sink[h].pc /\ sink'[h].socket = sink[h].socket
                              /\ sink'[h].generation = sink[h].generation
      BY <2>2, PublishEffect
    <3>2. HasSnapshot(conn[t].down) => HasSnapshot(conn'[t].down)
      BY <1>0, <3>1, SnapshotKept
    <3> QED
      BY <2>1, <3>1, <3>2, AnswerKept DEF Awaits
  <2> QED
    BY <2>3 DEF AnswerInv
<1>3. CASE HandshakeOrServer
  <2>1. UNCHANGED client
    BY <1>3, ServerIs
  <2> QED
    BY <1>3, <2>1, ServerAnswer, HandshakeAnswer DEF HandshakeOrServer
<1>4. ASSUME NEW s \in Sockets, OnMessage(s) PROVE AnswerInv'
  BY <1>4, OnMessageEffect, MessageAnswer
<1>5. CASE Timers \/ Connect
  <2>1. CASE ReconnectTimer \/ SnapshotTimer
    BY <1>a, <2>1, TimersEffect
  <2>2. CASE Connect \/ ReconnectOpen
    <3>1. /\ UNCHANGED sink
          /\ (SameClient /\ conn' = conn) \/ \E s \in Sockets : Opened(s)
      BY <2>2, OpensIs
    <3>2. ASSUME NEW s \in Sockets, Opened(s) PROVE AnswerInv'
      BY <3>2 DEF Opened, AnswerInv, Awaits
    <3> QED
      BY <1>a, <3>1, <3>2
  <2> QED
    BY <1>5, <2>1, <2>2 DEF Timers
<1>6. CASE Subscribe
  <2>1. /\ conn' = Upward(conn, "subscribe") /\ client'.socket = client.socket
        /\ client'.state = client.state
    BY <1>6, SubscribeEffect
  <2>2. ASSUME NEW t \in Sockets PROVE Awaits(t)' => Answered(t)'
    <3> SUFFICES ASSUME Awaits(t)' PROVE Answered(t)'
      OBVIOUS
    <3>1. conn'[t].link = conn[t].link
      BY <2>1, UpwardIs DEF Parts
    <3>2. t = client.socket /\ client.state = "connected" /\ conn[t].link
      BY <2>1, <3>1 DEF Awaits
    <3>3. conn'[t].up = Append(conn[t].up, "subscribe")
      BY <2>1, <3>2, UpwardIs DEF Parts
    <3> QED
      BY <1>0, <3>3, AskingNow
  <2> QED
    BY <2>2 DEF AnswerInv
<1>7. CASE Unsubscribe \/ Dispose
  <2>1. client'.on = FALSE
    BY <1>7, UnsubscribeEffect, DisposeEffect
  <2> QED
    BY <2>1 DEF AnswerInv, Awaits
<1>8. ASSUME NEW s \in Sockets, Drop(s) PROVE AnswerInv'
  <2>1. /\ UNCHANGED <<sink, client>> /\ Unlinked(s)
        /\ \A t \in Sockets \ {s} : conn'[t] = conn[t]
    BY <1>8, DropEffect
  <2>2. ASSUME NEW t \in Sockets PROVE Awaits(t)' => Answered(t)'
    <3>1. CASE t = s
      BY <2>1, <3>1 DEF Awaits, Unlinked
    <3>2. CASE t # s
      <4>1. conn'[t] = conn[t]
        BY <2>1, <3>2
      <4> QED
        BY <2>1, <4>1, AnswerKept DEF Awaits
    <3> QED
      BY <3>1, <3>2
  <2> QED
    BY <2>2 DEF AnswerInv
<1>9. ASSUME NEW s \in Sockets, OnOpen(s) PROVE AnswerInv'
  <2>1. UNCHANGED sink
    BY <1>9 DEF OnOpen
  <2>2. /\ \A t \in Sockets \ {s} : conn'[t] = conn[t]
        /\ client.socket # s => SameClient
        /\ client.socket = s =>
              /\ client'.socket = s /\ client'.on = client.on
              /\ client.on => conn'[s].up = <<"subscribe">>
    BY <1>9, OnOpenEffect
  <2>3. ASSUME NEW t \in Sockets PROVE Awaits(t)' => Answered(t)'
    <3> SUFFICES ASSUME Awaits(t)' PROVE Answered(t)'
      OBVIOUS
    <3>1. CASE client.socket = s
      <4>1. t = s /\ conn'[s].up = <<"subscribe">>
        BY <2>2, <3>1 DEF Awaits
      <4>2. <<>> \in Seq({"subscribe", "unsubscribe"}) /\ Append(<<>>, "subscribe") = <<"subscribe">>
        OBVIOUS
      <4>3. conn'[s].up = Append(<<>>, "subscribe")
        BY <4>1, <4>2, Zenon
      <4> QED
        BY <4>1, <4>2, <4>3, AskingNow
    <3>2. CASE client.socket # s
      <4>1. SameClient /\ t # s /\ conn'[t] = conn[t]
        BY <2>2, <3>2 DEF Awaits, SameClient
      <4> QED
        BY <2>1, <4>1, AnswerKept DEF Awaits, SameClient
    <3> QED
      BY <3>1, <3>2
  <2> QED
    BY <2>3 DEF AnswerInv
<1>10. ASSUME NEW s \in Sockets, OnClose(s) PROVE AnswerInv'
  <2>1. UNCHANGED sink
    BY <1>10 DEF OnClose
  <2>2. /\ \A t \in Sockets \ {s} : conn'[t] = conn[t]
        /\ client.socket # s => client' = client
        /\ client.socket = s => client'.socket = NoSocket
    BY <1>10, OnCloseEffect
  <2>3. ASSUME NEW t \in Sockets PROVE Awaits(t)' => Answered(t)'
    <3> SUFFICES ASSUME Awaits(t)' PROVE Answered(t)'
      OBVIOUS
    <3>1. client' = client /\ t # s /\ conn'[t] = conn[t]
      BY <2>2, Sizes DEF Awaits
    <3> QED
      BY <2>1, <3>1, AnswerKept DEF Awaits
  <2> QED
    BY <2>3 DEF AnswerInv
<1>11. CASE Poll
  BY <1>11, <1>a, PollIs DEF SameClient
<1> QED
  BY <1>1, <1>2, <1>3, <1>4, <1>5, <1>6, <1>7, <1>8, <1>9, <1>10, <1>11, Zenon
     DEF Next, Service, HandshakeOrServer, Browser, User, Quiet

-----------------------------------------------------------------------------
(***************************************************************************)
(* The invariant, and what the runs check of it for every instance.        *)
(***************************************************************************)

LEMMA InitStreams == Init => TypeOK /\ StreamsInv
<1> SUFFICES ASSUME Init PROVE TypeOK /\ StreamsInv
  OBVIOUS
<1> USE Sizes
<1>1. /\ command = [written |-> 0, ended |-> FALSE, op |-> "idle", done |-> 0]
      /\ file = [from |-> 0, to |-> 0]
      /\ record = [bytes |-> 0, kept |-> 0, status |-> "running"]
      /\ poll = NoPoll
  BY DEF Init
<1>2. /\ \A h \in Sinks : sink[h] = FreeSink
      /\ \A s \in Sockets : conn[s] = FreeSocket
      /\ client = NotSubscribed /\ screen = NoScreen
  BY DEF Init
<1>3. /\ command.written = 0 /\ command.ended = FALSE /\ command.op = "idle"
      /\ command.done = 0 /\ file.from = 0 /\ file.to = 0
      /\ record.bytes = 0 /\ record.kept = 0 /\ record.status = "running"
      /\ poll.bytes = 0 /\ poll.kept = 0 /\ poll.pc = "none"
  BY <1>1 DEF NoPoll
<1>4. /\ \A h \in Sinks : sink[h].pc = "none" /\ sink[h].socket = NoSocket
      /\ \A s \in Sockets : /\ conn[s].link = FALSE /\ conn[s].server = FALSE
                            /\ conn[s].browser = "none" /\ conn[s].handshake = 0
                            /\ conn[s].sub = NoSink
                            /\ conn[s].up = <<>> /\ conn[s].down = <<>>
      /\ client.socket = NoSocket /\ client.state = "disconnected" /\ client.on = FALSE
      /\ client.base = FALSE /\ client.status = "running"
      /\ screen.end = None
  BY <1>2 DEF FreeSink, FreeSocket, NotSubscribed, NoScreen
<1>5. TypeOK
  <2>1. command \in CommandState /\ file \in FileState /\ record \in RecordState
    BY <1>1 DEF CommandState, FileState, RecordState, Offsets, Statuses
  <2>2. sink \in [Sinks -> Entry] /\ conn \in [Sockets -> Connection]
    BY FreeTyped DEF Init
  <2>3. client \in ClientState
    BY <1>2 DEF NotSubscribed, ClientState, Offsets, Statuses
  <2>4. screen \in ScreenState /\ poll \in PollRead
    BY <1>1, <1>2, NoScreenTyped
  <2>5. moves \in 0 .. MaxMoves
    BY DEF Init
  <2> QED
    BY <2>1, <2>2, <2>3, <2>4, <2>5 DEF TypeOK
<1>6. ~ExitSaid /\ Published = 0
  BY <1>3 DEF ExitSaid, Published
<1>7. ServiceInv /\ LogInv
  BY <1>3, <1>6 DEF ServiceInv, LogInv, Floor
<1>8. EntriesInv /\ ClientInv /\ BufferInv
  BY <1>4 DEF EntriesInv, EntryOK, SocketOK, ClientInv, BufferInv, Pending
<1>9. WiresInv /\ ScreenInv
  BY <1>3, <1>4 DEF WiresInv, ScreenInv, ShownIsTrue, TextIsOutput
<1>10. StreamInv /\ AnswerInv
  BY <1>4 DEF StreamInv, WireOK, Linked, Mine, Attached, AnswerInv, Awaits
<1> QED
  BY <1>5, <1>7, <1>8, <1>9, <1>10 DEF StreamsInv

LEMMA StutterStreams ==
  ASSUME TypeOK, StreamsInv, UNCHANGED vars
  PROVE  (TypeOK /\ StreamsInv)'
<1> USE DEF vars
<1>1. TypeOK' /\ ServiceInv' /\ LogInv' /\ ClientInv'
  BY DEF StreamsInv, TypeOK, ServiceInv, LogInv, ClientInv, Floor, Published, ExitSaid
<1>2. EntriesInv'
  BY DEF StreamsInv, EntriesInv, EntryOK, SocketOK
<1>3. WiresInv' /\ ScreenInv'
  BY DEF StreamsInv, WiresInv, ScreenInv, MessageOK, TrueText, ShownIsTrue, TextIsOutput,
         Published, ExitSaid
<1>4. BufferInv'
  BY BufferKept DEF StreamsInv
<1>5. StreamInv'
  BY DEF StreamsInv, StreamInv, WireOK, Linked, EndsCurrent, Mine, Attached, Current,
         Follows, Continuing, Published, ExitSaid
<1>6. AnswerInv'
  BY DEF StreamsInv, AnswerInv, Awaits, Answered, Asking, Joining, Coming
<1> QED
  BY <1>1, <1>2, <1>3, <1>4, <1>5, <1>6 DEF StreamsInv

LEMMA StreamsStep == TypeOK /\ StreamsInv /\ [Next]_vars => (TypeOK /\ StreamsInv)'
<1> SUFFICES ASSUME TypeOK, StreamsInv, [Next]_vars PROVE (TypeOK /\ StreamsInv)'
  OBVIOUS
<1>1. CASE UNCHANGED vars
  BY <1>1, StutterStreams
<1>2. CASE Next
  <2>1. /\ ServiceInv /\ LogInv /\ EntriesInv /\ ClientInv
        /\ WiresInv /\ ScreenInv /\ BufferInv /\ StreamInv /\ AnswerInv
    BY DEF StreamsInv
  <2>2. TypeOK' /\ ServiceInv' /\ LogInv'
    BY <1>2, <2>1, TypeStep, LogStep
  <2>3. EntriesInv' /\ ClientInv' /\ BufferInv'
    BY <1>2, <2>1, EntriesStep, ClientStep, BufferStep
  <2>4. WiresInv' /\ ScreenInv'
    BY <1>2, <2>1, <2>2, WiresStep, ScreenStep
  <2>5. StreamInv' /\ AnswerInv'
    BY <1>2, <2>1, StreamStep, AnswerStep
  <2> QED
    BY <2>2, <2>3, <2>4, <2>5 DEF StreamsInv
<1> QED
  BY <1>1, <1>2

LEMMA StreamsAlways == Spec => [](TypeOK /\ StreamsInv)
  BY InitStreams, StreamsStep, PTL DEF Spec

\* The state of the service, the broker, the sockets, the client and the page
\* has its types: no offset passes what the command wrote, and no message on a
\* wire is more than a snapshot, a chunk or a status.
THEOREM TypeCorrect == Spec => []TypeOK
  BY StreamsAlways, PTL

\* The console never shows a byte twice, out of order or under a wrong offset
\* while the log has kept everything, whatever snapshots, deltas and polls the
\* page took in which order.
THEOREM ConsoleIsTrue == Spec => []ShownIsTrue
<1>1. StreamsInv => ShownIsTrue
  BY DEF StreamsInv, ScreenInv
<1> QED
  BY <1>1, StreamsAlways, PTL

\* A live page that knows of the exit has all of the output, however its
\* snapshot, its handshake's buffer and the exit overtook each other.
THEOREM ExitIsLast == Spec => []ExitSeenLast
<1>1. StreamsInv => ExitSeenLast
  BY DEF StreamsInv, StreamInv, ExitSeenLast, Live
<1> QED
  BY <1>1, StreamsAlways, PTL

\* Every live entry of the broker is the one its open socket would take back,
\* for any number of sockets and overlapping handshakes.
THEOREM EntriesAreHeld == Spec => []SinksAreHeld
<1>1. StreamsInv => SinksAreHeld
  BY DEF StreamsInv, EntriesInv, EntryOK, SinksAreHeld
<1> QED
  BY <1>1, StreamsAlways, PTL

LEMMA RestIsCurrent == TypeOK /\ StreamsInv => RestsCurrent
<1> SUFFICES ASSUME TypeOK, StreamsInv, AtRest, client.on, client.socket # NoSocket
             PROVE  /\ Live
                    /\ client.end = command.written
                    /\ client.status = (IF command.ended THEN "exited" ELSE "running")
  BY DEF RestsCurrent
<1> USE TypeParts
<1> USE DEF StreamsInv
<1>1. PICK s \in Sockets : client.socket = s
  BY ClientTyped
<1>2. /\ conn[s].up = <<>> /\ conn[s].down = <<>>
      /\ \A h \in Sinks : sink[h].pc \notin Pending
    BY <1>1 DEF AtRest, Pending
<1>3. conn[s].link /\ client.state = "connected"
  <2>1. conn[s].browser # "none"
    BY <1>1, Sizes DEF ClientInv
  <2>2. conn[s].browser = "open" /\ conn[s].link
    BY <2>1 DEF AtRest
  <2> QED
    BY <1>1, <2>2, Sizes DEF ClientInv
<1>4. conn[s].sub # NoSink /\ client.base
  <2>1. Answered(s) /\ ~Asking(s)
    BY <1>1, <1>2, <1>3 DEF AnswerInv, Awaits, Asking
  <2>2. ~Joining(s) /\ ~Coming(s)
    BY <1>2 DEF Joining, Coming
  <2>3. client.base \in BOOLEAN
    BY ClientTyped
  <2> QED
    BY <2>1, <2>2, <2>3 DEF Answered
<1>5. Attached(s)
  <2>1. conn[s].sub \in Sinks
    <3>1. conn[s] \in Connection
      BY DEF Parts
    <3> QED
      BY <1>4, <3>1, ConnectionTyped
  <2> QED
    BY <2>1 DEF EntriesInv, SocketOK, Attached
<1>6. /\ client.end \in {Published, Published + 1} /\ (ExitSaid => client.status = "exited")
      /\ client.end <= file.to /\ client.end \in Nat
  <2>1. Current(client.end, client.status)
    BY <1>1, <1>2, <1>3, <1>4, <1>5 DEF StreamInv, WireOK, Mine
  <2> QED
    BY <1>4, <2>1, Sizes DEF Current, WiresInv, Offsets
<1>7. /\ Published = command.written /\ (ExitSaid <=> command.ended)
      /\ command.ended \in BOOLEAN /\ command.written \in Nat
  BY CommandTyped DEF AtRest, Enqueued, ExitSaid, Published, OperationTypes
<1>8. client.end = command.written
  <2>1. file.to <= command.written /\ file.to \in Nat
    BY PublishedTyped
  <2> HIDE DEF Published
  <2> QED
    BY <1>6, <1>7, <2>1
<1>9. client.status = (IF command.ended THEN "exited" ELSE "running")
  <2>1. client.status = "exited" => command.ended
    BY PublishedTyped DEF WiresInv
  <2>2. client.status \in {"running", "exited"}
    BY ClientTyped DEF Statuses
  <2> QED
    BY <1>6, <1>7, <2>1, <2>2
<1> QED
  BY <1>3, <1>4, <1>8, <1>9 DEF Live

\* Once nothing is in flight, a subscribed page with a socket is live and has
\* all of the output and the exit: nothing it was not sent, was sent twice or
\* gave up on is left for a poll to correct.
THEOREM RestIsComplete == Spec => []RestsCurrent
  BY RestIsCurrent, StreamsAlways, PTL
=============================================================================
