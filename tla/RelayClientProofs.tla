-------------------------- MODULE RelayClientProofs --------------------------
(***************************************************************************)
(* RelayClient for any messages, answers, sizes and bounds: what the loop  *)
(* is given is what the relay wrote, what the relay receives is what the   *)
(* loop answered, and a message is never refused for its pieces.  The      *)
(* inductive invariant is ClientInv.                                       *)
(***************************************************************************)
EXTENDS RelayClient, SequenceTheorems, TLAPS

Data(f) == f.kind \in {"BINARY", "TEXT"}

\* The frames on the wire w are the last of those the relay wrote, s, with control
\* frames between them: ix counts the data frames up to each position, and first of
\* them have left the wire.
Numbers(ix, w, s, first) ==
    /\ ix[0] = first /\ ix[Len(w)] = Len(s)
    /\ \A i \in 1 .. Len(w) :
          /\ Data(w[i]) => ix[i] = ix[i - 1] + 1 /\ s[ix[i]] = w[i]
          /\ ~Data(w[i]) => ix[i] = ix[i - 1]

Numbered(w, s, first) == \E ix \in [0 .. Len(w) -> 0 .. Len(s)] : Numbers(ix, w, s, first)

\* The message the loop is about to be given has left the wire.
Taken == IF pc = "handle" THEN Len(got) + 1 ELSE Len(got)

WireNumbered == pc \notin {"cleanup", "done"} => Numbered(wire, sent, Taken)

\* How much of the first frame has been read.
ReadSoFar ==
    /\ wire = <<>> => at = 0
    /\ wire # <<>> => at = 0 \/ at < Len(Head(wire).bytes)
    /\ pc \in {"init", "connect", "handle", "send"} => at = 0

\* The first n cells of the buffer are the n cells of bytes that end at position end.
Holds(b, n, bytes, end) ==
    /\ n <= Len(b) /\ n <= end /\ end <= Len(bytes)
    /\ \A i \in 1 .. n : b[i] = bytes[end - n + i]

\* While a message comes in, and until it is handled, the buffer has all that was read
\* of it, or of one that stalled the last of it.
BufferHolds ==
    /\ pc \in {"init", "connect"} => offset = 0
    /\ pc = "receive" /\ wire # <<>> /\ Head(wire).kind = "BINARY" =>
          /\ Holds(buffer, offset, Head(wire).bytes, at)
          /\ offset = at \/ Len(got) + 1 \in stalled
    /\ pc = "receive" /\ (wire = <<>> \/ Head(wire).kind # "BINARY") => offset = 0
    /\ pc = "handle" =>
          LET m == sent[Len(got) + 1].bytes
          IN  /\ Holds(buffer, offset, m, Len(m)) /\ offset # 0
              /\ offset = Len(m) \/ Len(got) + 1 \in stalled

\* The answer being sent is in the buffer, and the relay has what was sent of it.
AnswersKnown ==
    /\ \A k \in DOMAIN answers : k \in DOMAIN asked /\ answers[k] = asked[k]
    /\ pc \notin {"send", "cleanup", "done"} => Len(answers) = Len(asked) /\ out = <<>>
    /\ pc = "send" => /\ Len(asked) = Len(answers) + 1 /\ buffer = asked[Len(asked)]
                      /\ offset < Len(buffer) /\ Len(out) = offset
                      /\ \A i \in 1 .. offset : out[i] = buffer[i]
    /\ pc \in {"cleanup", "done"} => Len(answers) \in {Len(asked), Len(asked) - 1}

ClientInv == /\ TypeOK /\ WireNumbered /\ ReadSoFar /\ BufferHolds /\ AnswersKnown
             /\ ReceivedInOrder /\ GoodMessagesAccepted

-----------------------------------------------------------------------------
\* Lemmas about the wire.

\* An empty wire: everything the relay wrote has left it.
LEMMA NumberedEmpty ==
  ASSUME NEW s \in Seq(Frame)
  PROVE  /\ Numbered(<<>>, s, Len(s))
         /\ \A first : Numbered(<<>>, s, first) => first = Len(s)
  <1>1. Len(s) \in Nat /\ Len(<<>>) = 0
    OBVIOUS
  <1> DEFINE ix == [i \in 0 .. 0 |-> Len(s)]
  <1>2. ix \in [0 .. 0 -> 0 .. Len(s)] /\ ix[0] = Len(s)
    BY <1>1
  <1>3. Numbers(ix, <<>>, s, Len(s))
    BY <1>1, <1>2 DEF Numbers
  <1>4. Numbered(<<>>, s, Len(s))
    BY <1>1, <1>2, <1>3 DEF Numbered
  <1> QED BY <1>1, <1>4 DEF Numbered, Numbers

\* The frames that have left the wire are among those the relay wrote.
LEMMA NumberedBound ==
  ASSUME NEW w \in Seq(Frame), NEW s \in Seq(Frame), NEW first, Numbered(w, s, first)
  PROVE  first \in 0 .. Len(s)
  BY DEF Numbered, Numbers

\* The relay writes a frame.
LEMMA NumberedAppend ==
  ASSUME NEW w \in Seq(Frame), NEW s \in Seq(Frame), NEW first, Numbered(w, s, first),
         NEW f \in Frame
  PROVE  /\ Data(f) => Numbered(Append(w, f), Append(s, f), first)
         /\ ~Data(f) => Numbered(Append(w, f), s, first)
  <1>1. PICK ix \in [0 .. Len(w) -> 0 .. Len(s)] : Numbers(ix, w, s, first)
    BY DEF Numbered
  <1> DEFINE n == Len(w)
             v == Append(w, f)
  <1>2. n \in Nat /\ Len(s) \in Nat /\ v \in Seq(Frame) /\ Len(v) = n + 1 /\ v[n + 1] = f
        /\ \A i \in 1 .. n : v[i] = w[i]
    OBVIOUS
  <1>3. ASSUME Data(f) PROVE Numbered(v, Append(s, f), first)
    <2> DEFINE t == Append(s, f)
               jx == [i \in 0 .. n + 1 |-> IF i <= n THEN ix[i] ELSE Len(s) + 1]
    <2>1. Len(t) = Len(s) + 1 /\ t[Len(s) + 1] = f /\ \A i \in 1 .. Len(s) : t[i] = s[i]
      OBVIOUS
    <2>2. jx \in [0 .. Len(v) -> 0 .. Len(t)]
      BY <1>2, <2>1
    <2>3. jx[0] = first /\ jx[Len(v)] = Len(t)
      BY <1>1, <1>2, <2>1 DEF Numbers
    <2>4. ASSUME NEW i \in 1 .. Len(v)
          PROVE  /\ Data(v[i]) => jx[i] = jx[i - 1] + 1 /\ t[jx[i]] = v[i]
                 /\ ~Data(v[i]) => jx[i] = jx[i - 1]
      <3>1. CASE i \in 1 .. n
        <4>1. jx[i] = ix[i] /\ jx[i - 1] = ix[i - 1] /\ v[i] = w[i]
          BY <1>2, <3>1
        <4>2. ix[i] \in 0 .. Len(s) /\ ix[i - 1] \in 0 .. Len(s)
          BY <1>2, <3>1
        <4>3. /\ Data(w[i]) => ix[i] = ix[i - 1] + 1 /\ s[ix[i]] = w[i]
              /\ ~Data(w[i]) => ix[i] = ix[i - 1]
          BY <1>1, <3>1 DEF Numbers
        <4> HIDE DEF jx, t, v
        <4> QED BY <2>1, <4>1, <4>2, <4>3
      <3>2. CASE i = n + 1
        <4>1. jx[i] = Len(s) + 1 /\ jx[i - 1] = Len(s) /\ v[i] = f
          BY <1>1, <1>2, <3>2 DEF Numbers
        <4> HIDE DEF jx, t, v
        <4> QED BY <1>3, <2>1, <4>1
      <3> QED BY <1>2, <3>1, <3>2
    <2> HIDE DEF jx, t, v
    <2>5. Numbers(jx, v, t, first)
      BY <2>3, <2>4 DEF Numbers
    <2>6. Numbered(v, t, first)
      BY <2>2, <2>5 DEF Numbered
    <2> QED BY <2>6 DEF t
  <1>4. ASSUME ~Data(f) PROVE Numbered(v, s, first)
    <2> DEFINE jx == [i \in 0 .. n + 1 |-> IF i <= n THEN ix[i] ELSE Len(s)]
    <2>2. jx \in [0 .. Len(v) -> 0 .. Len(s)]
      BY <1>2
    <2>3. jx[0] = first /\ jx[Len(v)] = Len(s)
      BY <1>1, <1>2 DEF Numbers
    <2>4. ASSUME NEW i \in 1 .. Len(v)
          PROVE  /\ Data(v[i]) => jx[i] = jx[i - 1] + 1 /\ s[jx[i]] = v[i]
                 /\ ~Data(v[i]) => jx[i] = jx[i - 1]
      <3>1. CASE i \in 1 .. n
        <4>1. jx[i] = ix[i] /\ jx[i - 1] = ix[i - 1] /\ v[i] = w[i]
          BY <1>2, <3>1
        <4>3. /\ Data(w[i]) => ix[i] = ix[i - 1] + 1 /\ s[ix[i]] = w[i]
              /\ ~Data(w[i]) => ix[i] = ix[i - 1]
          BY <1>1, <3>1 DEF Numbers
        <4> HIDE DEF jx, v
        <4> QED BY <4>1, <4>3
      <3>2. CASE i = n + 1
        <4>1. jx[i] = Len(s) /\ jx[i - 1] = Len(s) /\ v[i] = f
          BY <1>1, <1>2, <3>2 DEF Numbers
        <4> HIDE DEF jx, v
        <4> QED BY <1>4, <4>1
      <3> QED BY <1>2, <3>1, <3>2
    <2> HIDE DEF jx, v
    <2>5. Numbers(jx, v, s, first)
      BY <2>3, <2>4 DEF Numbers
    <2> QED BY <2>2, <2>5 DEF Numbered
  <1> QED BY <1>3, <1>4

\* The first frame on the wire is the next one the relay wrote, if it is a data frame.
LEMMA NumberedHead ==
  ASSUME NEW w \in Seq(Frame), w # <<>>, NEW s \in Seq(Frame), NEW first,
         Numbered(w, s, first)
  PROVE  /\ Data(Head(w)) => /\ first + 1 \in 1 .. Len(s) /\ s[first + 1] = Head(w)
                             /\ Numbered(Tail(w), s, first + 1)
         /\ ~Data(Head(w)) => Numbered(Tail(w), s, first)
  <1>1. PICK ix \in [0 .. Len(w) -> 0 .. Len(s)] : Numbers(ix, w, s, first)
    BY DEF Numbered
  <1> DEFINE n == Len(w)
             v == Tail(w)
             jx == [i \in 0 .. n - 1 |-> ix[i + 1]]
  <1>2. /\ n \in Nat \ {0} /\ Len(s) \in Nat /\ Head(w) = w[1]
        /\ v \in Seq(Frame) /\ Len(v) = n - 1 /\ \A i \in 1 .. n - 1 : v[i] = w[i + 1]
    OBVIOUS
  <1>3. /\ Data(w[1]) => ix[1] = first + 1 /\ s[ix[1]] = w[1]
        /\ ~Data(w[1]) => ix[1] = first
    BY <1>1, <1>2 DEF Numbers
  <1>4. ix[1] \in 0 .. Len(s) /\ first \in 0 .. Len(s)
    BY <1>1, <1>2 DEF Numbers
  <1>5. jx \in [0 .. Len(v) -> 0 .. Len(s)]
    BY <1>2
  <1>6. jx[0] = ix[1] /\ jx[Len(v)] = Len(s)
    BY <1>1, <1>2 DEF Numbers
  <1>7. ASSUME NEW i \in 1 .. Len(v)
        PROVE  /\ Data(v[i]) => jx[i] = jx[i - 1] + 1 /\ s[jx[i]] = v[i]
               /\ ~Data(v[i]) => jx[i] = jx[i - 1]
    <2>1. jx[i] = ix[i + 1] /\ jx[i - 1] = ix[i] /\ v[i] = w[i + 1] /\ i + 1 \in 1 .. n
      BY <1>2
    <2>2. /\ Data(w[i + 1]) => ix[i + 1] = ix[i + 1 - 1] + 1 /\ s[ix[i + 1]] = w[i + 1]
          /\ ~Data(w[i + 1]) => ix[i + 1] = ix[i + 1 - 1]
      BY <1>1, <2>1 DEF Numbers
    <2>3. i + 1 - 1 = i
      OBVIOUS
    <2> HIDE DEF jx, v
    <2> QED BY <2>1, <2>2, <2>3
  <1> HIDE DEF jx, v
  <1>8. Numbers(jx, v, s, ix[1])
    BY <1>6, <1>7 DEF Numbers
  <1>9. Numbered(v, s, ix[1])
    BY <1>5, <1>8 DEF Numbered
  <1> QED BY <1>2, <1>3, <1>4, <1>9 DEF v

-----------------------------------------------------------------------------
\* Lemmas about the buffer.

\* What SubSeq gives, cell by cell.
LEMMA SubSeqCells ==
  ASSUME NEW q \in Seq(Nat), NEW lo \in Nat \ {0}, NEW hi \in Nat, lo <= hi + 1, hi <= Len(q)
  PROVE  /\ SubSeq(q, lo, hi) \in Seq(Nat) /\ Len(SubSeq(q, lo, hi)) = hi + 1 - lo
         /\ \A i \in 1 .. hi + 1 - lo : SubSeq(q, lo, hi)[i] = q[lo + i - 1]
  OBVIOUS

\* What a concatenation gives, cell by cell.
LEMMA ConcatCells ==
  ASSUME NEW x \in Seq(Nat), NEW y \in Seq(Nat)
  PROVE  /\ x \o y \in Seq(Nat) /\ Len(x \o y) = Len(x) + Len(y)
         /\ \A i \in 1 .. Len(x) : (x \o y)[i] = x[i]
         /\ \A i \in 1 .. Len(y) : (x \o y)[Len(x) + i] = y[i]
  <1>1. Len(x) \in Nat /\ Len(y) \in Nat
    OBVIOUS
  <1>2. /\ x \o y \in Seq(Nat) /\ Len(x \o y) = Len(x) + Len(y)
        /\ \A i \in 1 .. Len(x) + Len(y) :
              (x \o y)[i] = IF i <= Len(x) THEN x[i] ELSE y[i - Len(x)]
    BY ConcatProperties
  <1>3. ASSUME NEW i \in 1 .. Len(x) PROVE (x \o y)[i] = x[i]
    <2>1. i \in 1 .. Len(x) + Len(y) /\ i <= Len(x)
      BY <1>1
    <2> QED BY <1>2, <2>1, Zenon
  <1>4. ASSUME NEW i \in 1 .. Len(y) PROVE (x \o y)[Len(x) + i] = y[i]
    <2> DEFINE j == Len(x) + i
    <2>1. j \in 1 .. Len(x) + Len(y) /\ ~(j <= Len(x)) /\ j - Len(x) = i
      BY <1>1
    <2> HIDE DEF j
    <2>2. (x \o y)[j] = y[i]
      BY <1>2, <2>1
    <2> QED BY <2>2 DEF j
  <1> QED BY <1>2, <1>3, <1>4

\* The buffer b after n cells of bytes, from k on, have been stored behind its first o.
Stored(b, o, bytes, k, n) == SubSeq(b, 1, o) \o SubSeq(bytes, k + 1, k + n)

\* The next piece continues what the buffer holds.
LEMMA HoldsMore ==
  ASSUME NEW b \in Seq(Nat), NEW o \in Nat, NEW bytes \in Seq(Nat), NEW k \in Nat,
         Holds(b, o, bytes, k), NEW n \in Nat, k + n <= Len(bytes)
  PROVE  /\ Stored(b, o, bytes, k, n) \in Seq(Nat) /\ Len(Stored(b, o, bytes, k, n)) = o + n
         /\ Holds(Stored(b, o, bytes, k, n), o + n, bytes, k + n)
  <1> DEFINE x == SubSeq(b, 1, o)
             y == SubSeq(bytes, k + 1, k + n)
             new == x \o y
  <1>0. o <= Len(b) /\ o <= k
    BY DEF Holds
  <1>a. x \in Seq(Nat) /\ Len(x) = o /\ \A i \in 1 .. o : x[i] = b[i]
    <2>1. /\ x \in Seq(Nat) /\ Len(x) = o + 1 - 1
          /\ \A i \in 1 .. o + 1 - 1 : x[i] = b[1 + i - 1]
      BY <1>0, SubSeqCells
    <2> HIDE DEF x
    <2> QED BY <2>1
  <1>b. y \in Seq(Nat) /\ Len(y) = n /\ \A i \in 1 .. n : y[i] = bytes[k + i]
    <2>1. /\ y \in Seq(Nat) /\ Len(y) = k + n + 1 - (k + 1)
          /\ \A i \in 1 .. k + n + 1 - (k + 1) : y[i] = bytes[k + 1 + i - 1]
      BY SubSeqCells
    <2> HIDE DEF y
    <2>2. k + n + 1 - (k + 1) = n /\ \A i \in 1 .. n : k + 1 + i - 1 = k + i
      OBVIOUS
    <2> QED BY <2>1, <2>2
  <1>c. Stored(b, o, bytes, k, n) = new
    BY DEF Stored
  <1> HIDE DEF x, y
  <1>d. /\ x \o y \in Seq(Nat) /\ Len(x \o y) = Len(x) + Len(y)
        /\ \A i \in 1 .. Len(x) : (x \o y)[i] = x[i]
        /\ \A i \in 1 .. Len(y) : (x \o y)[Len(x) + i] = y[i]
    BY <1>a, <1>b, ConcatCells
  <1>1. /\ new \in Seq(Nat) /\ Len(new) = o + n
        /\ \A i \in 1 .. o : new[i] = b[i]
        /\ \A i \in 1 .. n : new[o + i] = bytes[k + i]
    BY <1>a, <1>b, <1>d, Zenon
  <1> HIDE DEF new
  <1>2. \A i \in 1 .. o + n : new[i] = bytes[k + n - (o + n) + i]
    <2> TAKE i \in 1 .. o + n
    <2>1. CASE i <= o
      <3>1. k + n - (o + n) + i = k - o + i /\ i \in 1 .. o
        BY <1>0, <2>1
      <3> QED BY <1>1, <3>1 DEF Holds
    <2>2. CASE i > o
      <3>1. k + n - (o + n) + i = k + (i - o) /\ i - o \in 1 .. n /\ o + (i - o) = i
        BY <1>0, <2>2
      <3> QED BY <1>1, <3>1
    <2> QED BY <2>1, <2>2
  <1>3. Holds(new, o + n, bytes, k + n)
    BY <1>0, <1>1, <1>2 DEF Holds
  <1> QED BY <1>1, <1>3, <1>c

\* A buffer that holds the end of a message holds a sequence that ends it.
LEMMA HoldsEnd ==
  ASSUME NEW b \in Seq(Nat), NEW m \in Seq(Nat), NEW n \in Nat, Holds(b, n, m, Len(m))
  PROVE  /\ SubSeq(b, 1, n) = SubSeq(m, Len(m) - n + 1, Len(m))
         /\ n = Len(m) => SubSeq(b, 1, n) = m
         /\ SubSeq(b, 1, n) \in Seq(Nat) /\ Len(SubSeq(b, 1, n)) = n
  <1> DEFINE x == SubSeq(b, 1, n)
             y == SubSeq(m, Len(m) - n + 1, Len(m))
             lo == Len(m) - n + 1
  <1>0. Len(m) \in Nat /\ n <= Len(m) /\ n <= Len(b) /\ lo \in Nat \ {0} /\ lo <= Len(m) + 1
        /\ Len(m) + 1 - lo = n
    BY DEF Holds
  <1>1. x \in Seq(Nat) /\ Len(x) = n /\ \A i \in 1 .. n : x[i] = b[i]
    <2>1. /\ x \in Seq(Nat) /\ Len(x) = n + 1 - 1
          /\ \A i \in 1 .. n + 1 - 1 : x[i] = b[1 + i - 1]
      <3>1. 1 \in Nat \ {0} /\ 1 <= n + 1 /\ n <= Len(b)
        BY <1>0
      <3> QED BY <3>1, SubSeqCells
    <2> HIDE DEF x
    <2> QED BY <2>1
  <1>2. y \in Seq(Nat) /\ Len(y) = n /\ \A i \in 1 .. n : y[i] = m[Len(m) - n + i]
    <2>1. /\ y \in Seq(Nat) /\ Len(y) = Len(m) + 1 - lo
          /\ \A i \in 1 .. Len(m) + 1 - lo : y[i] = m[lo + i - 1]
      BY <1>0, SubSeqCells
    <2>2. \A i \in 1 .. n : lo + i - 1 = Len(m) - n + i
      BY <1>0
    <2> HIDE DEF y, lo
    <2> QED BY <1>0, <2>1, <2>2
  <1> HIDE DEF x, y
  <1>3. x = y
    <2>1. \A i \in 1 .. n : x[i] = y[i]
      BY <1>1, <1>2 DEF Holds
    <2> QED BY <1>1, <1>2, <2>1, SeqEqual
  <1>4. n = Len(m) => x = m
    <2> SUFFICES ASSUME n = Len(m) PROVE x = m
      OBVIOUS
    <2>1. \A i \in 1 .. n : b[i] = m[Len(m) - n + i] /\ Len(m) - n + i = i
      BY <1>0 DEF Holds
    <2>2. \A i \in 1 .. n : x[i] = m[i]
      BY <1>1, <2>1
    <2> QED BY <1>1, <2>2, SeqEqual
  <1> QED BY <1>1, <1>3, <1>4 DEF x, y

-----------------------------------------------------------------------------
\* The steps that only move the worker on, or end it.

\* A call of curl fails.
LEMMA FailureEffect ==
  ASSUME CurlFails
  PROVE  broken' = TRUE /\ pc' = "cleanup" /\ state' \in {"CLOSED", "FAILED"}
  BY DEF CurlFails, CurlFailure, End

\* Setting up, failing and cleaning up.
LEMMA QuietSteps ==
  ClientInv /\ (ClientInit \/ ClientConnect \/ RecvError \/ SendFails \/ Cleanup) => ClientInv'
  <1> SUFFICES ASSUME ClientInv, ClientInit \/ ClientConnect \/ RecvError \/ SendFails \/ Cleanup
               PROVE  ClientInv'
    OBVIOUS
  <1> USE DEF ClientInv
  <1>1. CASE ClientInit
    <2>1. /\ pc = "init" /\ offset' = offset /\ buffer' = buffer /\ wire' = wire /\ at' = at
          /\ out' = out /\ sent' = sent /\ got' = got /\ stalled' = stalled
          /\ asked' = asked /\ answers' = answers /\ broken' = broken
          /\ \/ state' = "PREPARED" /\ pc' = "connect"
             \/ state' \in {"EMPTY", "FAILED"} /\ pc' = "done"
      BY <1>1 DEF ClientInit, history
    <2>2. offset = 0
      BY <2>1 DEF BufferHolds
    <2>3. TypeOK' /\ WireNumbered' /\ ReadSoFar' /\ AnswersKnown'
      BY <2>1 DEF TypeOK, WireNumbered, ReadSoFar, AnswersKnown, Connected, Taken
    <2>4. BufferHolds' /\ ReceivedInOrder' /\ GoodMessagesAccepted'
      BY <2>1, <2>2 DEF BufferHolds, ReceivedInOrder, GoodMessagesAccepted
    <2> QED BY <2>3, <2>4
  <1>2. CASE ClientConnect
    <2>1. /\ pc = "connect" /\ offset' = offset /\ buffer' = buffer /\ wire' = wire /\ at' = at
          /\ out' = out /\ sent' = sent /\ got' = got /\ stalled' = stalled
          /\ asked' = asked /\ answers' = answers
          /\ \/ state' = "CONNECTED" /\ pc' = "receive" /\ broken' = broken
             \/ broken' = TRUE /\ pc' = "cleanup" /\ state' \in {"CLOSED", "FAILED"}
      BY <1>2, FailureEffect DEF ClientConnect
    <2>2. offset = 0 /\ at = 0
      BY <2>1 DEF BufferHolds, ReadSoFar
    <2>3. TypeOK' /\ WireNumbered' /\ ReadSoFar' /\ AnswersKnown'
      BY <2>1 DEF TypeOK, WireNumbered, ReadSoFar, AnswersKnown, Connected, Taken
    <2>4. BufferHolds'
      BY <2>1, <2>2 DEF BufferHolds, Holds, TypeOK, Frame
    <2>5. ReceivedInOrder' /\ GoodMessagesAccepted'
      BY <2>1 DEF ReceivedInOrder, GoodMessagesAccepted
    <2> QED BY <2>3, <2>4, <2>5
  <1>3. CASE RecvError \/ SendFails
    <2>1. /\ pc \in {"receive", "send"} /\ offset' = offset /\ buffer' = buffer /\ wire' = wire
          /\ at' = at /\ out' = out /\ sent' = sent /\ got' = got /\ stalled' = stalled
          /\ asked' = asked /\ answers' = answers /\ pc' = "cleanup"
          /\ \/ state' = "CONNECTED" /\ broken' = broken
             \/ broken' = TRUE /\ state' \in {"CLOSED", "FAILED"}
      BY <1>3, FailureEffect DEF RecvError, SendFails, End
    <2>0. Len(asked) \in Nat /\ Len(answers) \in Nat
      BY DEF TypeOK
    <2>2. TypeOK' /\ WireNumbered' /\ ReadSoFar'
      BY <2>1 DEF TypeOK, WireNumbered, ReadSoFar, Connected
    <2>a. Len(answers) = Len(asked) \/ Len(asked) = Len(answers) + 1
      BY <2>1 DEF AnswersKnown
    <2>b. Len(answers) \in {Len(asked), Len(asked) - 1}
      BY <2>0, <2>a
    <2>c. AnswersKnown'
      BY <2>1, <2>b DEF AnswersKnown
    <2>3. BufferHolds' /\ ReceivedInOrder' /\ GoodMessagesAccepted'
      BY <2>1 DEF BufferHolds, ReceivedInOrder, GoodMessagesAccepted
    <2> QED BY <2>2, <2>3, <2>c
  <1>4. CASE Cleanup
    <2>1. /\ pc = "cleanup" /\ offset' = 0 /\ buffer' = <<>> /\ wire' = <<>>
          /\ at' = 0 /\ out' = out /\ sent' = sent /\ got' = got /\ stalled' = stalled
          /\ asked' = asked /\ answers' = answers /\ pc' = "done" /\ state' = "CLOSED"
          /\ broken' = broken
      BY <1>4 DEF Cleanup, history
    <2>2. TypeOK'
      BY <2>1, ClientAssumption DEF TypeOK, Connected
    <2>3. WireNumbered' /\ ReadSoFar' /\ AnswersKnown' /\ BufferHolds'
      BY <2>1 DEF WireNumbered, ReadSoFar, AnswersKnown, BufferHolds
    <2>4. ReceivedInOrder' /\ GoodMessagesAccepted'
      BY <2>1, ClientAssumption DEF ReceivedInOrder, GoodMessagesAccepted
    <2> QED BY <2>2, <2>3, <2>4
  <1> QED BY <1>1, <1>2, <1>3, <1>4

-----------------------------------------------------------------------------
\* The relay writes a frame: the first one on the wire stays the first.
LEMMA RelaySteps == ClientInv /\ (RelayWrites \/ RelayControls) => ClientInv'
  <1> SUFFICES ASSUME ClientInv, RelayWrites \/ RelayControls PROVE ClientInv'
    OBVIOUS
  <1> USE DEF ClientInv
  <1>0. Message \subseteq Seq(Nat) /\ Ping \subseteq Seq(Nat) /\ <<>> \in Seq(Nat)
    BY ClientAssumption
  <1>1. PICK f \in Frame :
           /\ wire' = Append(wire, f)
           /\ Data(f) => sent' = Append(sent, f)
           /\ ~Data(f) => sent' = sent
    <2>1. CASE RelayWrites
      <3>1. PICK f \in [kind : {"BINARY"}, bytes : Message] \cup [kind : {"TEXT"}, bytes : {<<>>}] :
               wire' = Append(wire, f) /\ sent' = Append(sent, f)
        BY <2>1 DEF RelayWrites
      <3>2. f \in Frame /\ Data(f)
        BY <1>0 DEF Frame, Data
      <3> QED BY <3>1, <3>2
    <2>2. CASE RelayControls
      <3>1. PICK f \in [kind : {"PING"}, bytes : Ping] \cup [kind : {"CLOSE"}, bytes : {<<>>}] :
               wire' = Append(wire, f)
        BY <2>2 DEF RelayControls
      <3>2. f \in Frame /\ ~Data(f)
        BY <1>0 DEF Frame, Data
      <3>3. sent' = sent
        BY <2>2 DEF RelayControls, history
      <3> QED BY <3>1, <3>2, <3>3
    <2> QED BY <2>1, <2>2
  <1>2. /\ pc' = pc /\ state' = state /\ offset' = offset /\ buffer' = buffer /\ at' = at
        /\ out' = out /\ got' = got /\ stalled' = stalled /\ asked' = asked
        /\ answers' = answers /\ broken' = broken /\ pc \in {"receive", "handle", "send"}
    BY DEF RelayWrites, RelayControls, CanWrite, Connected, local, history
  <1>3. /\ wire \in Seq(Frame) /\ sent \in Seq(Frame) /\ got \in Seq(Seq(Nat))
        /\ at \in Nat /\ offset \in Nat
    BY DEF TypeOK
  <1>4. wire' \in Seq(Frame) /\ sent' \in Seq(Frame) /\ Len(sent) <= Len(sent')
        /\ \A k \in 1 .. Len(sent) : sent'[k] = sent[k]
    <2>1. CASE sent' = Append(sent, f)
      BY <1>1, <1>3, <2>1
    <2>2. CASE sent' = sent
      BY <1>1, <1>3, <2>2
    <2> QED BY <1>1, <2>1, <2>2
  <1>5. /\ wire' # <<>> /\ Head(wire') = IF wire = <<>> THEN f ELSE Head(wire)
    BY <1>1, <1>3
  <1>6. Numbered(wire, sent, Taken) /\ Taken' = Taken
    BY <1>2 DEF WireNumbered, Taken
  <1>7. Numbered(wire', sent', Taken')
    BY <1>1, <1>3, <1>6, NumberedAppend
  <1>8. Taken \in 0 .. Len(sent)
    BY <1>3, <1>6, NumberedBound
  <1>9. TypeOK' /\ WireNumbered' /\ AnswersKnown'
    BY <1>2, <1>4, <1>7 DEF TypeOK, Connected, WireNumbered, AnswersKnown
  <1>10. ReadSoFar'
    BY <1>2, <1>3, <1>5 DEF ReadSoFar
  <1>11. BufferHolds'
    <2>1. pc = "receive" /\ Head(wire').kind = "BINARY" =>
             /\ Holds(buffer, offset, Head(wire').bytes, at)
             /\ offset = at \/ Len(got) + 1 \in stalled
      <3>1. CASE wire = <<>>
        BY <1>3, <1>5, <3>1 DEF BufferHolds, ReadSoFar, Holds, Frame, TypeOK
      <3>2. CASE wire # <<>>
        BY <1>5, <3>2 DEF BufferHolds
      <3> QED BY <3>1, <3>2
    <2>2. pc = "receive" /\ Head(wire').kind # "BINARY" => offset = 0
      BY <1>5 DEF BufferHolds
    <2>3. pc = "handle" => sent'[Len(got) + 1] = sent[Len(got) + 1]
      BY <1>3, <1>4, <1>8 DEF Taken
    <2> QED BY <1>2, <1>5, <2>1, <2>2, <2>3 DEF BufferHolds
  <1>12. ReceivedInOrder'
    <2>0. Len(got) <= Len(sent)
      BY DEF ReceivedInOrder
    <2>1. \A k \in DOMAIN got : sent'[k] = sent[k]
      <3>1. Len(sent) \in Nat /\ Len(got) \in Nat /\ DOMAIN got = 1 .. Len(got)
        BY <1>3
      <3>2. \A k \in DOMAIN got : k \in 1 .. Len(sent)
        BY <2>0, <3>1
      <3> QED BY <1>4, <3>2
    <2>2. Len(got) <= Len(sent')
      BY <1>3, <1>4, <2>0
    <2> QED BY <1>2, <2>1, <2>2 DEF ReceivedInOrder
  <1>13. GoodMessagesAccepted'
    BY <1>2 DEF GoodMessagesAccepted
  <1> QED BY <1>9, <1>10, <1>11, <1>12, <1>13

-----------------------------------------------------------------------------
\* What storing a piece of the first frame on the wire does.
PieceStored(kind, n, left) ==
    /\ pc = "receive" /\ state = "CONNECTED"
    /\ wire # <<>> /\ Head(wire).kind = kind /\ Head(wire).bytes \in Seq(Nat)
    /\ at + n + left = Len(Head(wire).bytes) /\ offset + n <= MaxMessage
    /\ buffer' \in Seq(Nat) /\ Len(buffer') = offset + n
    /\ Holds(buffer', offset + n, Head(wire).bytes, at + n)
    /\ left = 0 => wire' = Tail(wire) /\ at' = 0
    /\ left # 0 => wire' = wire /\ at' = at + n /\ n # 0
    /\ wire' \in Seq(Frame)
    /\ out' = out /\ sent' = sent /\ got' = got /\ stalled' = stalled
    /\ asked' = asked /\ answers' = answers /\ broken' = broken

\* A piece is stored behind what the buffer holds.
LEMMA PieceEffect ==
  ASSUME ClientInv, NEW kind, NEW n \in Nat, NEW left \in Nat, Piece(kind, n, left)
  PROVE  PieceStored(kind, n, left)
  <1> DEFINE bytes == Head(wire).bytes
  <1>1. /\ pc = "receive" /\ wire # <<>> /\ Head(wire).kind = kind
        /\ n \in 0 .. Len(bytes) - at /\ n <= MaxMessage - offset
        /\ n = 0 => at = Len(bytes)
        /\ left = Len(bytes) - at - n
        /\ wire' = IF left = 0 THEN Tail(wire) ELSE wire
        /\ at' = IF left = 0 THEN 0 ELSE at + n
        /\ out' = out /\ sent' = sent /\ got' = got /\ stalled' = stalled
        /\ asked' = asked /\ answers' = answers /\ broken' = broken
    BY DEF Piece, Capacity, history
  <1>2. buffer' = Stored(buffer, offset, bytes, at, n)
    BY DEF Piece, Stored
  <1>3. /\ wire \in Seq(Frame) /\ buffer \in Seq(Nat) /\ offset \in Nat /\ at \in Nat
        /\ MaxMessage \in Nat /\ state = "CONNECTED"
    BY <1>1, ClientAssumption DEF ClientInv, TypeOK, Connected
  <1>4. Head(wire) \in Frame /\ Tail(wire) \in Seq(Frame)
    BY <1>1, <1>3
  <1>5. bytes \in Seq(Nat) /\ Len(bytes) \in Nat
    BY <1>4 DEF Frame
  <1>6. at <= Len(bytes)
    BY <1>1, <1>3, <1>5
  <1>7. Holds(buffer, offset, bytes, at)
    <2>1. CASE kind = "BINARY"
      BY <1>1, <2>1 DEF ClientInv, BufferHolds
    <2>2. CASE kind # "BINARY"
      <3>1. offset = 0
        BY <1>1, <2>2 DEF ClientInv, BufferHolds
      <3> QED BY <1>3, <1>6, <3>1 DEF Holds
    <2> QED BY <2>1, <2>2
  <1> HIDE DEF bytes
  <1>8. at + n <= Len(bytes)
    BY <1>1, <1>3, <1>5
  <1>9. /\ Stored(buffer, offset, bytes, at, n) \in Seq(Nat)
        /\ Len(Stored(buffer, offset, bytes, at, n)) = offset + n
        /\ Holds(Stored(buffer, offset, bytes, at, n), offset + n, bytes, at + n)
    BY <1>3, <1>5, <1>7, <1>8, HoldsMore
  <1>10. /\ at + n + left = Len(bytes) /\ offset + n <= MaxMessage
         /\ left # 0 => n # 0
    BY <1>1, <1>3, <1>5
  <1> QED BY <1>1, <1>2, <1>3, <1>4, <1>5, <1>9, <1>10 DEF bytes, PieceStored

\* A frame that ends the connection, and a piece of a ping.
LEMMA OtherFrames == ClientInv /\ (RecvClose \/ RecvText \/ RecvPing) => ClientInv'
  <1> SUFFICES ASSUME ClientInv, RecvClose \/ RecvText \/ RecvPing PROVE ClientInv'
    OBVIOUS
  <1>0. /\ wire \in Seq(Frame) /\ sent \in Seq(Frame) /\ offset \in 0 .. MaxMessage
        /\ at \in Nat /\ Len(got) \in Nat /\ got \in Seq(Seq(Nat)) /\ MaxMessage \in Nat
    BY ClientAssumption DEF ClientInv, TypeOK
  <1>1. CASE RecvClose \/ RecvText
    <2>1. PICK kind \in {"CLOSE", "TEXT"} :
             /\ Piece(kind, 0, 0) /\ pc' = "cleanup" /\ offset' = offset
             /\ kind = "CLOSE" => state' = "CLOSED"
             /\ kind = "TEXT" => state' = "FAILED"
      BY <1>1 DEF RecvClose, RecvText, End
    <2>a. PieceStored(kind, 0, 0)
      BY <2>1, PieceEffect
    <2>2. /\ pc = "receive"
          /\ wire # <<>> /\ Head(wire).kind = kind
          /\ buffer' \in Seq(Nat) /\ Len(buffer') = offset
          /\ wire' = Tail(wire) /\ at' = 0 /\ wire' \in Seq(Frame)
          /\ out' = out /\ sent' = sent /\ got' = got /\ stalled' = stalled
          /\ asked' = asked /\ answers' = answers /\ broken' = broken
      BY <1>0, <2>a DEF PieceStored
    <2>3. TypeOK'
      BY <1>0, <2>1, <2>2 DEF ClientInv, TypeOK, Connected
    <2>4. WireNumbered' /\ ReadSoFar' /\ BufferHolds' /\ AnswersKnown'
      BY <2>1, <2>2 DEF ClientInv, WireNumbered, ReadSoFar, BufferHolds, AnswersKnown
    <2>5. ReceivedInOrder'
      BY <1>0, <2>1, <2>2 DEF ClientInv, ReceivedInOrder
    <2>6. GoodMessagesAccepted'
      <3>1. CASE kind = "CLOSE"
        BY <2>1, <3>1 DEF GoodMessagesAccepted
      <3>2. CASE kind = "TEXT"
        <4>1. Numbered(wire, sent, Len(got)) /\ Data(Head(wire))
          BY <2>2, <3>2 DEF ClientInv, WireNumbered, Taken, Data
        <4>2. Len(got) + 1 \in 1 .. Len(sent) /\ sent[Len(got) + 1] = Head(wire)
          BY <1>0, <2>2, <4>1, NumberedHead
        <4>3. Len(got) + 1 \in DOMAIN sent /\ sent[Len(got) + 1].kind = "TEXT"
          BY <1>0, <2>2, <3>2, <4>2
        <4> QED BY <2>2, <4>3 DEF GoodMessagesAccepted
      <3> QED BY <3>1, <3>2
    <2> QED BY <2>3, <2>4, <2>5, <2>6 DEF ClientInv
  <1>2. CASE RecvPing
    <2>1. PICK n \in 0 .. MaxMessage, left \in 0 .. MaxMessage :
             /\ Piece("PING", n, left)
             /\ offset' = IF left = 0 THEN 0 ELSE offset
             /\ pc' = pc /\ state' = state
      BY <1>2 DEF RecvPing
    <2>a. PieceStored("PING", n, left)
      <3>1. n \in Nat /\ left \in Nat
        BY <1>0
      <3> QED BY <2>1, <3>1, PieceEffect
    <2>2. /\ pc = "receive" /\ state = "CONNECTED"
          /\ wire # <<>> /\ Head(wire).kind = "PING" /\ Head(wire).bytes \in Seq(Nat)
          /\ at + n + left = Len(Head(wire).bytes) /\ offset + n <= MaxMessage
          /\ buffer' \in Seq(Nat) /\ Len(buffer') = offset + n
          /\ left = 0 => wire' = Tail(wire) /\ at' = 0
          /\ left # 0 => wire' = wire /\ at' = at + n /\ n # 0
          /\ wire' \in Seq(Frame)
          /\ out' = out /\ sent' = sent /\ got' = got /\ stalled' = stalled
          /\ asked' = asked /\ answers' = answers /\ broken' = broken
      BY <1>0, <2>a DEF PieceStored
    <2>3. offset = 0 /\ offset' = 0
      BY <2>1, <2>2 DEF ClientInv, BufferHolds
    <2>4. TypeOK'
      <3>1. /\ offset' \in 0 .. MaxMessage /\ Len(buffer') <= MaxMessage /\ at' \in Nat
        BY <1>0, <2>2, <2>3
      <3> QED BY <2>1, <2>2, <3>1 DEF ClientInv, TypeOK, Connected
    <2>5. WireNumbered'
      <3>1. Numbered(wire, sent, Len(got)) /\ ~Data(Head(wire))
        BY <2>2 DEF ClientInv, WireNumbered, Taken, Data
      <3>2. Numbered(Tail(wire), sent, Len(got))
        BY <1>0, <2>2, <3>1, NumberedHead
      <3> QED BY <2>1, <2>2, <3>1, <3>2 DEF WireNumbered, Taken
    <2>6. ReadSoFar'
      BY <1>0, <2>1, <2>2 DEF ReadSoFar
    <2>7. BufferHolds'
      <3>1. CASE left = 0
        <4>1. wire' # <<>> => Len(Head(wire').bytes) \in Nat
          BY <2>2 DEF Frame
        <4> QED BY <2>1, <2>2, <2>3, <3>1, <4>1 DEF BufferHolds, Holds
      <3>2. CASE left # 0
        BY <2>1, <2>2, <2>3, <3>2 DEF BufferHolds
      <3> QED BY <3>1, <3>2
    <2>8. AnswersKnown' /\ ReceivedInOrder' /\ GoodMessagesAccepted'
      BY <1>0, <2>1, <2>2, <2>3 DEF ClientInv, AnswersKnown, ReceivedInOrder,
                                    GoodMessagesAccepted
    <2> QED BY <2>4, <2>5, <2>6, <2>7, <2>8 DEF ClientInv
  <1> QED BY <1>1, <1>2

\* A piece of a message.
LEMMA BinaryFrames == ClientInv /\ RecvBinary => ClientInv'
  <1> SUFFICES ASSUME ClientInv, RecvBinary PROVE ClientInv'
    OBVIOUS
  <1>0. /\ wire \in Seq(Frame) /\ sent \in Seq(Frame) /\ offset \in 0 .. MaxMessage
        /\ at \in Nat /\ Len(got) \in Nat /\ got \in Seq(Seq(Nat)) /\ MaxMessage \in Nat
        /\ HeaderSize = 2
    BY ClientAssumption DEF ClientInv, TypeOK
  <1> DEFINE bytes == Head(wire).bytes
  <1>1. PICK n \in 0 .. MaxMessage, left \in 0 .. MaxMessage :
           Piece("BINARY", n, left) /\ Accept(n, left)
    BY DEF RecvBinary
  <1>2. /\ pc = "receive" /\ state = "CONNECTED"
        /\ wire # <<>> /\ Head(wire).kind = "BINARY" /\ bytes \in Seq(Nat)
        /\ at + n + left = Len(bytes) /\ offset + n <= MaxMessage
        /\ buffer' \in Seq(Nat) /\ Len(buffer') = offset + n
        /\ Holds(buffer', offset + n, bytes, at + n)
        /\ left = 0 => wire' = Tail(wire) /\ at' = 0
        /\ left # 0 => wire' = wire /\ at' = at + n /\ n # 0
        /\ wire' \in Seq(Frame)
        /\ out' = out /\ sent' = sent /\ got' = got /\ stalled' = stalled
        /\ asked' = asked /\ answers' = answers /\ broken' = broken
    <2>1. n \in Nat /\ left \in Nat
      BY <1>0
    <2>2. PieceStored("BINARY", n, left)
      BY <1>1, <2>1, PieceEffect
    <2> QED BY <2>2 DEF PieceStored
  <1> HIDE DEF bytes
  <1>3. /\ offset' = offset + n
        /\ \/ left > MaxMessage - offset' /\ pc' = "cleanup" /\ state' = "FAILED"
           \/ left # 0 /\ pc' = pc /\ state' = state
           \/ /\ left = 0 /\ Decodes(SubSeq(buffer', 1, offset'))
              /\ pc' = "handle" /\ state' = state
           \/ /\ left = 0 /\ ~Decodes(SubSeq(buffer', 1, offset'))
              /\ pc' = "cleanup" /\ state' = "FAILED"
    BY <1>1 DEF Accept, End
  <1>4. offset = at \/ Len(got) + 1 \in stalled
    BY <1>2 DEF ClientInv, BufferHolds
  <1>5. Numbered(wire, sent, Len(got)) /\ Data(Head(wire))
    BY <1>2 DEF ClientInv, WireNumbered, Taken, Data
  <1>6. /\ Len(got) + 1 \in 1 .. Len(sent) /\ sent[Len(got) + 1] = Head(wire)
        /\ Numbered(Tail(wire), sent, Len(got) + 1)
    BY <1>0, <1>2, <1>5, NumberedHead
  <1>7. sent[Len(got) + 1].bytes = bytes
    BY <1>6 DEF bytes
  <1>8. left = 0 => /\ Len(SubSeq(buffer', 1, offset')) = offset'
                    /\ offset' = Len(bytes) => SubSeq(buffer', 1, offset') = bytes
                    /\ Holds(buffer', offset', bytes, Len(bytes))
    <2> SUFFICES ASSUME left = 0
                 PROVE  /\ Len(SubSeq(buffer', 1, offset')) = offset'
                        /\ offset' = Len(bytes) => SubSeq(buffer', 1, offset') = bytes
                        /\ Holds(buffer', offset', bytes, Len(bytes))
      OBVIOUS
    <2>1. at + n = Len(bytes) /\ offset' \in Nat
      BY <1>0, <1>2, <1>3
    <2>2. Holds(buffer', offset', bytes, Len(bytes))
      BY <1>2, <1>3, <2>1
    <2> QED BY <1>2, <2>1, <2>2, HoldsEnd
  <1>9. TypeOK'
    <2>1. /\ offset' \in 0 .. MaxMessage /\ Len(buffer') <= MaxMessage /\ at' \in Nat
      BY <1>0, <1>2, <1>3
    <2>2. pc' \in {"receive", "handle", "cleanup"} /\ state' \in {"CONNECTED", "FAILED"}
          /\ (pc' # "cleanup" => state' = "CONNECTED")
      BY <1>2, <1>3
    <2> QED BY <1>2, <2>1, <2>2 DEF ClientInv, TypeOK, Connected
  <1>10. WireNumbered'
    BY <1>2, <1>3, <1>5, <1>6 DEF WireNumbered, Taken
  <1>11. ReadSoFar'
    BY <1>0, <1>2, <1>3 DEF ReadSoFar, bytes
  <1>12. AnswersKnown'
    BY <1>2, <1>3 DEF ClientInv, AnswersKnown
  <1>13. ReceivedInOrder'
    BY <1>0, <1>2, <1>3 DEF ClientInv, ReceivedInOrder
  <1>14. BufferHolds'
    <2>1. CASE pc' = "receive"
      <3>1. left # 0
        BY <1>3, <2>1
      <3>2. wire' = wire /\ at' = at + n /\ Head(wire').bytes = bytes
            /\ Head(wire').kind = "BINARY" /\ wire' # <<>>
        BY <1>2, <3>1 DEF bytes
      <3>3. offset' = at' \/ Len(got') + 1 \in stalled'
        BY <1>0, <1>2, <1>3, <1>4, <3>2
      <3> QED BY <1>2, <1>3, <2>1, <3>2, <3>3 DEF BufferHolds
    <2>2. CASE pc' = "handle"
      <3>1. left = 0 /\ offset' # 0
        BY <1>0, <1>2, <1>3, <1>8, <2>2 DEF Decodes
      <3>2. offset' = Len(bytes) \/ Len(got') + 1 \in stalled'
        BY <1>0, <1>2, <1>3, <1>4, <3>1
      <3>3. sent'[Len(got') + 1].bytes = bytes
        BY <1>2, <1>7
      <3> QED BY <1>8, <2>2, <3>1, <3>2, <3>3 DEF BufferHolds
    <2>3. CASE pc' = "cleanup"
      BY <2>3 DEF BufferHolds
    <2> QED BY <1>2, <1>3, <2>1, <2>2, <2>3
  <1>15. GoodMessagesAccepted'
    <2> SUFFICES ASSUME pc' = "cleanup", stalled = {} PROVE ~Decodes(bytes)
      <3>1. Len(got) + 1 \in DOMAIN sent /\ sent' = sent /\ stalled' = stalled
        BY <1>0, <1>2, <1>6
      <3> QED BY <1>7, <3>1 DEF GoodMessagesAccepted
    <2>1. offset' = at + n
      BY <1>3, <1>4
    <2>2. CASE left > MaxMessage - offset'
      <3>1. Len(bytes) > MaxMessage
        BY <1>0, <1>2, <2>1, <2>2
      <3> QED BY <1>0, <3>1 DEF Decodes
    <2>3. CASE left = 0 /\ ~Decodes(SubSeq(buffer', 1, offset'))
      <3>1. offset' = Len(bytes)
        BY <1>0, <1>2, <2>1, <2>3
      <3> QED BY <1>8, <2>3, <3>1
    <2> QED BY <1>2, <1>3, <2>2, <2>3
  <1> QED BY <1>9, <1>10, <1>11, <1>12, <1>13, <1>14, <1>15 DEF ClientInv

-----------------------------------------------------------------------------
\* Nothing comes in time: what was read of a message is given up, and that is noted.
LEMMA TimeoutStep == ClientInv /\ RecvTimeout => ClientInv'
  <1> SUFFICES ASSUME ClientInv, RecvTimeout PROVE ClientInv'
    OBVIOUS
  <1>1. /\ pc = "receive" /\ offset' = 0 /\ pc' = pc /\ state' = state /\ buffer' = buffer
        /\ wire' = wire /\ at' = at /\ out' = out /\ sent' = sent /\ got' = got
        /\ asked' = asked /\ answers' = answers /\ broken' = broken
        /\ stalled' = IF at > 0 /\ Head(wire).kind = "BINARY"
                      THEN stalled \cup {Len(got) + 1} ELSE stalled
    BY DEF RecvTimeout
  <1>2. /\ wire \in Seq(Frame) /\ at \in Nat /\ Len(got) \in Nat /\ stalled \subseteq Nat
        /\ buffer \in Seq(Nat) /\ MaxMessage \in Nat
    BY ClientAssumption DEF ClientInv, TypeOK
  <1>3. stalled' \subseteq Nat /\ stalled \subseteq stalled'
    <2>1. stalled' = stalled \/ stalled' = stalled \cup {Len(got) + 1}
      BY <1>1
    <2>2. Len(got) + 1 \in Nat
      BY <1>2
    <2> HIDE DEF ClientInv
    <2> QED BY <1>2, <2>1, <2>2, Zenon
  <1>4. TypeOK'
    BY <1>1, <1>2, <1>3 DEF ClientInv, TypeOK, Connected
  <1>5. WireNumbered' /\ ReadSoFar' /\ AnswersKnown'
    BY <1>1 DEF ClientInv, WireNumbered, Taken, ReadSoFar, AnswersKnown
  <1>6. BufferHolds'
    <2>1. ASSUME wire # <<>>, Head(wire).kind = "BINARY"
          PROVE  Holds(buffer, 0, Head(wire).bytes, at) /\ (at = 0 \/ Len(got) + 1 \in stalled')
      <3>1. Len(Head(wire).bytes) \in Nat /\ at <= Len(Head(wire).bytes)
        BY <1>2, <2>1 DEF ClientInv, ReadSoFar, Frame
      <3> QED BY <1>1, <1>2, <2>1, <3>1 DEF Holds
    <2> QED BY <1>1, <2>1 DEF BufferHolds
  <1>7. ReceivedInOrder'
    BY <1>1, <1>2, <1>3 DEF ClientInv, ReceivedInOrder
  <1>8. GoodMessagesAccepted'
    BY <1>1 DEF GoodMessagesAccepted
  <1> QED BY <1>4, <1>5, <1>6, <1>7, <1>8 DEF ClientInv

\* The loop is given the message and answers it, or returns.
LEMMA HandleStep == ClientInv /\ Handle => ClientInv'
  <1> SUFFICES ASSUME ClientInv, Handle PROVE ClientInv'
    OBVIOUS
  <1> DEFINE m == sent[Len(got) + 1].bytes
             x == SubSeq(buffer, 1, offset)
             g == Len(got) + 1
  <1>1. /\ pc = "handle" /\ offset' = 0 /\ got' = Append(got, x)
        /\ \/ /\ \E a \in Answer : buffer' = a /\ asked' = Append(asked, a)
              /\ pc' = "send"
           \/ pc' = "cleanup" /\ buffer' = buffer /\ asked' = asked
        /\ state' = state /\ wire' = wire /\ at' = at /\ out' = out /\ sent' = sent
        /\ stalled' = stalled /\ answers' = answers /\ broken' = broken
    BY DEF Handle
  <1>2. /\ sent \in Seq(Frame) /\ offset \in 0 .. MaxMessage /\ buffer \in Seq(Nat)
        /\ got \in Seq(Seq(Nat)) /\ Len(got) \in Nat /\ MaxMessage \in Nat
        /\ asked \in Seq(Answer) /\ answers \in Seq(Seq(Nat)) /\ wire \in Seq(Frame)
        /\ Answer \subseteq Seq(Nat) /\ state = "CONNECTED"
        /\ \A a \in Answer : Len(a) \in 2 .. MaxMessage
    BY <1>1, ClientAssumption DEF ClientInv, TypeOK, Connected
  <1>3. Numbered(wire, sent, g)
    BY <1>1 DEF ClientInv, WireNumbered, Taken
  <1>4. g \in 1 .. Len(sent)
    BY <1>2, <1>3, NumberedBound
  <1>5. m \in Seq(Nat) /\ Len(m) \in Nat
    <2>1. sent[g] \in Frame
      BY <1>2, <1>4
    <2> QED BY <2>1 DEF Frame
  <1>6. /\ Holds(buffer, offset, m, Len(m)) /\ offset # 0
        /\ offset = Len(m) \/ g \in stalled
    BY <1>1 DEF ClientInv, BufferHolds
  <1> HIDE DEF m
  <1>7. x \in Seq(Nat) /\ x = SubSeq(m, Len(m) - offset + 1, Len(m))
        /\ (offset = Len(m) => x = m)
    <2>1. offset \in Nat
      BY <1>2
    <2> QED BY <1>2, <1>5, <1>6, <2>1, HoldsEnd
  <1>8. x = m \/ (g \in stalled /\ \E i \in 2 .. Len(m) : x = SubSeq(m, i, Len(m)))
    <2> SUFFICES ASSUME offset # Len(m)
                 PROVE  g \in stalled /\ \E i \in 2 .. Len(m) : x = SubSeq(m, i, Len(m))
      BY <1>7
    <2>1. Len(m) - offset + 1 \in 2 .. Len(m)
      BY <1>2, <1>5, <1>6 DEF Holds
    <2> QED BY <1>6, <1>7, <2>1
  <1> HIDE DEF x
  <1>9. /\ got' \in Seq(Seq(Nat)) /\ Len(got') = g /\ got'[g] = x
        /\ \A k \in 1 .. Len(got) : got'[k] = got[k]
    BY <1>1, <1>2, <1>7
  <1>10. \/ /\ pc' = "send" /\ buffer' \in Answer /\ asked' = Append(asked, buffer')
         \/ pc' = "cleanup" /\ buffer' = buffer /\ asked' = asked
    BY <1>1
  <1>11. TypeOK'
    <2>1. buffer' \in Seq(Nat) /\ Len(buffer') <= MaxMessage /\ asked' \in Seq(Answer)
      <3>1. CASE pc' = "send"
        <4>1. buffer' \in Answer /\ asked' = Append(asked, buffer')
          BY <1>10, <3>1
        <4>2. Len(buffer') \in 2 .. MaxMessage /\ buffer' \in Seq(Nat)
          BY <1>2, <4>1
        <4>3. asked' \in Seq(Answer)
          BY <1>2, <4>1
        <4> QED BY <1>2, <4>2, <4>3
      <3>2. CASE pc' = "cleanup"
        BY <1>2, <1>10, <3>2 DEF ClientInv, TypeOK
      <3> QED BY <1>10, <3>1, <3>2
    <2>2. offset' \in 0 .. MaxMessage /\ pc' \in {"send", "cleanup"}
      BY <1>1, <1>2
    <2> QED BY <1>1, <1>2, <1>9, <2>1, <2>2 DEF ClientInv, TypeOK, Connected
  <1>12. WireNumbered' /\ ReadSoFar' /\ BufferHolds'
    BY <1>1, <1>3, <1>9, <1>10 DEF ClientInv, WireNumbered, Taken, ReadSoFar, BufferHolds
  <1>13. AnswersKnown'
    <2>1. /\ Len(answers) = Len(asked) /\ out = <<>>
          /\ \A k \in DOMAIN answers : k \in DOMAIN asked /\ answers[k] = asked[k]
      BY <1>1 DEF ClientInv, AnswersKnown
    <2>2. CASE pc' = "send"
      <3>1. /\ asked' = Append(asked, buffer') /\ buffer' \in Answer
            /\ Len(buffer') \in Nat \ {0}
        BY <1>2, <1>10, <2>2
      <3>2. /\ Len(asked') = Len(asked) + 1 /\ asked'[Len(asked')] = buffer'
            /\ \A k \in DOMAIN asked : k \in DOMAIN asked' /\ asked'[k] = asked[k]
        <4>1. DOMAIN asked = 1 .. Len(asked) /\ Len(asked) \in Nat
          BY <1>2
        <4>2. Len(asked') = Len(asked) + 1 /\ asked'[Len(asked) + 1] = buffer'
          BY <1>2, <3>1
        <4>3. asked' \in Seq(Answer)
          BY <1>2, <3>1
        <4>4. DOMAIN asked' = 1 .. Len(asked) + 1
          BY <4>2, <4>3
        <4>5. \A k \in 1 .. Len(asked) : asked'[k] = asked[k]
          BY <1>2, <3>1
        <4> QED BY <4>1, <4>2, <4>4, <4>5
      <3>3. offset' < Len(buffer') /\ Len(out') = offset' /\ 1 .. offset' = {}
        BY <1>1, <2>1, <3>1
      <3> QED BY <1>1, <2>1, <2>2, <3>2, <3>3 DEF AnswersKnown
    <2>3. CASE pc' = "cleanup"
      BY <1>1, <1>10, <2>1, <2>3 DEF AnswersKnown
    <2> QED BY <1>10, <2>2, <2>3
  <1>14. ReceivedInOrder'
    <2>1. offset' <= MaxMessage /\ Len(buffer') <= MaxMessage
      BY <1>2, <1>11 DEF TypeOK
    <2>2. Len(got') <= Len(sent')
      BY <1>1, <1>4, <1>9
    <2>3. ASSUME NEW k \in DOMAIN got'
          PROVE  \/ got'[k] = sent'[k].bytes
                 \/ /\ k \in stalled'
                    /\ \E i \in 2 .. Len(sent'[k].bytes) :
                          got'[k] = SubSeq(sent'[k].bytes, i, Len(sent'[k].bytes))
      <3>1. CASE k = g
        BY <1>1, <1>8, <1>9, <3>1 DEF m
      <3>2. CASE k \in 1 .. Len(got)
        BY <1>1, <1>2, <1>9, <3>2 DEF ClientInv, ReceivedInOrder
      <3>3. k \in 1 .. g
        BY <1>2, <1>9
      <3>4. k = g \/ k \in 1 .. Len(got)
        BY <1>2, <3>3
      <3> QED BY <3>1, <3>2, <3>4, Zenon
    <2> QED BY <2>1, <2>2, <2>3 DEF ReceivedInOrder
  <1>15. GoodMessagesAccepted'
    BY <1>1, <1>2 DEF GoodMessagesAccepted
  <1> QED BY <1>11, <1>12, <1>13, <1>14, <1>15 DEF ClientInv

\* A piece of the answer is sent.
LEMMA SendStep == ClientInv /\ SendPiece => ClientInv'
  <1> SUFFICES ASSUME ClientInv, SendPiece PROVE ClientInv'
    OBVIOUS
  <1>0. /\ pc = "send" /\ state' = state /\ buffer' = buffer /\ wire' = wire /\ at' = at
        /\ sent' = sent /\ got' = got /\ stalled' = stalled /\ asked' = asked
        /\ broken' = broken
    BY DEF SendPiece
  <1>1. /\ buffer \in Seq(Nat) /\ Len(buffer) \in Nat /\ out \in Seq(Nat)
        /\ offset \in 0 .. MaxMessage /\ Len(buffer) <= MaxMessage /\ MaxMessage \in Nat
        /\ asked \in Seq(Answer) /\ answers \in Seq(Seq(Nat)) /\ state = "CONNECTED"
    BY <1>0, ClientAssumption DEF ClientInv, TypeOK, Connected
  <1>2. /\ Len(asked) = Len(answers) + 1 /\ buffer = asked[Len(asked)]
        /\ offset < Len(buffer) /\ Len(out) = offset
        /\ \A i \in 1 .. offset : out[i] = buffer[i]
        /\ \A k \in DOMAIN answers : k \in DOMAIN asked /\ answers[k] = asked[k]
    BY <1>0 DEF ClientInv, AnswersKnown
  <1>3. PICK n \in 1 .. Len(buffer) - offset :
           LET arrived == out \o SubSeq(buffer, offset + 1, offset + n)
               whole == Len(arrived) >= Len(buffer)
           IN  /\ out' = IF whole THEN <<>> ELSE arrived
               /\ answers' = IF whole THEN Append(answers, arrived) ELSE answers
               /\ IF Advanced(n) < Len(buffer)
                  THEN offset' = Advanced(n) /\ UNCHANGED pc
                  ELSE offset' = 0 /\ pc' \in {"receive", "cleanup"}
    BY DEF SendPiece
  <1> DEFINE arrived == out \o SubSeq(buffer, offset + 1, offset + n)
             total == offset + n
  <1>4. /\ out' = IF Len(arrived) >= Len(buffer) THEN <<>> ELSE arrived
        /\ answers' = IF Len(arrived) >= Len(buffer) THEN Append(answers, arrived) ELSE answers
        /\ IF total < Len(buffer) THEN offset' = total /\ pc' = pc
           ELSE offset' = 0 /\ pc' \in {"receive", "cleanup"}
    BY <1>3, Zenon DEF Advanced
  <1>5. /\ n \in Nat \ {0} /\ offset \in Nat /\ total \in Nat /\ total <= Len(buffer)
    BY <1>1, <1>2
  <1>6. Holds(out, offset, buffer, offset)
    <2>1. \A i \in 1 .. offset : offset - offset + i = i
      BY <1>5
    <2> QED BY <1>1, <1>2, <1>5, <2>1 DEF Holds
  <1>7. Stored(out, offset, buffer, offset, n) = arrived
    <2>1. SubSeq(out, 1, offset) = out
      BY <1>1, <1>2, SubSeqFull
    <2> QED BY <2>1 DEF Stored
  <1>8. arrived \in Seq(Nat) /\ Len(arrived) = total /\ Holds(arrived, total, buffer, total)
    <2>1. /\ Stored(out, offset, buffer, offset, n) \in Seq(Nat)
          /\ Len(Stored(out, offset, buffer, offset, n)) = offset + n
          /\ Holds(Stored(out, offset, buffer, offset, n), offset + n, buffer, offset + n)
      BY <1>1, <1>5, <1>6, HoldsMore
    <2> QED BY <1>7, <2>1
  <1> HIDE DEF arrived, total
  <1>9. total = Len(buffer) => arrived = buffer
    <2> SUFFICES ASSUME total = Len(buffer) PROVE arrived = buffer
      OBVIOUS
    <2>1. SubSeq(arrived, 1, total) = buffer
      BY <1>1, <1>5, <1>8, HoldsEnd
    <2>2. SubSeq(arrived, 1, total) = arrived
      BY <1>8, SubSeqFull
    <2> QED BY <2>1, <2>2
  <1>10. \/ /\ total < Len(buffer) /\ out' = arrived /\ answers' = answers
            /\ offset' = total /\ pc' = pc
         \/ /\ total = Len(buffer) /\ out' = <<>> /\ answers' = Append(answers, buffer)
            /\ offset' = 0 /\ pc' \in {"receive", "cleanup"}
    BY <1>1, <1>4, <1>5, <1>8, <1>9
  <1>11. TypeOK'
    <2>1. /\ out' \in Seq(Nat) /\ answers' \in Seq(Seq(Nat)) /\ offset' \in 0 .. MaxMessage
          /\ pc' \in {"send", "receive", "cleanup"}
      <3>1. Append(answers, buffer) \in Seq(Seq(Nat)) /\ <<>> \in Seq(Nat)
        BY <1>1
      <3>2. total \in 0 .. MaxMessage /\ 0 \in 0 .. MaxMessage
        BY <1>1, <1>5
      <3> QED BY <1>0, <1>1, <1>8, <1>10, <3>1, <3>2, Zenon
    <2> QED BY <1>0, <1>1, <2>1 DEF ClientInv, TypeOK, Connected
  <1>12. WireNumbered' /\ ReadSoFar'
    BY <1>0, <1>10 DEF ClientInv, WireNumbered, Taken, ReadSoFar
  <1>13. BufferHolds'
    <2>1. pc' = "receive" => offset' = 0 /\ at' = 0 /\ wire' \in Seq(Frame)
      BY <1>0, <1>10 DEF ClientInv, ReadSoFar, TypeOK
    <2>2. wire' \in Seq(Frame) /\ wire' # <<>> => Len(Head(wire').bytes) \in Nat
      BY DEF Frame
    <2>3. ASSUME NEW bytes, Len(bytes) \in Nat PROVE Holds(buffer', 0, bytes, 0)
      BY <1>0, <1>1, <2>3 DEF Holds
    <2>4. pc' \notin {"init", "connect", "handle"}
      BY <1>0, <1>10
    <2> QED BY <2>1, <2>2, <2>3, <2>4 DEF BufferHolds
  <1>14. AnswersKnown'
    <2>1. CASE /\ total < Len(buffer) /\ out' = arrived /\ answers' = answers
               /\ offset' = total /\ pc' = pc
      <3>1. \A i \in 1 .. total : total - total + i = i
        BY <1>5
      <3>2. \A i \in 1 .. total : arrived[i] = buffer[i]
        BY <1>8, <3>1 DEF Holds
      <3> QED BY <1>0, <1>2, <1>8, <2>1, <3>2 DEF AnswersKnown
    <2>2. CASE /\ out' = <<>> /\ answers' = Append(answers, buffer)
               /\ pc' \in {"receive", "cleanup"}
      <3>1. /\ Len(answers) \in Nat /\ Len(answers') = Len(asked)
            /\ answers'[Len(asked)] = buffer
            /\ \A k \in DOMAIN answers' : k \in DOMAIN answers \/ k = Len(asked)
            /\ \A k \in DOMAIN answers : answers'[k] = answers[k]
        BY <1>1, <1>2, <2>2
      <3>2. Len(asked) \in DOMAIN asked
        BY <1>1, <1>2
      <3> QED BY <1>0, <1>2, <2>2, <3>1, <3>2 DEF AnswersKnown
    <2> QED BY <1>10, <2>1, <2>2
  <1>15. ReceivedInOrder'
    <2>1. offset' <= MaxMessage
      BY <1>1, <1>11 DEF TypeOK
    <2> QED BY <1>0, <2>1 DEF ClientInv, ReceivedInOrder
  <1>16. GoodMessagesAccepted'
    BY <1>0, <1>1 DEF GoodMessagesAccepted
  <1> QED BY <1>11, <1>12, <1>13, <1>14, <1>15, <1>16 DEF ClientInv

-----------------------------------------------------------------------------
\* The theorems.

\* The invariant holds of a client that is not set up yet.
LEMMA ClientStart == Init => ClientInv
  <1> SUFFICES ASSUME Init PROVE ClientInv
    OBVIOUS
  <1>1. TypeOK
    <2>1. offset \in 0 .. MaxMessage /\ Len(buffer) <= MaxMessage /\ at \in Nat
      BY ClientAssumption DEF Init
    <2>2. /\ buffer \in Seq(Nat) /\ out \in Seq(Nat) /\ wire \in Seq(Frame)
          /\ sent \in Seq(Frame) /\ got \in Seq(Seq(Nat)) /\ asked \in Seq(Answer)
          /\ answers \in Seq(Seq(Nat))
      BY DEF Init
    <2> QED BY <2>1, <2>2 DEF Init, TypeOK, Connected
  <1>2. WireNumbered
    <2>1. Numbered(<<>>, <<>>, 0)
      <3>1. <<>> \in Seq(Frame) /\ Len(<<>>) = 0
        OBVIOUS
      <3> QED BY <3>1, NumberedEmpty
    <2>2. Taken = 0
      BY DEF Init, Taken
    <2> QED BY <2>1, <2>2 DEF Init, WireNumbered
  <1>3. ReadSoFar /\ BufferHolds /\ AnswersKnown
    BY DEF Init, ReadSoFar, BufferHolds, AnswersKnown
  <1>4. ReceivedInOrder /\ GoodMessagesAccepted
    BY ClientAssumption DEF Init, ReceivedInOrder, GoodMessagesAccepted
  <1> QED BY <1>1, <1>2, <1>3, <1>4 DEF ClientInv

\* Every step of client and relay keeps it.
LEMMA ClientNext == ClientInv /\ [Next]_vars => ClientInv'
  <1> SUFFICES ASSUME ClientInv, [Next]_vars PROVE ClientInv'
    OBVIOUS
  <1>1. CASE UNCHANGED vars
    <2>1. TypeOK' /\ WireNumbered' /\ ReadSoFar' /\ BufferHolds' /\ AnswersKnown'
      BY <1>1 DEF ClientInv, vars, local, history, TypeOK, Connected, WireNumbered, Taken,
                  ReadSoFar, BufferHolds, AnswersKnown
    <2>2. ReceivedInOrder' /\ GoodMessagesAccepted'
      BY <1>1 DEF ClientInv, vars, local, history, ReceivedInOrder, GoodMessagesAccepted
    <2> QED BY <2>1, <2>2 DEF ClientInv
  <1> QED BY <1>1, QuietSteps, RelaySteps, OtherFrames, BinaryFrames, TimeoutStep, HandleStep,
             SendStep DEF Next, Recv

\* The inductive invariant of the relay client.
THEOREM ClientInvariant == Spec => []ClientInv
  BY ClientStart, ClientNext, PTL DEF Spec

\* The loop is given the messages of the relay in order and whole, however they are cut
\* into pieces; only of one that stalled may it be given just the end
\* (pd_win32_relay_client_receive_frame).
THEOREM MessagesInOrder == Spec => []ReceivedInOrder
  <1>1. ClientInv => ReceivedInOrder
    BY DEF ClientInv
  <1> QED BY <1>1, ClientInvariant, PTL

\* The relay receives the answers whole and in order, in whatever pieces curl takes
\* them (pd_win32_relay_client_send_frame).
THEOREM AnswersAreWhole == Spec => []AnswersWhole
  <1>1. ClientInv => AnswersWhole
    <2> SUFFICES ASSUME ClientInv PROVE AnswersWhole
      OBVIOUS
    <2>1. /\ \A k \in DOMAIN answers : answers[k] = asked[k]
          /\ \/ Len(answers) = Len(asked) \/ Len(asked) = Len(answers) + 1
             \/ Len(answers) \in {Len(asked), Len(asked) - 1}
      BY DEF ClientInv, AnswersKnown
    <2>2. Len(answers) \in Nat /\ Len(asked) \in Nat
      BY DEF ClientInv, TypeOK
    <2> QED BY <2>1, <2>2 DEF AnswersWhole
  <1> QED BY <1>1, ClientInvariant, PTL

\* Without a failing call, a stall or a bad frame the client does not fail: no
\* well-formed message is refused for its size or its pieces.
THEOREM GoodMessagesTaken == Spec => []GoodMessagesAccepted
  <1>1. ClientInv => GoodMessagesAccepted
    BY DEF ClientInv
  <1> QED BY <1>1, ClientInvariant, PTL
=============================================================================
