-------------------------- MODULE ContextWindowProofs --------------------------
(***************************************************************************)
(* Proofs about ContextWindow, for any budgets load_settings accepts, any  *)
(* texts and calls, and logs of any length the run loop can write.         *)
(***************************************************************************)
EXTENDS ContextWindow, Induction

---------------------------------------------------------------------------
(* Lengths *)

Msg == [at : Nat, role : {"user", "assistant", "tool"}, content : Nat,
        calls : Nat, summary : Nat, of : Nat]

\* The sums a list of numbers runs through.
Sums(f, N, of) == f \in [0..N -> Nat] /\ f[0] = 0 /\ \A n \in 1..N : f[n] = f[n - 1] + of[n]

\* A list of numbers runs through sums.
LEMMA SumsExist ==
    ASSUME NEW N \in Nat, NEW of \in [1..N -> Nat]
    PROVE  \E f : Sums(f, N, of)
<1>1. PICK A, base, step : /\ A = Nat /\ base = 0
                           /\ step = [p \in A \X (1..N) |-> p[1] + of[p[2]]]
  OBVIOUS
<1>2. step \in [A \X (1..N) -> A]
  <2>1. \A p \in A \X (1..N) : p[1] + of[p[2]] \in A
    BY <1>1
  <2>2. QED
    BY <1>1, <2>1
<1>3. base \in A
  BY <1>1
<1>4. PICK f : Carries(f, A, base, step, N)
  BY <1>2, <1>3, Carried
<1>5. ASSUME NEW n \in 1..N PROVE f[n] = f[n - 1] + of[n]
  <2>1. PICK p : p = <<f[n - 1], n>>
    OBVIOUS
  <2>2. n - 1 \in 0..N
    OBVIOUS
  <2>3. p \in A \X (1..N) /\ p[1] = f[n - 1] /\ p[2] = n
    BY <1>4, <2>1, <2>2 DEF Carries
  <2>4. f[n] = step[p]
    BY <1>4, <2>1 DEF Carries
  <2>5. QED
    BY <1>1, <2>3, <2>4
<1>6. QED
  BY <1>1, <1>4, <1>5 DEF Carries, Sums

\* The texts and calls of messages weigh the sum of what each weighs.
Weights(messages) == [n \in 1..Len(messages) |-> messages[n].content + messages[n].calls]

\* Messages weigh numbers.
LEMMA WeightTypes ==
    ASSUME NEW messages \in Seq(Msg)
    PROVE  /\ Len(messages) \in Nat /\ Weights(messages) \in [1..Len(messages) -> Nat]
           /\ \A n \in 1..Len(messages) : messages[n] \in Msg
<1>1. Len(messages) \in Nat /\ \A n \in 1..Len(messages) : messages[n] \in Msg
  BY LenProperties, ElementOfSeq
<1>2. \A n \in 1..Len(messages) : messages[n].content + messages[n].calls \in Nat
  <2>1. \A m \in Msg : m.content + m.calls \in Nat
    BY DEF Msg
  <2>2. QED
    BY <1>1, <2>1
<1>3. QED
  BY <1>1, <1>2 DEF Weights

\* Chars is the last of the sums of what the messages weigh.
LEMMA CharsSum ==
    ASSUME NEW messages \in Seq(Msg)
    PROVE  \E f : Sums(f, Len(messages), Weights(messages)) /\ Chars(messages) = f[Len(messages)]
<1>1. PICK N : N = Len(messages)
  OBVIOUS
<1> DEFINE Body(g, n) == IF n = 0 THEN 0 ELSE g[n - 1] + messages[n].content + messages[n].calls
<1>2. /\ N \in Nat /\ Weights(messages) \in [1..N -> Nat]
      /\ \A n \in 1..N : messages[n] \in Msg
  BY <1>1, WeightTypes
<1>3. PICK f : Sums(f, N, Weights(messages))
  BY <1>2, SumsExist
<1>4. \A n \in 1..N : messages[n].content \in Nat /\ messages[n].calls \in Nat
                      /\ Weights(messages)[n] = messages[n].content + messages[n].calls
  BY <1>1, <1>2 DEF Msg, Weights
<1>5. ASSUME NEW n \in 0..N PROVE f[n] = Body(f, n)
  <2>1. CASE n = 0
    BY <1>3, <2>1 DEF Sums
  <2>2. CASE n # 0
    <3>1. n \in 1..N /\ n - 1 \in 0..N /\ f[n - 1] \in Nat
      BY <1>2, <1>3, <2>2 DEF Sums
    <3>2. f[n] = f[n - 1] + (messages[n].content + messages[n].calls)
      BY <1>3, <1>4, <3>1 DEF Sums
    <3>3. QED
      BY <1>4, <2>2, <3>1, <3>2
  <2>3. QED
    BY <2>1, <2>2
<1>6. f = [n \in 0..N |-> Body(f, n)]
  <2> HIDE DEF Body
  <2>1. f = [n \in 0..N |-> f[n]]
    BY <1>3 DEF Sums
  <2>2. QED
    BY <1>5, <2>1
<1>7. PICK c : c = CHOOSE g : g = [n \in 0..N |-> Body(g, n)]
  OBVIOUS
<1>8. c = [n \in 0..N |-> Body(c, n)]
  <2> HIDE DEF Body
  <2>1. \E g : g = [n \in 0..N |-> Body(g, n)]
    BY <1>6
  <2>2. QED
    BY <1>7, <2>1
<1>9. Chars(messages) = c[N]
  BY <1>1, <1>7 DEF Chars
<1>10. StepAlike(c, f, N)
  <2>1. 0 \in 0..N /\ \A n \in 0..(N - 1) : n + 1 \in 0..N /\ n + 1 # 0 /\ (n + 1) - 1 = n
    BY <1>2
  <2>2. c[0] = 0 /\ f[0] = 0
    BY <1>3, <1>8, <2>1 DEF Sums
  <2>3. ASSUME NEW n \in 0..(N - 1), c[n] = f[n] PROVE c[n + 1] = f[n + 1]
    <3>1. c[n + 1] = Body(c, n + 1)
      <4> HIDE DEF Body
      <4>1. QED
        BY <1>8, <2>1
    <3>2. f[n + 1] = Body(f, n + 1)
      <4> HIDE DEF Body
      <4>1. QED
        BY <1>5, <2>1
    <3>3. QED
      BY <2>1, <2>3, <3>1, <3>2
  <2>4. QED
    <3> HIDE DEF Body
    <3>1. QED
      BY <2>2, <2>3 DEF StepAlike
<1>11. c[N] = f[N]
  <2>1. \A n \in 0..N : c[n] = f[n]
    <3> HIDE DEF Body
    <3>1. QED
      BY <1>2, <1>10, SameValues DEF SameUpto
  <2>2. QED
    BY <1>2, <2>1
<1>12. QED
  BY <1>1, <1>3, <1>9, <1>11

Joined(all, of, M, more, N) ==
    (\A n \in 1..M : all[n] = of[n]) /\ \A n \in 1..N : all[M + n] = more[n]

\* The sums of a list that goes on: those of the first list, then those of the second on top.
LEMMA SumsGoOn ==
    ASSUME NEW M \in Nat, NEW N \in Nat, NEW a, NEW b, NEW c,
           NEW of, NEW more \in [1..N -> Nat], NEW all,
           Sums(a, M, of), Sums(b, N, more), Sums(c, M + N, all),
           Joined(all, of, M, more, N)
    PROVE  c[M + N] = a[M] + b[N]
<1>1. \A n \in 0..M : c[n] = a[n]
  <2>1. c[0] = a[0]
    BY DEF Sums
  <2>2. ASSUME NEW n \in 0..(M - 1), c[n] = a[n] PROVE c[n + 1] = a[n + 1]
    <3>1. n + 1 \in 1..M /\ n + 1 \in 1..(M + N) /\ (n + 1) - 1 = n
      OBVIOUS
    <3>2. c[n + 1] = c[n] + all[n + 1] /\ a[n + 1] = a[n] + of[n + 1] /\ all[n + 1] = of[n + 1]
      BY <3>1 DEF Sums, Joined
    <3>3. QED
      BY <2>2, <3>1, <3>2
  <2>3. StepAlike(c, a, M)
    BY <2>1, <2>2 DEF StepAlike
  <2>4. QED
    BY <2>3, SameValues DEF SameUpto
<1> DEFINE S == {n \in 0..N : c[M + n] = a[M] + b[n]}
<1>2. 0 \in S
  <2>1. c[M + 0] = a[M] /\ b[0] = 0 /\ a[M] \in Nat
    BY <1>1 DEF Sums
  <2>2. QED
    BY <2>1
<1>3. ASSUME NEW n \in 0..(N - 1), n \in S PROVE n + 1 \in S
  <2>1. /\ n + 1 \in 1..N /\ (n + 1) - 1 = n /\ M + (n + 1) \in 1..(M + N)
        /\ (M + (n + 1)) - 1 = M + n /\ M \in 0..M /\ n \in 0..N
    OBVIOUS
  <2>2. PICK i : i = M + (n + 1)
    OBVIOUS
  <2>3. c[i] = c[i - 1] + all[i] /\ i - 1 = M + n
    BY <2>1, <2>2 DEF Sums
  <2>4. b[n + 1] = b[n] + more[n + 1] /\ all[i] = more[n + 1]
    BY <2>1, <2>2 DEF Sums, Joined
  <2>5. a[M] \in Nat /\ b[n] \in Nat /\ more[n + 1] \in Nat /\ c[M + n] = a[M] + b[n]
    BY <1>3, <2>1 DEF Sums
  <2>6. c[i] = a[M] + b[n + 1]
    BY <2>3, <2>4, <2>5
  <2>7. QED
    BY <2>1, <2>2, <2>6
<1>4. 0..N \subseteq S
  <2> HIDE DEF S
  <2>1. QED
    BY <1>2, <1>3, BoundedInduction
<1>5. QED
  BY <1>4

\* What messages weigh is a number.
LEMMA CharsNat == \A messages \in Seq(Msg) : Chars(messages) \in Nat
<1> SUFFICES ASSUME NEW messages \in Seq(Msg) PROVE Chars(messages) \in Nat
  OBVIOUS
<1>1. PICK f : Sums(f, Len(messages), Weights(messages)) /\ Chars(messages) = f[Len(messages)]
  BY CharsSum
<1>2. QED
  BY <1>1, WeightTypes DEF Sums

\* What two lists of messages weigh together is the sum of what each weighs.
LEMMA CharsConcat ==
    ASSUME NEW s \in Seq(Msg), NEW t \in Seq(Msg)
    PROVE  s \o t \in Seq(Msg) /\ Chars(s \o t) = Chars(s) + Chars(t)
<1>1. PICK u : u = s \o t
  OBVIOUS
<1>2. PICK M, N : M = Len(s) /\ N = Len(t)
  OBVIOUS
<1>3. /\ M \in Nat /\ N \in Nat /\ u \in Seq(Msg) /\ Len(u) = M + N
      /\ \A n \in 1..(M + N) : u[n] = IF n <= M THEN s[n] ELSE t[n - M]
  BY <1>1, <1>2, LenProperties, ConcatProperties
<1>4. PICK a, of : Sums(a, M, of) /\ Chars(s) = a[M] /\ of = Weights(s)
  BY <1>2, CharsSum
<1>5. PICK b, more : Sums(b, N, more) /\ Chars(t) = b[N] /\ more = Weights(t)
  BY <1>2, CharsSum
<1>6. PICK c, all : Sums(c, M + N, all) /\ Chars(u) = c[M + N] /\ all = Weights(u)
  BY <1>3, CharsSum
<1>7. \A n \in 1..M : all[n] = of[n]
  BY <1>2, <1>3, <1>4, <1>6 DEF Weights
<1>8. ASSUME NEW n \in 1..N PROVE all[M + n] = more[n]
  <2>1. M + n \in 1..(M + N) /\ ~(M + n <= M) /\ (M + n) - M = n
    BY <1>3
  <2>2. u[M + n] = t[n]
    BY <1>3, <2>1
  <2>3. QED
    BY <1>2, <1>3, <1>5, <1>6, <2>1, <2>2 DEF Weights
<1>9. c[M + N] = a[M] + b[N]
  <2>1. more \in [1..N -> Nat] /\ M \in Nat /\ N \in Nat
    BY <1>2, <1>5, WeightTypes
  <2>2. Sums(a, M, of) /\ Sums(b, N, more) /\ Sums(c, M + N, all)
    BY <1>4, <1>5, <1>6
  <2>3. Joined(all, of, M, more, N)
    BY <1>7, <1>8 DEF Joined
  <2>4. QED
    BY <2>1, <2>2, <2>3, SumsGoOn
<1>10. QED
  BY <1>1, <1>3, <1>4, <1>5, <1>6, <1>9

\* No message weighs nothing, and one weighs its text and its calls.
LEMMA CharsFew ==
    /\ Chars(<<>>) = 0
    /\ \A m \in Msg : <<m>> \in Seq(Msg) /\ Chars(<<m>>) = m.content + m.calls
<1>1. Chars(<<>>) = 0
  <2>1. PICK s : s = <<>>
    OBVIOUS
  <2>2. s \in Seq(Msg) /\ Len(s) = 0
    BY <2>1, EmptySeq
  <2>3. QED
    BY <2>1, <2>2, CharsSum DEF Sums
<1>2. ASSUME NEW m \in Msg PROVE <<m>> \in Seq(Msg) /\ Chars(<<m>>) = m.content + m.calls
  <2>1. PICK s : s = <<m>>
    OBVIOUS
  <2>2. s \in Seq(Msg) /\ Len(s) = 1 /\ s[1] = m
    BY <2>1
  <2>3. PICK f, of : Sums(f, 1, of) /\ Chars(s) = f[1] /\ of = Weights(s)
    BY <2>2, CharsSum
  <2>4. of[1] = m.content + m.calls /\ m.content + m.calls \in Nat
    BY <2>2, <2>3 DEF Weights, Msg
  <2>5. f[1] = f[1 - 1] + of[1] /\ f[0] = 0
    BY <2>3 DEF Sums
  <2>6. QED
    BY <2>1, <2>2, <2>3, <2>4, <2>5
<1>3. QED
  BY <1>1, <1>2

---------------------------------------------------------------------------
(* Messages and turns that are cut *)

\* x is m with its texts cut, or its calls summarised.
Cut(x, m) ==
    x \in Msg /\ x.at = m.at /\ x.role = m.role /\ x.of = m.of /\ x.content <= m.content

CutEach(new, turn) == \A i \in 1..Len(new) : Cut(new[i], turn[i])

\* Integer division gives integers.
LEMMA DivInt == \A a \in Int : \A n \in Nat \ {0} : a \div n \in Int
  OBVIOUS

\* A message is cut to a limit; one without calls then weighs no more than that.
LEMMA MessageCut ==
    ASSUME NEW m \in Msg, NEW limit \in Int, NEW x, x = BoundMessage(m, limit)
    PROVE  /\ Cut(x, m)
           /\ limit \in Nat /\ m.calls = 0 /\ m.summary = 0 => x.content + x.calls <= limit
<1>1. PICK calls, content : /\ calls = IF m.calls > limit \div 2 THEN m.summary ELSE m.calls
                            /\ content = Truncated(m.content, Greatest(0, limit - calls))
  OBVIOUS
<1>2. m.calls \in Nat /\ m.summary \in Nat /\ m.content \in Nat
  BY DEF Msg
<1>3. calls \in {m.calls, m.summary} /\ calls \in Nat
  BY <1>1, <1>2
<1>4. content \in Nat /\ content <= m.content
  BY <1>1, <1>2, <1>3 DEF Truncated, Greatest
<1>5. x = [m EXCEPT !.calls = calls, !.content = content]
  BY <1>1 DEF BoundMessage
<1>6. Cut(x, m)
  BY <1>3, <1>4, <1>5 DEF Cut, Msg
<1>7. ASSUME limit \in Nat, m.calls = 0, m.summary = 0 PROVE x.content + x.calls <= limit
  <2>1. calls = 0
    BY <1>3, <1>7
  <2>2. content <= limit
    BY <1>1, <1>2, <1>7, <2>1 DEF Truncated, Greatest
  <2>3. x.content = content /\ x.calls = 0
    BY <1>5, <2>1 DEF Msg
  <2>4. QED
    BY <1>4, <1>7, <2>2, <2>3
<1>8. QED
  BY <1>6, <1>7

\* A turn whose messages are each cut has as many messages, each cut.
LEMMA EachCut ==
    ASSUME NEW turn \in Seq(Msg), NEW limit \in Int, NEW new, new = BoundEach(turn, limit)
    PROVE  new \in Seq(Msg) /\ Len(new) = Len(turn) /\ CutEach(new, turn)
<1>1. Len(turn) \in Nat /\ DOMAIN turn = 1..Len(turn) /\ \A i \in 1..Len(turn) : turn[i] \in Msg
  BY LenProperties, ElementOfSeq
<1>2. \A i \in 1..Len(turn) : Cut(BoundMessage(turn[i], limit), turn[i])
  BY <1>1, MessageCut
<1>3. PICK N : N = Len(turn)
  OBVIOUS
<1>4. new = [i \in 1..N |-> BoundMessage(turn[i], limit)]
  BY <1>1, <1>3 DEF BoundEach
<1>5. \A i \in 1..N : new[i] = BoundMessage(turn[i], limit) /\ new[i] \in Msg
  BY <1>2, <1>3, <1>4 DEF Cut
<1>6. new \in [1..N -> Msg]
  BY <1>4, <1>5
<1>7. new \in Seq(Msg) /\ Len(new) = N
  BY <1>1, <1>3, <1>6
<1>8. QED
  BY <1>2, <1>3, <1>5, <1>7 DEF CutEach

\* A turn that begins with a message without calls.
Turn == {turn \in Seq(Msg) : Len(turn) > 0 /\ turn[1].calls = 0 /\ turn[1].summary = 0}

\* The latest turn is made to fit: cut, cut again or down to its first message.
LEMMA LatestCut ==
    ASSUME ContextAssumption, NEW turn \in Turn, NEW room \in Nat \ {0},
           NEW new, new = BoundLatest(turn, room)
    PROVE  /\ new \in Seq(Msg) /\ Chars(new) <= room /\ Len(new) \in {1, Len(turn)}
           /\ CutEach(new, turn)
<1>1. /\ turn \in Seq(Msg) /\ Len(turn) \in Nat \ {0} /\ turn[1] \in Msg
      /\ turn[1].calls = 0 /\ turn[1].summary = 0
  BY LenProperties, ElementOfSeq DEF Turn
<1>2. PICK limit : limit = Least(MaxMessage, Greatest(1, room \div Len(turn)))
  OBVIOUS
<1>3. limit \in Int
  <2>1. room \div Len(turn) \in Int /\ MaxMessage \in Int
    BY <1>1, DivInt DEF ContextAssumption
  <2>2. QED
    BY <1>2, <2>1 DEF Least, Greatest
<1>4. PICK first : first = BoundEach(turn, limit)
  OBVIOUS
<1>5. first \in Seq(Msg) /\ Len(first) = Len(turn) /\ CutEach(first, turn)
  BY <1>1, <1>3, <1>4, EachCut
<1>6. PICK more : more = Greatest(1, limit - ((Chars(first) - room + Len(turn) - 1) \div Len(turn)))
  OBVIOUS
<1>7. more \in Int
  <2>1. Chars(first) \in Nat
    BY <1>5, CharsNat
  <2>2. Chars(first) - room + Len(turn) - 1 \in Int
    BY <1>1, <2>1
  <2>3. (Chars(first) - room + Len(turn) - 1) \div Len(turn) \in Int
    BY <1>1, <2>2, DivInt
  <2>4. QED
    BY <1>3, <1>6, <2>3 DEF Greatest
<1>8. PICK second : second = BoundEach(turn, more)
  OBVIOUS
<1>9. second \in Seq(Msg) /\ Len(second) = Len(turn) /\ CutEach(second, turn)
  BY <1>1, <1>7, <1>8, EachCut
<1>10. PICK last, x : x = BoundMessage(turn[1], room) /\ last = <<x>>
  OBVIOUS
<1>11. last \in Seq(Msg) /\ Len(last) = 1 /\ CutEach(last, turn) /\ Chars(last) <= room
  <2>1. Cut(x, turn[1]) /\ x.content + x.calls <= room
    BY <1>1, <1>10, MessageCut
  <2>2. last \in Seq(Msg) /\ Chars(last) = x.content + x.calls
    BY <1>10, <2>1, CharsFew DEF Cut
  <2>3. Len(last) = 1 /\ last[1] = x /\ \A i \in 1..1 : i = 1
    BY <1>10
  <2>4. QED
    BY <2>1, <2>2, <2>3 DEF CutEach
<1>12. \/ new = first /\ Chars(first) <= room
       \/ new = second /\ Chars(second) <= room
       \/ new = last
  BY <1>2, <1>4, <1>6, <1>8, <1>10 DEF BoundLatest, FitLatest
<1>13. QED
  BY <1>5, <1>9, <1>11, <1>12

---------------------------------------------------------------------------
(* Turns *)

\* What a message adds to turns keeps them lists of lists of messages.
LEMMA AddTypes ==
    ASSUME NEW ts \in Seq(Seq(Msg)), NEW m \in Msg
    PROVE  AddToTurns(ts, m) \in Seq(Seq(Msg))
<1>1. <<m>> \in Seq(Msg)
  BY CharsFew
<1>2. CASE m.role = "user" \/ ts = <<>>
  BY <1>1, <1>2, AppendProperties DEF AddToTurns
<1>3. CASE ~(m.role = "user" \/ ts = <<>>)
  <2>1. PICK k, S : k = Len(ts) /\ S = Seq(Msg)
    OBVIOUS
  <2>2. k \in 1..Len(ts)
    BY <1>3, <2>1, EmptySeq, LenProperties
  <2>3. Append(ts[k], m) \in S
    BY <2>1, <2>2, ElementOfSeq, AppendProperties
  <2>4. [ts EXCEPT ![k] = Append(ts[k], m)] \in Seq(S)
    BY <2>1, <2>2, <2>3, ExceptSeq
  <2>5. QED
    BY <1>3, <2>1, <2>4 DEF AddToTurns
<1>4. QED
  BY <1>2, <1>3

\* The turns of a history come message by message.
LEMMA TurnsDefined ==
    ASSUME NEW H \in Seq(Msg)
    PROVE  \E f : /\ f[0] = <<>> /\ Turns(H) = f[Len(H)]
                  /\ \A n \in 1..Len(H) : f[n] = AddToTurns(f[n - 1], H[n])
<1>1. PICK N, A, base : N = Len(H) /\ A = Seq(Seq(Msg)) /\ base = <<>>
  OBVIOUS
<1> DEFINE Body(g, n) == IF n = 0 THEN <<>> ELSE AddToTurns(g[n - 1], H[n])
<1>2. N \in Nat /\ base \in A
  BY <1>1, LenProperties, EmptySeq
<1>3. \A n \in 1..N : H[n] \in Msg
  BY <1>1, ElementOfSeq
<1>4. PICK step : step = [p \in A \X (1..N) |-> AddToTurns(p[1], H[p[2]])]
  OBVIOUS
<1>5. step \in [A \X (1..N) -> A]
  <2>1. \A p \in A \X (1..N) : AddToTurns(p[1], H[p[2]]) \in A
    BY <1>1, <1>3, AddTypes
  <2>2. QED
    BY <1>4, <2>1
<1>6. PICK g : Carries(g, A, base, step, N)
  BY <1>2, <1>5, Carried
<1>7. ASSUME NEW n \in 0..N PROVE g[n] = Body(g, n)
  <2>1. CASE n = 0
    BY <1>1, <1>6, <2>1 DEF Carries
  <2>2. CASE n # 0
    <3>1. n \in 1..N /\ n - 1 \in 0..N
      BY <1>2, <2>2
    <3>2. PICK p : p = <<g[n - 1], n>>
      OBVIOUS
    <3>3. p \in A \X (1..N) /\ p[1] = g[n - 1] /\ p[2] = n
      BY <1>6, <3>1, <3>2 DEF Carries
    <3>4. g[n] = step[p]
      BY <1>6, <3>1, <3>2 DEF Carries
    <3>5. step[p] = AddToTurns(p[1], H[p[2]])
      BY <1>4, <3>3
    <3>6. QED
      BY <2>2, <3>3, <3>4, <3>5
  <2>3. QED
    BY <2>1, <2>2
<1>8. g = [n \in 0..N |-> Body(g, n)]
  <2> HIDE DEF Body
  <2>1. g = [n \in 0..N |-> g[n]]
    BY <1>6 DEF Carries
  <2>2. QED
    BY <1>7, <2>1
<1>9. PICK f : f = CHOOSE h : h = [n \in 0..N |-> Body(h, n)]
  OBVIOUS
<1>10. f = [n \in 0..N |-> Body(f, n)]
  <2> HIDE DEF Body
  <2>1. \E h : h = [n \in 0..N |-> Body(h, n)]
    BY <1>8
  <2>2. QED
    BY <1>9, <2>1
<1>11. Turns(H) = f[N]
  BY <1>1, <1>9 DEF Turns
<1>12. \A n \in 0..N : f[n] = Body(f, n)
  <2> HIDE DEF Body
  <2>1. QED
    BY <1>10
<1>13. f[0] = <<>> /\ \A n \in 1..N : f[n] = AddToTurns(f[n - 1], H[n])
  <2>1. 0 \in 0..N /\ \A n \in 1..N : n \in 0..N /\ n # 0
    BY <1>2
  <2>2. QED
    BY <1>12, <2>1
<1>14. QED
  BY <1>1, <1>11, <1>13

\* A history as the loop writes it: it begins with a user's message, and those have no calls.
History(H) ==
    /\ H \in Seq(Msg) /\ (Len(H) > 0 => H[1].role = "user")
    /\ \A k \in 1..Len(H) : H[k].role = "user" => H[k].calls = 0 /\ H[k].summary = 0

\* The first n messages of H in turns: turn j begins at from[j], with a user's
\* message, and goes on to the one before the next.
Starts(from, ts, H, n) ==
    /\ from \in [1..(Len(ts) + 1) -> 1..(n + 1)] /\ from[1] = 1 /\ from[Len(ts) + 1] = n + 1
    /\ \A j \in 1..Len(ts) :
          /\ from[j + 1] = from[j] + Len(ts[j])
          /\ \A i \in 1..Len(ts[j]) :
                ts[j][i] = H[from[j] + i - 1] /\ (ts[j][i].role = "user" <=> i = 1)

InTurns(ts, H, n) ==
    /\ ts \in Seq(Turn) /\ (n > 0 => Len(ts) > 0)
    /\ \E from : Starts(from, ts, H, n)

\* A user's message begins a turn.
LEMMA TurnBegins ==
    ASSUME NEW H, History(H), NEW n \in 0..(Len(H) - 1), NEW ts, InTurns(ts, H, n),
           H[n + 1].role = "user"
    PROVE  InTurns(Append(ts, <<H[n + 1]>>), H, n + 1)
<1>1. PICK m, one, new : m = H[n + 1] /\ one = <<m>> /\ new = Append(ts, one)
  OBVIOUS
<1>2. n + 1 \in 1..Len(H) /\ m \in Msg /\ m.role = "user" /\ m.calls = 0 /\ m.summary = 0
  BY <1>1, ElementOfSeq, LenProperties DEF History
<1>3. one \in Turn /\ Len(one) = 1 /\ one[1] = m
  BY <1>1, <1>2, CharsFew DEF Turn
<1>4. /\ new \in Seq(Turn) /\ Len(new) = Len(ts) + 1 /\ new[Len(ts) + 1] = one
      /\ Len(ts) \in Nat /\ \A j \in 1..Len(ts) : new[j] = ts[j]
  BY <1>1, <1>3, AppendProperties, LenProperties DEF InTurns
<1>5. PICK from : Starts(from, ts, H, n)
  BY DEF InTurns
<1>6. PICK L : L = Len(ts)
  OBVIOUS
<1>7. PICK to : to = [j \in 1..(L + 2) |-> IF j = L + 2 THEN n + 2 ELSE from[j]]
  OBVIOUS
<1>8. L \in Nat /\ n \in Nat /\ \A j \in 1..(L + 2) : j = L + 2 \/ (j \in 1..(L + 1) /\ j # L + 2)
  BY <1>4, <1>6
<1>9. \A j \in 1..(L + 1) : to[j] = from[j] /\ to[j] \in 1..(n + 1)
  BY <1>5, <1>6, <1>7, <1>8 DEF Starts
<1>10. to \in [1..(L + 2) -> 1..(n + 2)] /\ to[1] = 1 /\ to[L + 2] = n + 2 /\ to[L + 1] = n + 1
  <2>1. \A j \in 1..(L + 2) : (IF j = L + 2 THEN n + 2 ELSE from[j]) \in 1..(n + 2)
    BY <1>7, <1>8, <1>9
  <2>2. 1 \in 1..(L + 1) /\ L + 1 \in 1..(L + 1) /\ L + 2 \in 1..(L + 2)
    BY <1>8
  <2>3. QED
    BY <1>5, <1>6, <1>7, <1>9, <2>1, <2>2 DEF Starts
<1>11. ASSUME NEW j \in 1..(L + 1)
       PROVE  /\ to[j + 1] = to[j] + Len(new[j])
              /\ \A i \in 1..Len(new[j]) :
                    new[j][i] = H[to[j] + i - 1] /\ (new[j][i].role = "user" <=> i = 1)
  <2>1. CASE j = L + 1
    <3>1. j + 1 = L + 2 /\ new[j] = one /\ to[j] = n + 1
      BY <1>4, <1>6, <1>8, <1>10, <2>1
    <3>2. Len(new[j]) = 1 /\ new[j][1] = m /\ to[j + 1] = n + 2
      BY <1>3, <1>10, <3>1
    <3>3. to[j + 1] = to[j] + Len(new[j])
      BY <1>8, <3>1, <3>2
    <3>4. \A i \in 1..Len(new[j]) : i = 1
      BY <3>2
    <3>5. to[j] + 1 - 1 = n + 1
      BY <1>8, <3>1
    <3>6. QED
      BY <1>1, <1>2, <3>2, <3>3, <3>4, <3>5
  <2>2. CASE j \in 1..L
    <3>1. j + 1 \in 1..(L + 1) /\ new[j] = ts[j] /\ to[j] = from[j] /\ to[j + 1] = from[j + 1]
      BY <1>4, <1>6, <1>8, <1>9, <2>2
    <3>2. QED
      BY <1>5, <1>6, <2>2, <3>1 DEF Starts
  <2>3. QED
    BY <1>8, <2>1, <2>2
<1>12. Starts(to, new, H, n + 1)
  <2>1. Len(new) = L + 1 /\ (L + 1) + 1 = L + 2 /\ (n + 1) + 1 = n + 2
    BY <1>4, <1>6, <1>8
  <2>2. QED
    BY <1>10, <1>11, <2>1 DEF Starts
<1>13. QED
  BY <1>1, <1>4, <1>12 DEF InTurns

\* Any other message goes on with the latest turn.
LEMMA TurnGoesOn ==
    ASSUME NEW H, History(H), NEW n \in 0..(Len(H) - 1), NEW ts, InTurns(ts, H, n),
           H[n + 1].role # "user"
    PROVE  InTurns(AddToTurns(ts, H[n + 1]), H, n + 1)
<1>1. PICK m, L : m = H[n + 1] /\ L = Len(ts)
  OBVIOUS
<1>2. n + 1 \in 1..Len(H) /\ m \in Msg /\ m.role # "user" /\ n > 0 /\ n \in Nat
  BY <1>1, ElementOfSeq, LenProperties DEF History
<1>3. ts \in Seq(Turn) /\ L \in Nat /\ L > 0 /\ ts # <<>> /\ L \in 1..L
  BY <1>1, <1>2, LenProperties, EmptySeq DEF InTurns
<1>4. PICK from : Starts(from, ts, H, n)
  BY DEF InTurns
<1>5. PICK old, last, K : old = ts[L] /\ last = Append(old, m) /\ K = Len(old)
  OBVIOUS
<1>6. old \in Turn /\ old \in Seq(Msg) /\ K \in Nat /\ K > 0
  BY <1>1, <1>3, <1>5, ElementOfSeq, LenProperties DEF Turn
<1>7. /\ last \in Seq(Msg) /\ Len(last) = K + 1 /\ last[K + 1] = m
      /\ \A i \in 1..K : last[i] = old[i]
  BY <1>2, <1>5, <1>6, AppendProperties
<1>8. last \in Turn
  BY <1>6, <1>7 DEF Turn
<1>9. PICK new, T : new = [ts EXCEPT ![L] = last] /\ T = Turn
  OBVIOUS
<1>10. /\ new \in Seq(T) /\ Len(new) = L /\ new[L] = last
       /\ \A j \in 1..L : j # L => new[j] = ts[j]
  <2>1. ts \in Seq(T) /\ L \in 1..Len(ts) /\ last \in T
    BY <1>1, <1>3, <1>8, <1>9
  <2>2. QED
    BY <1>1, <1>9, <2>1, ExceptSeq
<1>11. AddToTurns(ts, m) = new
  BY <1>1, <1>2, <1>3, <1>5, <1>9 DEF AddToTurns
<1>12. PICK to : to = [j \in 1..(L + 1) |-> IF j = L + 1 THEN n + 2 ELSE from[j]]
  OBVIOUS
<1>13. \A j \in 1..(L + 1) : from[j] \in 1..(n + 1)
  BY <1>1, <1>4 DEF Starts
<1>14. to \in [1..(L + 1) -> 1..(n + 2)] /\ to[L + 1] = n + 2 /\ \A j \in 1..L : to[j] = from[j]
  <2>1. \A j \in 1..(L + 1) : (IF j = L + 1 THEN n + 2 ELSE from[j]) \in 1..(n + 2)
    BY <1>2, <1>13
  <2>2. L + 1 \in 1..(L + 1) /\ \A j \in 1..L : j \in 1..(L + 1) /\ j # L + 1
    BY <1>3
  <2>3. QED
    BY <1>12, <2>1, <2>2
<1>15. to[1] = 1
  BY <1>3, <1>4, <1>14 DEF Starts
<1>16. ASSUME NEW j \in 1..L
       PROVE  /\ to[j + 1] = to[j] + Len(new[j])
              /\ \A i \in 1..Len(new[j]) :
                    new[j][i] = H[to[j] + i - 1] /\ (new[j][i].role = "user" <=> i = 1)
  <2>1. CASE j = L
    <3>0. L \in 1..(L + 1) /\ L \in 1..L /\ L \in 1..Len(ts) /\ Len(ts[L]) = K
      BY <1>1, <1>3, <1>5
    <3>1. from[L + 1] = n + 1 /\ from[L + 1] = from[L] + K /\ from[L] \in Nat /\ to[L] = from[L]
      <4>1. from[L + 1] = n + 1
        BY <1>1, <1>4 DEF Starts
      <4>2. from[L + 1] = from[L] + K
        BY <1>1, <1>4, <3>0 DEF Starts
      <4>3. from[L] \in Nat
        BY <1>13, <3>0
      <4>4. to[L] = from[L]
        BY <1>14, <3>0
      <4>5. QED
        BY <4>1, <4>2, <4>3, <4>4
    <3>2. to[L + 1] = to[L] + Len(last)
      <4>1. to[L + 1] = n + 2 /\ Len(last) = K + 1
        BY <1>7, <1>14
      <4>2. n + 1 = from[L] + K /\ to[L] = from[L]
        BY <3>1
      <4>3. n + 2 = from[L] + (K + 1)
        BY <1>2, <1>6, <3>1, <4>2
      <4>4. QED
        BY <4>1, <4>2, <4>3
    <3>3. ASSUME NEW i \in 1..(K + 1)
          PROVE  last[i] = H[to[L] + i - 1] /\ (last[i].role = "user" <=> i = 1)
      <4>1. CASE i = K + 1
        <5>1. to[L] + i - 1 = n + 1 /\ i # 1
          BY <1>2, <1>6, <3>1, <4>1
        <5>2. QED
          BY <1>1, <1>2, <1>7, <4>1, <5>1
      <4>2. CASE i \in 1..K
        <5>1. last[i] = old[i] /\ old[i] = H[from[L] + i - 1] /\ (old[i].role = "user" <=> i = 1)
          BY <1>1, <1>3, <1>4, <1>5, <1>7, <4>2 DEF Starts
        <5>2. QED
          BY <3>1, <5>1
      <4>3. QED
        BY <1>6, <4>1, <4>2
    <3>4. QED
      BY <1>7, <1>10, <2>1, <3>2, <3>3
  <2>2. CASE j # L
    <3>0. j + 1 \in 1..L /\ j \in 1..L
      BY <1>3, <2>2
    <3>1. j + 1 \in 1..L /\ new[j] = ts[j] /\ to[j] = from[j] /\ to[j + 1] = from[j + 1]
      <4>1. new[j] = ts[j]
        BY <1>10, <2>2
      <4>2. to[j] = from[j] /\ to[j + 1] = from[j + 1]
        BY <1>14, <3>0
      <4>3. QED
        BY <3>0, <4>1, <4>2
    <3>2. /\ from[j + 1] = from[j] + Len(ts[j])
          /\ \A i \in 1..Len(ts[j]) :
                ts[j][i] = H[from[j] + i - 1] /\ (ts[j][i].role = "user" <=> i = 1)
      BY <1>1, <1>4 DEF Starts
    <3>3. QED
      BY <3>1, <3>2
  <2>3. QED
    BY <2>1, <2>2
<1>17. Starts(to, new, H, n + 1)
  <2>1. (n + 1) + 1 = n + 2
    BY <1>2
  <2>2. QED
    BY <1>10, <1>14, <1>15, <1>16, <2>1 DEF Starts
<1>18. InTurns(new, H, n + 1)
  BY <1>3, <1>9, <1>10, <1>17 DEF InTurns
<1>19. QED
  BY <1>1, <1>11, <1>18

\* The turns of a history are the whole of it, cut before each user's message.
LEMMA TurnsSplit == \A H : History(H) => InTurns(Turns(H), H, Len(H))
<1> SUFFICES ASSUME NEW H, History(H) PROVE InTurns(Turns(H), H, Len(H))
  OBVIOUS
<1>1. H \in Seq(Msg) /\ Len(H) \in Nat
  BY LenProperties DEF History
<1>2. PICK f : /\ f[0] = <<>> /\ Turns(H) = f[Len(H)]
               /\ \A n \in 1..Len(H) : f[n] = AddToTurns(f[n - 1], H[n])
  BY <1>1, TurnsDefined
<1> DEFINE S == {n \in 0..Len(H) : InTurns(f[n], H, n)}
<1>3. InTurns(f[0], H, 0)
  <2>1. PICK ts : ts = <<>>
    OBVIOUS
  <2>2. ts \in Seq(Turn) /\ Len(ts) = 0
    BY <2>1, EmptySeq
  <2>3. PICK from : from = [j \in 1..1 |-> 1]
    OBVIOUS
  <2>4. from \in [1..(Len(ts) + 1) -> 1..(0 + 1)] /\ from[1] = 1
    BY <2>2, <2>3
  <2>5. Starts(from, ts, H, 0)
    BY <2>2, <2>4 DEF Starts
  <2>6. QED
    BY <1>2, <2>1, <2>2, <2>5 DEF InTurns
<1>4. ASSUME NEW n \in 0..(Len(H) - 1), InTurns(f[n], H, n) PROVE InTurns(f[n + 1], H, n + 1)
  <2>1. n + 1 \in 1..Len(H) /\ (n + 1) - 1 = n
    BY <1>1
  <2>2. f[n + 1] = AddToTurns(f[n], H[n + 1])
    BY <1>2, <2>1
  <2>3. PICK ts : ts = f[n]
    OBVIOUS
  <2>4. CASE H[n + 1].role = "user"
    <3>1. AddToTurns(ts, H[n + 1]) = Append(ts, <<H[n + 1]>>)
      BY <2>4 DEF AddToTurns
    <3>2. QED
      BY <1>4, <2>2, <2>3, <2>4, <3>1, TurnBegins
  <2>5. CASE H[n + 1].role # "user"
    BY <1>4, <2>2, <2>3, <2>5, TurnGoesOn
  <2>6. QED
    BY <2>4, <2>5
<1>5. 0..Len(H) \subseteq S
  <2>1. 0 \in S /\ \A n \in 0..(Len(H) - 1) : n \in S => n + 1 \in S
    BY <1>1, <1>3, <1>4
  <2>2. QED
    <3> HIDE DEF S
    <3>1. QED
      BY <1>1, <2>1, BoundedInduction
<1>6. Len(H) \in S
  BY <1>1, <1>5
<1>7. QED
  BY <1>2, <1>6

---------------------------------------------------------------------------
(* What is taken of the turns *)

Acc == [kept : Seq(Msg), messages : Nat, chars : Nat, open : BOOLEAN]

\* A turn is taken: its messages are cut, the latest turn's perhaps to the first,
\* and what they weigh is no longer left.
Takes(acc, turn, new, bounded) ==
    /\ acc.open = TRUE /\ new.open = TRUE
    /\ bounded \in Seq(Msg) /\ CutEach(bounded, turn)
    /\ IF acc.kept = <<>> THEN Len(bounded) \in {1, Len(turn)} ELSE Len(bounded) = Len(turn)
    /\ Len(bounded) <= acc.messages /\ Chars(bounded) <= acc.chars
    /\ new.kept = bounded \o acc.kept
    /\ new.messages = acc.messages - Len(bounded) /\ new.chars = acc.chars - Chars(bounded)

Taken(acc, turn, new) == \E bounded : Takes(acc, turn, new, bounded)

\* A turn with too many messages for what is left is cut to its first.
LEMMA AnchoredTurn ==
    ASSUME NEW turn \in Turn, NEW room \in Nat \ {0}
    PROVE  /\ Anchored(turn, room) \in Turn /\ Len(Anchored(turn, room)) <= room
           /\ Len(Anchored(turn, room)) \in {1, Len(turn)}
           /\ Anchored(turn, room)[1] = turn[1]
<1>1. turn \in Seq(Msg) /\ Len(turn) \in Nat /\ Len(turn) > 0 /\ turn[1] \in Msg
  BY LenProperties, ElementOfSeq DEF Turn
<1>2. <<turn[1]>> \in Seq(Msg) /\ Len(<<turn[1]>>) = 1 /\ <<turn[1]>>[1] = turn[1]
  BY <1>1, CharsFew
<1>3. CASE Len(turn) > room
  <2>1. Anchored(turn, room) = <<turn[1]>>
    BY <1>3 DEF Anchored
  <2>2. QED
    BY <1>2, <2>1 DEF Turn
<1>4. CASE ~(Len(turn) > room)
  <2>1. Anchored(turn, room) = turn
    BY <1>4 DEF Anchored
  <2>2. QED
    BY <1>1, <1>4, <2>1
<1>5. QED
  BY <1>3, <1>4

\* A step takes a turn or closes what was taken; the first turn it is offered with room
\* left, it takes.
LEMMA TurnTaken ==
    ASSUME ContextAssumption, NEW acc \in Acc, NEW turn \in Turn, NEW new, new = TakeTurn(acc, turn)
    PROVE  /\ new \in Acc
           /\ Taken(acc, turn, new) \/ new = [acc EXCEPT !.open = FALSE]
           /\ acc.open /\ acc.kept = <<>> /\ acc.messages > 0 /\ acc.chars > 0 => Taken(acc, turn, new)
<1>1. /\ acc.kept \in Seq(Msg) /\ acc.messages \in Nat /\ acc.chars \in Nat /\ acc.open \in BOOLEAN
      /\ turn \in Seq(Msg) /\ Len(turn) \in Nat
  BY LenProperties DEF Acc, Turn
<1>2. PICK bounded : bounded = IF acc.kept = <<>>
                               THEN BoundLatest(Anchored(turn, acc.messages), acc.chars)
                               ELSE BoundEach(turn, MaxMessage)
  OBVIOUS
<1> DEFINE fits == /\ acc.messages > 0 /\ acc.chars > 0
                   /\ acc.kept = <<>> \/ (Len(turn) <= acc.messages /\ Chars(bounded) <= acc.chars)
<1>3. ASSUME ~(acc.open /\ fits) PROVE new = [acc EXCEPT !.open = FALSE]
  BY <1>2, <1>3 DEF TakeTurn
<1>4. ASSUME acc.open, fits PROVE new \in Acc /\ Takes(acc, turn, new, bounded)
  <2>1. /\ bounded \in Seq(Msg) /\ CutEach(bounded, turn)
        /\ IF acc.kept = <<>> THEN Len(bounded) \in {1, Len(turn)} ELSE Len(bounded) = Len(turn)
        /\ Len(bounded) <= acc.messages /\ Chars(bounded) <= acc.chars
    <3>1. CASE acc.kept = <<>>
      <4>1. PICK t, room : t = Anchored(turn, acc.messages) /\ room = acc.chars
        OBVIOUS
      <4>2. room \in Nat \ {0} /\ acc.messages \in Nat \ {0}
        BY <1>1, <1>4, <4>1
      <4>3. /\ t \in Turn /\ Len(t) <= acc.messages /\ Len(t) \in {1, Len(turn)}
            /\ t[1] = turn[1]
        BY <4>1, <4>2, AnchoredTurn
      <4>4. bounded = BoundLatest(t, room)
        BY <1>2, <3>1, <4>1
      <4>5. /\ bounded \in Seq(Msg) /\ Chars(bounded) <= room /\ Len(bounded) \in {1, Len(t)}
            /\ CutEach(bounded, t)
        BY <4>2, <4>3, <4>4, LatestCut
      <4>6. Len(bounded) \in {1, Len(turn)} /\ Len(bounded) <= acc.messages
        <5>1. Len(t) > 0
          BY <4>3 DEF Turn
        <5>2. Len(bounded) \in {1, Len(turn)}
          BY <4>3, <4>5
        <5>3. Len(bounded) <= acc.messages
          <6>1. CASE Len(bounded) = 1
            BY <4>2, <6>1
          <6>2. CASE Len(bounded) = Len(t)
            BY <4>3, <6>2
          <6>3. QED
            BY <4>5, <6>1, <6>2
        <5>4. QED
          BY <5>2, <5>3
      <4>7. CutEach(bounded, turn)
        <5>1. CASE t = turn
          BY <4>5, <5>1
        <5>2. CASE t # turn
          <6>1. Len(t) = 1
            BY <4>1, <5>2, CharsFew DEF Anchored
          <6>2. Len(bounded) = 1
            BY <4>5, <6>1
          <6>3. \A i \in 1..Len(bounded) : i = 1
            BY <6>2
          <6>4. QED
            BY <4>3, <4>5, <6>3 DEF CutEach
        <5>3. QED
          BY <5>1, <5>2
      <4>8. QED
        BY <3>1, <4>1, <4>5, <4>6, <4>7
    <3>2. CASE acc.kept # <<>>
      <4>1. bounded = BoundEach(turn, MaxMessage) /\ MaxMessage \in Int
        BY <1>2, <3>2 DEF ContextAssumption
      <4>2. bounded \in Seq(Msg) /\ Len(bounded) = Len(turn) /\ CutEach(bounded, turn)
        BY <1>1, <4>1, EachCut
      <4>3. QED
        BY <1>4, <3>2, <4>2
    <3>3. QED
      BY <3>1, <3>2
  <2>2. PICK l, c : l = Len(bounded) /\ c = Chars(bounded)
    OBVIOUS
  <2>3. l \in Nat /\ c \in Nat /\ l <= acc.messages /\ c <= acc.chars
    BY <2>1, <2>2, CharsNat, LenProperties
  <2>4. new = [kept |-> bounded \o acc.kept, messages |-> acc.messages - l,
               chars |-> acc.chars - Least(c, acc.chars), open |-> TRUE]
    BY <1>2, <1>4, <2>2 DEF TakeTurn
  <2>5. Least(c, acc.chars) = c
    BY <2>3 DEF Least
  <2>6. bounded \o acc.kept \in Seq(Msg) /\ acc.messages - l \in Nat /\ acc.chars - c \in Nat
    <3>1. bounded \o acc.kept \in Seq(Msg)
      BY <1>1, <2>1, CharsConcat
    <3>2. acc.messages - l \in Nat /\ acc.chars - c \in Nat
      <4>1. \A x, y \in Nat : x <= y => y - x \in Nat
        OBVIOUS
      <4>2. acc.messages \in Nat /\ acc.chars \in Nat
        BY <1>1
      <4>3. QED
        BY <2>3, <4>1, <4>2
    <3>3. QED
      BY <3>1, <3>2
  <2>7. new \in Acc
    BY <2>4, <2>5, <2>6 DEF Acc
  <2>8. Takes(acc, turn, new, bounded)
    <3>1. acc.open = TRUE
      BY <1>1, <1>4
    <3>2. /\ new.open = TRUE /\ new.kept = bounded \o acc.kept
          /\ new.messages = acc.messages - Len(bounded) /\ new.chars = acc.chars - Chars(bounded)
      <4>1. /\ new.open = TRUE /\ new.kept = bounded \o acc.kept
            /\ new.messages = acc.messages - l /\ new.chars = acc.chars - Least(c, acc.chars)
        <5>1. PICK k, m, r : /\ k = bounded \o acc.kept /\ m = acc.messages - l
                             /\ r = acc.chars - Least(c, acc.chars)
          OBVIOUS
        <5>2. new = [kept |-> k, messages |-> m, chars |-> r, open |-> TRUE]
          BY <2>4, <5>1
        <5>3. new.open = TRUE /\ new.kept = k /\ new.messages = m /\ new.chars = r
          BY <5>2
        <5>4. QED
          BY <5>1, <5>3
      <4>2. QED
        BY <2>2, <2>5, <4>1
    <3>3. QED
      BY <2>1, <3>1, <3>2 DEF Takes
  <2>9. QED
    BY <2>7, <2>8
<1>5. [acc EXCEPT !.open = FALSE] \in Acc
  BY DEF Acc
<1>6. acc.open /\ acc.kept = <<>> /\ acc.messages > 0 /\ acc.chars > 0 => acc.open /\ fits
  OBVIOUS
<1>7. QED
  <2> HIDE DEF fits
  <2>1. QED
    BY <1>3, <1>4, <1>5, <1>6 DEF Taken

\* What is taken of turns, one by one from the latest.
LEMMA TakeTurnsDefined ==
    ASSUME ContextAssumption, NEW ts \in Seq(Turn)
    PROVE  \E f : /\ f[0] = Untaken /\ TakeTurns(ts) = f[Len(ts)]
                  /\ f \in [0..Len(ts) -> Acc]
                  /\ \A n \in 1..Len(ts) : f[n] = TakeTurn(f[n - 1], ts[Len(ts) - n + 1])
<1>1. PICK N, A, base : N = Len(ts) /\ A = Acc /\ base = Untaken
  OBVIOUS
<1> DEFINE Body(g, n) == IF n = 0 THEN Untaken ELSE TakeTurn(g[n - 1], ts[N - n + 1])
<1>2. N \in Nat /\ base \in A
  <2>1. <<>> \in Seq(Msg) /\ MaxMessages \in Nat /\ MaxChars \in Nat
    BY EmptySeq DEF ContextAssumption
  <2>2. QED
    BY <1>1, <2>1, LenProperties DEF Untaken, Acc
<1>3. \A n \in 1..N : ts[N - n + 1] \in Turn
  <2>1. \A n \in 1..N : N - n + 1 \in 1..N
    BY <1>2
  <2>2. QED
    BY <1>1, <2>1, ElementOfSeq
<1>4. PICK step : step = [p \in A \X (1..N) |-> TakeTurn(p[1], ts[N - p[2] + 1])]
  OBVIOUS
<1>5. step \in [A \X (1..N) -> A]
  <2>1. ASSUME NEW p \in A \X (1..N) PROVE TakeTurn(p[1], ts[N - p[2] + 1]) \in A
    <3>1. p[1] \in Acc /\ ts[N - p[2] + 1] \in Turn
      BY <1>1, <1>3
    <3>2. QED
      BY <1>1, <3>1, TurnTaken
  <2>2. QED
    BY <1>4, <2>1
<1>6. PICK g : Carries(g, A, base, step, N)
  BY <1>2, <1>5, Carried
<1>7. ASSUME NEW n \in 0..N PROVE g[n] = Body(g, n)
  <2>1. CASE n = 0
    BY <1>1, <1>6, <2>1 DEF Carries
  <2>2. CASE n # 0
    <3>1. n \in 1..N /\ n - 1 \in 0..N
      BY <1>2, <2>2
    <3>2. PICK p : p = <<g[n - 1], n>>
      OBVIOUS
    <3>3. p \in A \X (1..N) /\ p[1] = g[n - 1] /\ p[2] = n
      BY <1>6, <3>1, <3>2 DEF Carries
    <3>4. g[n] = step[p]
      BY <1>6, <3>1, <3>2 DEF Carries
    <3>5. step[p] = TakeTurn(p[1], ts[N - p[2] + 1])
      BY <1>4, <3>3
    <3>6. QED
      BY <2>2, <3>3, <3>4, <3>5
  <2>3. QED
    BY <2>1, <2>2
<1>8. g = [n \in 0..N |-> Body(g, n)]
  <2> HIDE DEF Body
  <2>1. g = [n \in 0..N |-> g[n]]
    BY <1>6 DEF Carries
  <2>2. QED
    BY <1>7, <2>1
<1>9. PICK f : f = CHOOSE h : h = [n \in 0..N |-> Body(h, n)]
  OBVIOUS
<1>10. f = [n \in 0..N |-> Body(f, n)]
  <2> HIDE DEF Body
  <2>1. \E h : h = [n \in 0..N |-> Body(h, n)]
    BY <1>8
  <2>2. QED
    BY <1>9, <2>1
<1>11. TakeTurns(ts) = f[N]
  BY <1>1, <1>9 DEF TakeTurns
<1>12. \A n \in 0..N : f[n] = Body(f, n)
  <2> HIDE DEF Body
  <2>1. QED
    BY <1>10
<1>13. f[0] = Untaken /\ \A n \in 1..N : f[n] = TakeTurn(f[n - 1], ts[N - n + 1])
  <2>1. 0 \in 0..N /\ \A n \in 1..N : n \in 0..N /\ n # 0
    BY <1>2
  <2>2. QED
    BY <1>12, <2>1
<1>14. f = g
  <2>1. StepAlike(f, g, N)
    <3>1. f[0] = g[0]
      BY <1>1, <1>6, <1>13 DEF Carries
    <3>2. ASSUME NEW n \in 0..(N - 1), f[n] = g[n] PROVE f[n + 1] = g[n + 1]
      <4>1. n + 1 \in 0..N /\ n + 1 # 0 /\ (n + 1) - 1 = n
        BY <1>2
      <4>2. g[n + 1] = Body(g, n + 1) /\ f[n + 1] = Body(f, n + 1)
        <5> HIDE DEF Body
        <5>1. QED
          BY <1>7, <1>12, <4>1
      <4>3. QED
        BY <3>2, <4>1, <4>2
    <3>3. QED
      <4> HIDE DEF Body
      <4>1. QED
        BY <3>1, <3>2 DEF StepAlike
  <2>2. \A n \in 0..N : f[n] = g[n]
    BY <1>2, <2>1, SameValues DEF SameUpto
  <2>3. f = [n \in 0..N |-> f[n]]
    <3> HIDE DEF Body
    <3>1. QED
      BY <1>10
  <2>4. g = [n \in 0..N |-> g[n]]
    BY <1>6 DEF Carries
  <2>5. QED
    BY <2>2, <2>3, <2>4
<1>15. f \in [0..N -> Acc]
  BY <1>1, <1>6, <1>14 DEF Carries
<1>16. QED
  BY <1>1, <1>11, <1>13, <1>15

\* s is what a history has from b to e, its messages cut.
Spans(s, H, b, e) ==
    s \in Seq(Msg) /\ Len(s) = e - b + 1 /\ \A i \in 1..Len(s) : Cut(s[i], H[b + i - 1])

\* What goes on where another stretch ends makes one stretch with it.
LEMMA SpanJoin ==
    ASSUME NEW H, NEW b \in Int, NEW m \in Int, NEW e \in Int, NEW s, NEW t,
           Spans(s, H, b, m - 1), Spans(t, H, m, e)
    PROVE  Spans(s \o t, H, b, e)
<1>1. PICK u, M, N : u = s \o t /\ M = Len(s) /\ N = Len(t)
  OBVIOUS
<1>2. s \in Seq(Msg) /\ t \in Seq(Msg) /\ M \in Nat /\ N \in Nat /\ M = m - b /\ N = e - m + 1
  <2>1. s \in Seq(Msg) /\ t \in Seq(Msg) /\ M \in Nat /\ N \in Nat
    BY <1>1, LenProperties DEF Spans
  <2>2. M = (m - 1) - b + 1 /\ N = e - m + 1
    BY <1>1 DEF Spans
  <2>3. QED
    BY <2>1, <2>2
<1>3. /\ u \in Seq(Msg) /\ Len(u) = M + N
      /\ \A i \in 1..(M + N) : u[i] = IF i <= M THEN s[i] ELSE t[i - M]
  <2>1. u \in Seq(Msg) /\ Len(u) = M + N
    <3>1. s \o t \in Seq(Msg) /\ Len(s \o t) = Len(s) + Len(t)
      BY <1>2, ConcatProperties
    <3>2. QED
      BY <1>1, <3>1
  <2>2. \A i \in 1..(Len(s) + Len(t)) : u[i] = IF i <= Len(s) THEN s[i] ELSE t[i - Len(s)]
    BY <1>1, <1>2, ConcatProperties
  <2>3. QED
    BY <1>1, <2>1, <2>2
<1>4. ASSUME NEW i \in 1..(M + N) PROVE Cut(u[i], H[b + i - 1])
  <2>1. CASE i <= M
    <3>1. i \in 1..M /\ u[i] = s[i]
      BY <1>2, <1>3, <2>1
    <3>2. QED
      BY <1>1, <3>1 DEF Spans
  <2>2. CASE ~(i <= M)
    <3>1. i - M \in 1..N /\ u[i] = t[i - M] /\ m + (i - M) - 1 = b + i - 1
      BY SMTT(20), <1>2, <1>3, <2>2
    <3>2. Cut(t[i - M], H[m + (i - M) - 1])
      BY <1>1, <3>1 DEF Spans
    <3>3. QED
      BY <3>1, <3>2
  <2>3. QED
    BY <2>1, <2>2
<1>5. M + N = e - b + 1
  BY <1>2
<1>6. QED
  BY <1>1, <1>3, <1>4, <1>5 DEF Spans

\* A turn that is cut is a stretch of the history.
LEMMA TurnSpan ==
    ASSUME NEW H, NEW n \in Nat, NEW ts, NEW from, ts \in Seq(Turn), Starts(from, ts, H, n),
           NEW j \in 1..Len(ts), NEW new \in Seq(Msg), CutEach(new, ts[j]),
           Len(new) \in {1, Len(ts[j])}
    PROVE  Spans(new, H, from[j], from[j] + Len(new) - 1) /\ Len(new) > 0 /\ from[j] \in Nat
<1>1. PICK N, K, b : N = Len(new) /\ K = Len(ts[j]) /\ b = from[j]
  OBVIOUS
<1>2. N \in Nat /\ K \in Nat /\ K > 0 /\ N > 0 /\ N <= K
  <2>1. ts[j] \in Turn
    BY ElementOfSeq
  <2>2. K \in Nat /\ K > 0
    BY <1>1, <2>1, LenProperties DEF Turn
  <2>3. QED
    BY <1>1, <2>2, LenProperties
<1>3. b \in Nat
  <2>1. Len(ts) \in Nat /\ j \in 1..(Len(ts) + 1)
    BY LenProperties
  <2>2. b \in 1..(n + 1)
    BY <1>1, <2>1 DEF Starts
  <2>3. QED
    BY <2>2
<1>4. \A i \in 1..N : Cut(new[i], H[b + i - 1])
  <2>1. \A i \in 1..K : ts[j][i] = H[b + i - 1]
    BY <1>1 DEF Starts
  <2>2. \A i \in 1..N : i \in 1..K
    BY <1>2
  <2>3. QED
    BY <1>1, <2>1, <2>2 DEF CutEach
<1>5. N = (b + N - 1) - b + 1
  BY <1>2, <1>3
<1>6. QED
  BY <1>1, <1>2, <1>3, <1>4, <1>5 DEF Spans

\* After k of L turns: what is kept and what is left make up the budgets; what is kept is
\* a stretch of the history that begins where a turn does and ends with the history, or
\* with the user's message that begins its last turn.
Stretch(acc, H, from, L, k) ==
    \E j \in (L - k + 1)..L, e \in {from[L], Len(H)} :
        from[L] <= e /\ Spans(acc.kept, H, from[j], e) /\ (acc.open => j = L - k + 1)

Held(acc, H, from, L, k) ==
    /\ acc \in Acc
    /\ Len(acc.kept) + acc.messages = MaxMessages /\ Chars(acc.kept) + acc.chars = MaxChars
    /\ k = 0 => acc = Untaken
    /\ k > 0 => Len(acc.kept) > 0 /\ Stretch(acc, H, from, L, k)

\* A taken turn is paid for out of what was left.
LEMMA Paid ==
    ASSUME NEW acc \in Acc, NEW turn, NEW new \in Acc, NEW bounded, Takes(acc, turn, new, bounded),
           Len(acc.kept) + acc.messages = MaxMessages, Chars(acc.kept) + acc.chars = MaxChars
    PROVE  /\ Len(new.kept) + new.messages = MaxMessages /\ Chars(new.kept) + new.chars = MaxChars
           /\ Len(new.kept) = Len(bounded) + Len(acc.kept)
<1>1. PICK l, c, L, C : l = Len(bounded) /\ c = Chars(bounded) /\ L = Len(acc.kept) /\ C = Chars(acc.kept)
  OBVIOUS
<1>2. /\ bounded \in Seq(Msg) /\ acc.kept \in Seq(Msg) /\ acc.messages \in Nat /\ acc.chars \in Nat
      /\ new.kept = bounded \o acc.kept
      /\ new.messages = acc.messages - Len(bounded) /\ new.chars = acc.chars - Chars(bounded)
  BY DEF Takes, Acc
<1>3. l \in Nat /\ c \in Nat /\ L \in Nat /\ C \in Nat
  BY <1>1, <1>2, CharsNat, LenProperties
<1>4. Len(new.kept) = l + L
  BY <1>1, <1>2, ConcatProperties
<1>5. Chars(new.kept) = c + C
  BY <1>1, <1>2, CharsConcat
<1>6. /\ (l + L) + (acc.messages - l) = L + acc.messages
      /\ (c + C) + (acc.chars - c) = C + acc.chars
  BY <1>2, <1>3
<1>7. QED
  BY <1>1, <1>2, <1>4, <1>5, <1>6

\* The next turn keeps what is held a stretch of the history.
LEMMA TurnHeld ==
    ASSUME ContextAssumption, NEW H, History(H), NEW ts, ts \in Seq(Turn), NEW from,
           Starts(from, ts, H, Len(H)), NEW k \in 0..(Len(ts) - 1), NEW acc, NEW new,
           Held(acc, H, from, Len(ts), k), new = TakeTurn(acc, ts[Len(ts) - k])
    PROVE  Held(new, H, from, Len(ts), k + 1)
<1>1. PICK L, n, t : L = Len(ts) /\ n = Len(H) /\ t = ts[L - k]
  OBVIOUS
<1>2. L \in Nat /\ n \in Nat /\ k \in Nat /\ L - k \in 1..L /\ L \in 1..L
  BY SMTT(20), <1>1, LenProperties DEF History
<1>3. t \in Turn /\ acc \in Acc
  BY <1>1, <1>2, ElementOfSeq DEF Held
<1>4. /\ new \in Acc
      /\ Taken(acc, t, new) \/ new = [acc EXCEPT !.open = FALSE]
      /\ acc.open /\ acc.kept = <<>> /\ acc.messages > 0 /\ acc.chars > 0 => Taken(acc, t, new)
  BY <1>1, <1>3, TurnTaken
<1>5. \A j \in 1..(L + 1) : from[j] \in Nat
  <2>1. \A j \in 1..(L + 1) : from[j] \in 1..(n + 1)
    BY <1>1 DEF Starts
  <2>2. QED
    BY SMTT(20), <1>2, <2>1
<1>6. CASE Taken(acc, t, new)
  <2>1. PICK bounded : Takes(acc, t, new, bounded)
    BY <1>6 DEF Taken
  <2>2. /\ Len(new.kept) + new.messages = MaxMessages /\ Chars(new.kept) + new.chars = MaxChars
        /\ Len(new.kept) = Len(bounded) + Len(acc.kept)
    BY SMTT(20), <1>3, <1>4, <2>1, Paid DEF Held
  <2>3. PICK N, b : N = Len(bounded) /\ b = from[L - k]
    OBVIOUS
  <2>4. N \in {1, Len(t)} /\ bounded \in Seq(Msg) /\ CutEach(bounded, t)
    BY <2>1, <2>3 DEF Takes
  <2>5. Spans(bounded, H, b, b + N - 1) /\ N > 0 /\ b \in Nat /\ N \in Nat
    BY <1>1, <1>2, <2>3, <2>4, TurnSpan, LenProperties
  <2>6. Len(new.kept) > 0
    BY <2>2, <2>3, <2>5, <1>3, LenProperties DEF Acc
  <2>7. new.kept = bounded \o acc.kept /\ acc.kept \in Seq(Msg) /\ acc.open = TRUE
    BY <1>3, <2>1 DEF Takes, Acc
  <2>8. L - (k + 1) + 1 = L - k
    BY <1>2
  <2>9. CASE k = 0
    <3>1. acc.kept = <<>>
      BY <2>9 DEF Held, Untaken
    <3>2. new.kept = bounded
      BY <2>4, <2>7, <3>1, ConcatEmptySeq
    <3>3. b = from[L] /\ L - k = L
      BY <1>2, <2>3, <2>9
    <3>4. b + N - 1 \in {from[L], Len(H)}
      <4>1. CASE N = 1
        BY <2>5, <3>3, <4>1
      <4>2. CASE N = Len(t)
        <5>1. from[L + 1] = n + 1 /\ from[L + 1] = from[L] + Len(ts[L])
          BY <1>1, <1>2 DEF Starts
        <5>2. t = ts[L]
          BY <1>1, <3>3
        <5>3. n + 1 = b + N
          BY <3>3, <4>2, <5>1, <5>2
        <5>4. b + N - 1 = n
          BY <1>2, <2>5, <5>3
        <5>5. QED
          BY <1>1, <5>4
      <4>3. QED
        BY <2>4, <4>1, <4>2
    <3>5. from[L] <= b + N - 1
      BY <2>5, <3>3
    <3>6. L - k \in (L - (k + 1) + 1)..L
      BY <1>2
    <3>7. Stretch(new, H, from, L, k + 1)
      BY <2>3, <2>5, <2>8, <3>2, <3>4, <3>5, <3>6 DEF Stretch
    <3>8. QED
      BY SMTT(20), <1>1, <1>2, <1>4, <2>2, <2>6, <3>7 DEF Held
  <2>10. CASE k > 0
    <3>1. Len(acc.kept) > 0 /\ Stretch(acc, H, from, L, k)
      BY <1>1, <2>10 DEF Held
    <3>2. PICK e \in {from[L], n} : from[L] <= e /\ Spans(acc.kept, H, from[L - k + 1], e)
      BY <1>1, <2>7, <3>1 DEF Stretch
    <3>3. acc.kept # <<>>
      BY <3>1, EmptySeq
    <3>4. N = Len(t)
      BY <2>1, <2>3, <3>3 DEF Takes
    <3>5. PICK m : m = from[L - k + 1]
      OBVIOUS
    <3>6. m = b + N /\ m \in Nat /\ e \in Nat
      <4>1. from[(L - k) + 1] = from[L - k] + Len(ts[L - k])
        BY <1>1, <1>2 DEF Starts
      <4>2. L - k + 1 \in 1..(L + 1) /\ L \in 1..(L + 1)
        BY <1>2
      <4>3. QED
        BY <1>1, <1>2, <1>5, <2>3, <3>2, <3>4, <3>5, <4>1, <4>2
    <3>7. Spans(bounded, H, b, m - 1)
      BY <2>5, <3>6
    <3>8. Spans(new.kept, H, b, e)
      <4>1. Spans(acc.kept, H, m, e) /\ b \in Int /\ m \in Int /\ e \in Int
        BY <2>5, <3>2, <3>5, <3>6
      <4>2. QED
        BY <2>7, <3>7, <4>1, SpanJoin
    <3>9. L - k \in (L - (k + 1) + 1)..L
      BY <1>2
    <3>10. Stretch(new, H, from, L, k + 1)
      BY <1>1, <2>3, <2>8, <3>2, <3>8, <3>9 DEF Stretch
    <3>11. QED
      BY SMTT(20), <1>1, <1>2, <1>4, <2>2, <2>6, <3>10 DEF Held
  <2>11. QED
    BY <1>2, <2>9, <2>10
<1>7. CASE ~Taken(acc, t, new)
  <2>1. new = [acc EXCEPT !.open = FALSE] /\ new.kept = acc.kept /\ new.open = FALSE
        /\ new.messages = acc.messages /\ new.chars = acc.chars
    BY <1>3, <1>4, <1>7 DEF Acc
  <2>2. k > 0
    <3>1. SUFFICES ASSUME k = 0 PROVE FALSE
      BY <1>2
    <3>2. acc = Untaken
      BY <3>1 DEF Held
    <3>3. acc.open /\ acc.kept = <<>> /\ acc.messages > 0 /\ acc.chars > 0
      <4>1. MaxMessages > 0 /\ MaxChars > 0
        BY DEF ContextAssumption, Accepted
      <4>2. QED
        BY <3>2, <4>1 DEF Untaken
    <3>4. QED
      BY <1>4, <1>7, <3>3
  <2>3. Len(acc.kept) > 0 /\ Stretch(acc, H, from, L, k)
    BY <1>1, <2>2 DEF Held
  <2>4. PICK j \in (L - k + 1)..L, e \in {from[L], Len(H)} :
            from[L] <= e /\ Spans(acc.kept, H, from[j], e)
    BY <2>3 DEF Stretch
  <2>5. j \in (L - (k + 1) + 1)..L
    <3>1. L - (k + 1) + 1 = L - k /\ L - k + 1 \in Int
      BY <1>2
    <3>2. j \in Int /\ L - k + 1 <= j /\ j <= L
      BY <1>2, <2>4, <3>1
    <3>3. L - k <= j
      BY <1>2, <3>2
    <3>4. QED
      BY <1>2, <3>1, <3>2, <3>3
  <2>6. Stretch(new, H, from, L, k + 1)
    BY <2>1, <2>4, <2>5 DEF Stretch
  <2>7. QED
    BY SMTT(20), <1>1, <1>2, <1>4, <2>1, <2>3, <2>6 DEF Held
<1>8. QED
  BY <1>6, <1>7

\* What is sent of a history: a stretch within the budgets that begins with a user's
\* message, has the last of those, and ends with it or with the history.
Whole(sent, H, b, e) ==
    /\ Spans(sent, H, b, e) /\ b \in 1..Len(H) /\ e \in b..Len(H) /\ H[b].role = "user"
    /\ e = Len(H) \/ H[e].role = "user"
    /\ \A k \in (e + 1)..Len(H) : H[k].role # "user"

\* bound_history sends such a stretch, or nothing of a history without messages.
LEMMA HistorySent ==
    ASSUME ContextAssumption, NEW H, History(H)
    PROVE  /\ BoundHistory(H) \in Seq(Msg)
           /\ Len(BoundHistory(H)) <= MaxMessages /\ Chars(BoundHistory(H)) <= MaxChars
           /\ IF Len(H) = 0 THEN Len(BoundHistory(H)) = 0
                            ELSE \E b \in Nat, e \in Nat : Whole(BoundHistory(H), H, b, e)
<1>1. PICK ts, L, n : ts = Turns(H) /\ L = Len(ts) /\ n = Len(H)
  OBVIOUS
<1>2. InTurns(ts, H, n)
  BY <1>1, TurnsSplit
<1>3. ts \in Seq(Turn) /\ L \in Nat /\ n \in Nat /\ (n > 0 => L > 0)
  BY <1>1, <1>2, LenProperties DEF InTurns, History
<1>4. PICK from : Starts(from, ts, H, n)
  BY <1>2 DEF InTurns
<1>5. PICK f : /\ f[0] = Untaken /\ TakeTurns(ts) = f[L]
               /\ \A k \in 1..L : f[k] = TakeTurn(f[k - 1], ts[L - k + 1])
  <2>1. PICK f : /\ f[0] = Untaken /\ TakeTurns(ts) = f[Len(ts)]
                 /\ \A k \in 1..Len(ts) : f[k] = TakeTurn(f[k - 1], ts[Len(ts) - k + 1])
    BY <1>3, TakeTurnsDefined
  <2>2. QED
    BY <1>1, <2>1
<1> DEFINE S == {k \in 0..L : Held(f[k], H, from, L, k)}
<1>6. 0 \in S
  <2>1. PICK none : none = <<>>
    OBVIOUS
  <2>2. none \in Seq(Msg) /\ Len(none) = 0 /\ Chars(none) = 0
    BY <2>1, EmptySeq, CharsFew
  <2>3. PICK acc : acc = Untaken
    OBVIOUS
  <2>4. acc = [kept |-> none, messages |-> MaxMessages, chars |-> MaxChars, open |-> TRUE]
    BY <2>1, <2>3 DEF Untaken
  <2>5. MaxMessages \in Nat /\ MaxChars \in Nat
    BY DEF ContextAssumption
  <2>6. acc \in Acc /\ acc.kept = none /\ acc.messages = MaxMessages /\ acc.chars = MaxChars
    BY <2>2, <2>4, <2>5 DEF Acc
  <2>7. Len(acc.kept) + acc.messages = MaxMessages /\ Chars(acc.kept) + acc.chars = MaxChars
    BY <2>2, <2>5, <2>6
  <2>8. Held(acc, H, from, L, 0)
    BY <2>3, <2>6, <2>7 DEF Held
  <2>9. QED
    BY <1>3, <1>5, <2>3, <2>8
<1>7. ASSUME NEW k \in 0..(L - 1), k \in S PROVE k + 1 \in S
  <2>1. k + 1 \in 1..L /\ (k + 1) - 1 = k /\ L - (k + 1) + 1 = L - k
    BY <1>3
  <2>2. f[k + 1] = TakeTurn(f[k], ts[L - k])
    BY <1>5, <2>1
  <2>3. Held(f[k + 1], H, from, L, k + 1)
    <3>1. Held(f[k], H, from, L, k)
      BY <1>7
    <3>2. PICK acc, new : acc = f[k] /\ new = f[k + 1]
      OBVIOUS
    <3>3. QED
      BY <1>1, <1>3, <1>4, <2>2, <3>1, <3>2, TurnHeld
  <2>4. QED
    BY <1>3, <2>1, <2>3
<1>8. 0..L \subseteq S
  <2> HIDE DEF S
  <2>1. QED
    BY <1>3, <1>6, <1>7, BoundedInduction
<1>9. PICK acc : acc = f[L]
  OBVIOUS
<1>10. Held(acc, H, from, L, L)
  BY <1>3, <1>8, <1>9
<1>11. PICK sent : sent = BoundHistory(H)
  OBVIOUS
<1>12. sent = acc.kept /\ sent \in Seq(Msg) /\ acc.messages \in Nat /\ acc.chars \in Nat
  BY <1>1, <1>5, <1>9, <1>10, <1>11 DEF BoundHistory, Held, Acc
<1>13. Len(sent) <= MaxMessages /\ Chars(sent) <= MaxChars
  <2>1. Len(sent) \in Nat /\ Chars(sent) \in Nat
    BY <1>12, LenProperties, CharsNat
  <2>2. Len(sent) + acc.messages = MaxMessages /\ Chars(sent) + acc.chars = MaxChars
    BY <1>10, <1>12 DEF Held
  <2>3. MaxMessages \in Nat /\ MaxChars \in Nat
    BY DEF ContextAssumption
  <2>4. PICK l, c : l = Len(sent) /\ c = Chars(sent)
    OBVIOUS
  <2>5. l <= MaxMessages /\ c <= MaxChars
    <3>1. l \in Nat /\ c \in Nat /\ l + acc.messages = MaxMessages /\ c + acc.chars = MaxChars
      BY <2>1, <2>2, <2>4
    <3>2. QED
      BY SMTT(20), <1>12, <2>3, <3>1
  <2>6. QED
    BY <2>4, <2>5
<1>14. CASE n = 0
  <2>1. L = 0
    <3>1. SUFFICES ASSUME L > 0 PROVE FALSE
      BY <1>3
    <3>2. L \in 1..L /\ L \in 1..(L + 1) /\ 1 \in 1..L /\ 1 + 1 \in 1..(L + 1) /\ ts[1] \in Turn
      BY <1>1, <1>3, <3>1, ElementOfSeq
    <3>3. from[1] = 1 /\ from[1 + 1] = from[1] + Len(ts[1]) /\ from[1 + 1] \in 1..(n + 1)
      BY <1>1, <1>4, <3>2 DEF Starts
    <3>4. Len(ts[1]) \in Nat /\ Len(ts[1]) > 0
      BY <3>2, LenProperties DEF Turn
    <3>5. QED
      BY <1>14, <3>3, <3>4
  <2>2. acc.kept = <<>>
    BY <1>10, <2>1 DEF Held, Untaken
  <2>3. Len(sent) = 0
    BY <1>12, <2>2
  <2>4. QED
    BY <1>1, <1>11, <1>12, <1>13, <1>14, <2>3
<1>15. CASE n > 0
  <2>1. L > 0 /\ L \in 1..L /\ L \in 1..(L + 1)
    BY <1>3, <1>15
  <2>2. Len(sent) > 0 /\ Stretch(acc, H, from, L, L)
    BY <1>10, <1>12, <2>1 DEF Held
  <2>3. PICK j \in (L - L + 1)..L, e \in {from[L], n} : from[L] <= e /\ Spans(sent, H, from[j], e)
    BY <1>1, <1>12, <2>2 DEF Stretch
  <2>4. PICK b, l : b = from[j] /\ l = from[L]
    OBVIOUS
  <2>5. j \in 1..L /\ j \in 1..(L + 1)
    BY <1>3, <2>3
  <2>6. b \in 1..(n + 1) /\ l \in 1..(n + 1) /\ b \in Nat /\ e \in Nat
    <3>1. b \in 1..(n + 1) /\ l \in 1..(n + 1)
      BY <1>1, <1>4, <2>1, <2>4, <2>5 DEF Starts
    <3>2. QED
      BY SMTT(20), <1>3, <2>3, <2>4, <3>1
  <2>7. from[L + 1] = l + Len(ts[L]) /\ from[L + 1] = n + 1
    BY <1>1, <1>4, <2>1, <2>4 DEF Starts
  <2>8. Len(ts[L]) \in Nat /\ Len(ts[L]) > 0
    BY <1>1, <1>3, <2>1, ElementOfSeq, LenProperties DEF Turn
  <2>9. l <= n /\ e <= n
    <3>1. l <= n
      BY <1>3, <2>6, <2>7, <2>8
    <3>2. QED
      BY <1>3, <2>3, <2>4, <3>1
  <2>10. b <= e
    <3>1. Len(sent) = e - b + 1 /\ Len(sent) \in Nat
      BY <1>12, <2>3, <2>4, LenProperties DEF Spans
    <3>2. QED
      BY <2>2, <2>6, <3>1
  <2>11. ASSUME NEW i \in 1..L PROVE H[from[i]].role = "user"
    <3>1. ts[i] \in Turn /\ Len(ts[i]) \in Nat
      BY <1>1, <1>3, ElementOfSeq, LenProperties DEF Turn
    <3>2. 1 \in 1..Len(ts[i]) /\ i \in 1..(L + 1)
      BY <3>1, <1>3 DEF Turn
    <3>3. from[i] \in 1..(n + 1)
      BY <1>1, <1>4, <3>2 DEF Starts
    <3>4. from[i] + 1 - 1 = from[i]
      BY <1>3, <3>3
    <3>5. ts[i][1] = H[from[i] + 1 - 1] /\ ts[i][1].role = "user"
      BY <1>1, <1>4, <3>2 DEF Starts
    <3>6. QED
      BY <3>4, <3>5
  <2>12. ASSUME NEW k \in (l + 1)..n PROVE H[k].role # "user"
    <3>1. k - l + 1 \in 1..Len(ts[L]) /\ k - l + 1 # 1 /\ l + (k - l + 1) - 1 = k
      BY <1>3, <2>6, <2>7, <2>8
    <3>2. PICK i : i = k - l + 1
      OBVIOUS
    <3>3. ts[L][i] = H[l + i - 1] /\ (ts[L][i].role = "user" <=> i = 1)
      BY <1>1, <1>4, <2>1, <2>4, <3>1, <3>2 DEF Starts
    <3>4. QED
      BY <3>1, <3>2, <3>3
  <2>13. H[b].role = "user" /\ (e = n \/ H[e].role = "user")
    BY <2>1, <2>3, <2>4, <2>5, <2>11
  <2>14. \A k \in (e + 1)..n : H[k].role # "user"
    <3>1. \A k \in (e + 1)..n : k \in (l + 1)..n
      BY SMTT(20), <1>3, <2>3, <2>4, <2>6
    <3>2. QED
      BY <2>12, <3>1
  <2>15. b \in 1..n /\ e \in b..n
    BY <1>3, <2>6, <2>9, <2>10
  <2>16. Whole(sent, H, b, e)
    BY <1>1, <2>3, <2>4, <2>13, <2>14, <2>15 DEF Whole
  <2>17. QED
    BY SMTT(20), <1>1, <1>11, <1>12, <1>13, <1>15, <2>6, <2>16
<1>16. QED
  BY <1>3, <1>14, <1>15

---------------------------------------------------------------------------
(* The log *)

\* Each result answers an assistant's message of its own turn, and while results are owed
\* there are only results after the message they are owed.
Answers(H, k) ==
    IF H[k].role = "tool"
    THEN /\ H[k].of \in 1..(k - 1) /\ H[H[k].of].role = "assistant"
         /\ \A j \in (H[k].of + 1)..(k - 1) : H[j].role # "user"
    ELSE H[k].of = 0

Asked(H) == \E a \in 1..Len(H) :
    H[a].role = "assistant" /\ \A j \in (a + 1)..Len(H) : H[j].role = "tool"

LogWell ==
    /\ History(log) /\ owed \in Nat /\ catalog \in Catalogs
    /\ \A k \in 1..Len(log) : log[k].at = k /\ Answers(log, k)
    /\ owed > 0 => Asked(log)

\* m goes on with H and makes it new.
GoesOn(H, m, new) ==
    /\ m \in Msg /\ new = Append(H, m) /\ m.at = Len(H) + 1 /\ Answers(new, Len(H) + 1)
    /\ m.role = "user" => m.calls = 0 /\ m.summary = 0
    /\ Len(H) = 0 => m.role = "user"

Gone(H, m, new) ==
    /\ History(new) /\ Len(new) = Len(H) + 1 /\ new[Len(new)] = m
    /\ \A k \in 1..Len(H) : new[k] = H[k]
    /\ \A k \in 1..Len(new) : new[k].at = k /\ Answers(new, k)

\* A message that goes on with the log leaves what it had as it was.
LEMMA LogGoesOn ==
    ASSUME LogWell, NEW m, NEW new, GoesOn(log, m, new)
    PROVE  Gone(log, m, new)
<1> USE DEF GoesOn
<1>1. PICK n : n = Len(log)
  OBVIOUS
<1>2. n \in Nat /\ log \in Seq(Msg)
  BY <1>1, LenProperties DEF LogWell, History
<1>3. /\ new \in Seq(Msg) /\ Len(new) = n + 1 /\ new[n + 1] = m
      /\ \A k \in 1..n : new[k] = log[k]
  BY <1>1, <1>2, AppendProperties
<1>4. History(new)
  <2>1. new[1].role = "user"
    <3>1. CASE n = 0
      BY <1>1, <1>3, <3>1
    <3>2. CASE n > 0
      <4>1. 1 \in 1..n
        BY <1>2, <3>2
      <4>2. QED
        BY <1>1, <1>3, <3>2, <4>1 DEF LogWell, History
    <3>3. QED
      BY <1>2, <3>1, <3>2
  <2>2. ASSUME NEW k \in 1..(n + 1), new[k].role = "user"
        PROVE  new[k].calls = 0 /\ new[k].summary = 0
    <3>1. CASE k = n + 1
      BY <1>3, <2>2, <3>1
    <3>2. CASE k # n + 1
      <4>1. k \in 1..n
        BY <1>2, <3>2
      <4>2. QED
        BY <1>1, <1>3, <2>2, <4>1 DEF LogWell, History
    <3>3. QED
      BY <3>1, <3>2
  <2>3. QED
    BY <1>3, <2>1, <2>2 DEF History
<1>5. ASSUME NEW k \in 1..(n + 1) PROVE new[k].at = k /\ Answers(new, k)
  <2>1. CASE k = n + 1
    BY <1>1, <1>3, <2>1
  <2>2. CASE k # n + 1
    <3>1. k \in 1..n /\ new[k] = log[k]
      BY <1>2, <1>3, <2>2
    <3>2. log[k].at = k /\ Answers(log, k)
      BY <1>1, <3>1 DEF LogWell
    <3>3. CASE log[k].role # "tool"
      BY <3>1, <3>2, <3>3 DEF Answers
    <3>4. CASE log[k].role = "tool"
      <4>1. PICK o : o = log[k].of
        OBVIOUS
      <4>2. /\ o \in 1..(k - 1) /\ log[o].role = "assistant"
            /\ \A j \in (o + 1)..(k - 1) : log[j].role # "user"
        BY <3>2, <3>4, <4>1 DEF Answers
      <4>3. o \in 1..n /\ \A j \in (o + 1)..(k - 1) : j \in 1..n
        BY <1>2, <3>1, <4>2
      <4>4. new[o] = log[o] /\ \A j \in (o + 1)..(k - 1) : new[j] = log[j]
        BY <1>3, <4>3
      <4>5. QED
        BY <3>1, <3>2, <3>4, <4>1, <4>2, <4>4 DEF Answers
    <3>5. QED
      BY <3>3, <3>4
  <2>3. QED
    BY <2>1, <2>2
<1>6. QED
  BY <1>1, <1>3, <1>4, <1>5 DEF Gone

\* An empty log is well written.
LEMMA LogBegins == ContextAssumption /\ Init => LogWell
<1> SUFFICES ASSUME ContextAssumption, Init PROVE LogWell
  OBVIOUS
<1>1. log = <<>> /\ owed = 0 /\ catalog \in Catalogs
  BY DEF Init
<1>2. log \in Seq(Msg) /\ Len(log) = 0
  BY <1>1, EmptySeq
<1>3. QED
  BY <1>1, <1>2 DEF LogWell, History

\* The message results are owed is the last one of an assistant's, as CHOOSE finds it.
LEMMA LastIsAsked ==
    ASSUME LogWell, Asked(log)
    PROVE  /\ LastAssistant \in 1..Len(log) /\ log[LastAssistant].role = "assistant"
           /\ \A j \in (LastAssistant + 1)..Len(log) : log[j].role = "tool"
<1>1. log \in Seq(Msg) /\ Len(log) \in Nat /\ DOMAIN log = 1..Len(log)
  BY LenProperties DEF LogWell, History
<1>2. PICK a \in 1..Len(log) :
          log[a].role = "assistant" /\ \A j \in (a + 1)..Len(log) : log[j].role = "tool"
  BY DEF Asked
<1>3. \A j \in (a + 1)..Len(log) : log[j].role # "assistant"
  BY <1>2
<1>4. PICK l : l = LastAssistant
  OBVIOUS
<1>5. /\ l \in 1..Len(log) /\ log[l].role = "assistant"
      /\ \A j \in (l + 1)..Len(log) : log[j].role # "assistant"
  BY <1>1, <1>2, <1>3, <1>4 DEF LastAssistant
<1>6. l = a
  <2>1. ~(l < a)
    <3>1. l < a => a \in (l + 1)..Len(log)
      BY <1>1, <1>5
    <3>2. QED
      BY <1>2, <1>5, <3>1
  <2>2. ~(a < l)
    <3>1. a < l => l \in (a + 1)..Len(log)
      BY <1>1, <1>2, <1>5
    <3>2. QED
      BY <1>3, <1>5, <3>1
  <2>3. QED
    BY <1>1, <1>2, <1>5, <2>1, <2>2
<1>7. QED
  BY <1>2, <1>4, <1>6

\* Every step of the run loop keeps the log well written.
LEMMA LogStays == ContextAssumption /\ LogWell /\ [Next]_vars => LogWell'
<1> SUFFICES ASSUME ContextAssumption, LogWell, [Next]_vars PROVE LogWell'
  OBVIOUS
<1>1. /\ log \in Seq(Msg) /\ Len(log) \in Nat /\ owed \in Nat /\ catalog \in Catalogs
  BY LenProperties DEF LogWell, History
<1>2. ASSUME NEW m, m \in Msg, log' = Append(log, m), catalog' = catalog,
             m.at = Len(log) + 1, Answers(log', Len(log) + 1),
             m.role = "user" => m.calls = 0 /\ m.summary = 0, Len(log) = 0 => m.role = "user"
      PROVE  /\ History(log') /\ catalog' \in Catalogs
             /\ \A k \in 1..Len(log') : log'[k].at = k /\ Answers(log', k)
             /\ Len(log') = Len(log) + 1 /\ log'[Len(log')] = m
             /\ \A k \in 1..Len(log) : log'[k] = log[k]
  <2>1. PICK new : new = log'
    OBVIOUS
  <2>2. GoesOn(log, m, new)
    BY <1>2, <2>1 DEF GoesOn
  <2>3. Gone(log, m, new)
    BY <2>2, LogGoesOn
  <2>4. QED
    BY <1>1, <1>2, <2>1, <2>3 DEF Gone
<1>3. ASSUME NEW n \in Texts, UserSends(n) PROVE LogWell'
  <2>1. PICK m : m = Message("user", n, NoCalls, 0)
    OBVIOUS
  <2>2. log' = Append(log, m) /\ catalog' = catalog /\ owed' = 0
    BY <1>3, <2>1 DEF UserSends, Write
  <2>3. n \in Nat
    BY DEF ContextAssumption
  <2>4. m = [at |-> Len(log) + 1, role |-> "user", content |-> n, calls |-> 0, summary |-> 0, of |-> 0]
    BY <2>1 DEF Message, NoCalls
  <2>5. m \in Msg /\ m.at = Len(log) + 1 /\ m.role = "user" /\ m.calls = 0 /\ m.summary = 0 /\ m.of = 0
    BY <1>1, <2>3, <2>4 DEF Msg
  <2>6. log'[Len(log) + 1] = m
    BY <1>1, <2>2, <2>5, AppendProperties
  <2>7. Answers(log', Len(log) + 1)
    BY <2>5, <2>6 DEF Answers
  <2>8. QED
    BY <1>2, <2>2, <2>5, <2>7 DEF LogWell
<1>4. ASSUME NEW n \in Texts \cup {0}, NEW calls \in CallTexts \cup {NoCalls},
             ModelAnswers(n, calls)
      PROVE  LogWell'
  <2>1. PICK m : m = Message("assistant", n, calls, 0)
    OBVIOUS
  <2>2. log' = Append(log, m) /\ catalog' = catalog /\ log # <<>>
    BY <1>4, <2>1 DEF ModelAnswers, Write
  <2>3. n \in Nat /\ calls[1] \in Nat /\ calls[2] \in Nat
    <3>1. Texts \subseteq Nat /\ CallTexts \subseteq Nat \X Nat
      BY DEF ContextAssumption
    <3>2. NoCalls \in Nat \X Nat
      BY DEF NoCalls
    <3>3. calls \in Nat \X Nat
      BY <3>1, <3>2
    <3>4. QED
      BY <3>1, <3>3
  <2>4. m = [at |-> Len(log) + 1, role |-> "assistant", content |-> n,
             calls |-> calls[1], summary |-> calls[2], of |-> 0]
    BY <2>1 DEF Message
  <2>5. m \in Msg /\ m.at = Len(log) + 1 /\ m.role = "assistant" /\ m.of = 0
    BY <1>1, <2>3, <2>4 DEF Msg
  <2>6. log'[Len(log) + 1] = m
    BY <1>1, <2>2, <2>5, AppendProperties
  <2>7. Answers(log', Len(log) + 1)
    BY <2>5, <2>6 DEF Answers
  <2>8. Len(log) # 0
    BY <1>1, <2>2, EmptySeq
  <2>9. /\ History(log') /\ catalog' \in Catalogs
        /\ \A k \in 1..Len(log') : log'[k].at = k /\ Answers(log', k)
        /\ Len(log') = Len(log) + 1 /\ log'[Len(log')] = m
    BY <1>2, <2>2, <2>5, <2>7, <2>8
  <2>10. owed' \in Nat
    <3>1. MaxBatch \in Nat
      BY DEF ContextAssumption
    <3>2. owed' = 0 \/ owed' \in 1..MaxBatch
      BY <1>4 DEF ModelAnswers
    <3>3. QED
      BY <3>1, <3>2
  <2>11. Asked(log')
    <3>1. Len(log') \in 1..Len(log') /\ (Len(log') + 1)..Len(log') = {}
      BY <1>1, <2>9
    <3>2. QED
      BY <2>5, <2>9, <3>1 DEF Asked
  <2>12. QED
    BY <2>9, <2>10, <2>11 DEF LogWell
<1>5. ASSUME NEW n \in Outputs, ResultArrives(n) PROVE LogWell'
  <2>1. PICK m, a, c : m = Message("tool", c, NoCalls, a) /\ a = LastAssistant /\ c = ToolOutput(n)
    OBVIOUS
  <2>2. log' = Append(log, m) /\ catalog' = catalog /\ owed > 0 /\ owed' = owed - 1
    BY <1>5, <2>1 DEF ResultArrives, Write
  <2>3. c \in Nat
    BY <2>1 DEF ContextAssumption, ToolOutput
  <2>4. /\ a \in 1..Len(log) /\ log[a].role = "assistant"
        /\ \A j \in (a + 1)..Len(log) : log[j].role = "tool"
    BY <2>1, <2>2, LastIsAsked DEF LogWell
  <2>5. m = [at |-> Len(log) + 1, role |-> "tool", content |-> c, calls |-> 0, summary |-> 0, of |-> a]
    BY <2>1 DEF Message, NoCalls
  <2>6. m \in Msg /\ m.at = Len(log) + 1 /\ m.role = "tool" /\ m.of = a
    BY <1>1, <2>3, <2>4, <2>5 DEF Msg
  <2>7. log'[Len(log) + 1] = m /\ \A k \in 1..Len(log) : log'[k] = log[k]
    BY <1>1, <2>2, <2>6, AppendProperties
  <2>8. Answers(log', Len(log) + 1)
    <3>1. (Len(log) + 1) - 1 = Len(log)
      BY <1>1
    <3>2. \A j \in (a + 1)..Len(log) : j \in 1..Len(log)
      BY <1>1, <2>4
    <3>3. \A j \in (a + 1)..Len(log) : log'[j].role # "user"
      BY <2>4, <2>7, <3>2
    <3>4. log'[a].role = "assistant"
      BY <2>4, <2>7
    <3>5. QED
      BY <2>4, <2>6, <2>7, <3>1, <3>3, <3>4 DEF Answers
  <2>9. Len(log) # 0
    BY <2>4
  <2>10. /\ History(log') /\ catalog' \in Catalogs
         /\ \A k \in 1..Len(log') : log'[k].at = k /\ Answers(log', k)
         /\ Len(log') = Len(log) + 1 /\ log'[Len(log')] = m
    BY <1>2, <2>2, <2>6, <2>8, <2>9
  <2>11. owed' \in Nat
    BY <1>1, <2>2
  <2>12. Asked(log')
    <3>1. a \in 1..Len(log')
      BY <1>1, <2>4, <2>10
    <3>2. ASSUME NEW j \in (a + 1)..Len(log') PROVE log'[j].role = "tool"
      <4>1. CASE j = Len(log) + 1
        BY <2>6, <2>7, <4>1
      <4>2. CASE j # Len(log) + 1
        <5>1. j \in (a + 1)..Len(log) /\ j \in 1..Len(log)
          <6>1. PICK N : N = Len(log)
            OBVIOUS
          <6>2. N \in Nat /\ a \in 1..N /\ j \in (a + 1)..(N + 1) /\ j # N + 1
            BY <1>1, <2>4, <2>10, <4>2, <6>1
          <6>3. j \in (a + 1)..N /\ j \in 1..N
            BY <6>2
          <6>4. QED
            BY <6>1, <6>3
        <5>2. QED
          BY <2>4, <2>7, <5>1
      <4>3. QED
        BY <4>1, <4>2
    <3>3. log'[a].role = "assistant"
      BY <2>4, <2>7
    <3>4. QED
      BY <3>1, <3>2, <3>3 DEF Asked
  <2>13. QED
    BY <2>10, <2>11, <2>12 DEF LogWell
<1>6. CASE UNCHANGED vars
  BY <1>6 DEF vars, LogWell
<1>7. QED
  BY <1>3, <1>4, <1>5, <1>6 DEF Next

\* What is sent of a log the loop wrote: no exchange is broken, as it begins with a user's
\* message and ends with one or with the log.
LEMMA SentWhole == ContextAssumption /\ LogWell => ExchangesStayWhole
<1> SUFFICES ASSUME ContextAssumption, LogWell PROVE ExchangesStayWhole
  OBVIOUS
<1>1. PICK sent, n : sent = Sent /\ n = Len(log)
  OBVIOUS
<1>2. /\ log \in Seq(Msg) /\ n \in Nat /\ DOMAIN log = 1..n /\ History(log)
      /\ \A k \in 1..n : log[k] \in Msg
  BY <1>1, LenProperties, ElementOfSeq DEF LogWell, History
<1>3. /\ sent \in Seq(Msg) /\ DOMAIN sent = 1..Len(sent) /\ Len(sent) \in Nat
      /\ IF n = 0 THEN Len(sent) = 0 ELSE \E b \in Nat, e \in Nat : Whole(sent, log, b, e)
  BY <1>1, <1>2, HistorySent, LenProperties DEF Sent
<1> DEFINE has(at) == \E i \in DOMAIN sent : sent[i].at = at
           ordered(i) == \A j \in 1..(i - 1) : sent[j].at < sent[i].at
           called(i) == sent[i].role = "tool" => has(sent[i].of)
           answered(i) == \A k \in DOMAIN log : log[k].of = sent[i].at => has(k)
           last(k) == log[k].role = "user" /\ (\A j \in (k + 1)..Len(log) : log[j].role # "user")
<1>4. CASE n = 0
  <2>1. DOMAIN log = {} /\ DOMAIN sent = {}
    BY <1>2, <1>3, <1>4
  <2>2. QED
    BY <1>1, <2>1 DEF ExchangesStayWhole
<1>5. CASE n > 0
  <2>1. PICK b \in Nat, e \in Nat : Whole(sent, log, b, e)
    BY <1>3, <1>5
  <2>2. /\ b \in 1..n /\ e \in b..n /\ log[b].role = "user" /\ (e = n \/ log[e].role = "user")
        /\ \A k \in (e + 1)..n : log[k].role # "user"
    BY <1>1, <2>1 DEF Whole
  <2>3. Len(sent) = e - b + 1 /\ \A i \in 1..Len(sent) : Cut(sent[i], log[b + i - 1])
    BY <2>1 DEF Whole, Spans
  <2>4. \A k \in 1..n : log[k].at = k /\ Answers(log, k)
    BY <1>1 DEF LogWell
  <2>5. ASSUME NEW i \in 1..Len(sent)
        PROVE  /\ b + i - 1 \in b..e /\ b + i - 1 \in 1..n /\ sent[i].at = b + i - 1
               /\ Cut(sent[i], log[b + i - 1])
    <3>1. b + i - 1 \in b..e /\ b + i - 1 \in 1..n
      <4>1. i \in 1..(e - b + 1)
        BY <2>3
      <4>2. QED
        BY SMTT(20), <1>2, <2>1, <2>2, <4>1
    <3>2. QED
      BY <2>3, <2>4, <3>1 DEF Cut
  <2>6. ASSUME NEW k \in b..e PROVE has(k)
    <3>1. k - b + 1 \in 1..Len(sent) /\ b + (k - b + 1) - 1 = k
      BY <2>1, <2>3
    <3>2. PICK i : i = k - b + 1
      OBVIOUS
    <3>3. i \in 1..Len(sent) /\ sent[i].at = k
      BY <2>5, <3>1, <3>2
    <3>4. QED
      BY <1>3, <3>3
  <2>7. ASSUME NEW k \in 1..n, log[k].role = "tool"
        PROVE  /\ log[k].of \in 1..(k - 1) /\ log[log[k].of].role = "assistant"
               /\ \A j \in (log[k].of + 1)..(k - 1) : log[j].role # "user"
    BY <2>4, <2>7 DEF Answers
  <2>8. ASSUME NEW i \in 1..Len(sent) PROVE ordered(i)
    <3>1. sent[i].at = b + i - 1
      BY <2>5
    <3>2. ASSUME NEW j \in 1..(i - 1) PROVE sent[j].at < sent[i].at
      <4>1. j \in 1..Len(sent)
        BY <1>3
      <4>2. sent[j].at = b + j - 1
        BY <2>5, <4>1
      <4>3. b + j - 1 < b + i - 1
        BY <1>3, <2>1
      <4>4. QED
        BY <3>1, <4>2, <4>3
    <3>3. QED
      BY <3>2
  <2>9. ASSUME NEW i \in 1..Len(sent)
        PROVE  sent[i].role = log[sent[i].at].role /\ sent[i].content <= log[sent[i].at].content
    BY <2>5 DEF Cut
  <2>10. ASSUME NEW i \in 1..Len(sent), sent[i].role = "tool" PROVE has(sent[i].of)
    <3>1. PICK k : k = b + i - 1
      OBVIOUS
    <3>2. k \in b..e /\ k \in 1..n /\ log[k].role = "tool" /\ sent[i].of = log[k].of
      BY <2>5, <2>10, <3>1 DEF Cut
    <3>3. PICK o : o = log[k].of
      OBVIOUS
    <3>4. o \in 1..(k - 1) /\ \A j \in (o + 1)..(k - 1) : log[j].role # "user"
      BY <2>7, <3>2, <3>3
    <3>5. k # b
      BY <2>2, <3>2
    <3>6. ~(o < b)
      <4>1. o < b => b \in (o + 1)..(k - 1)
        BY <2>1, <3>2, <3>4, <3>5
      <4>2. QED
        BY <2>2, <3>4, <4>1
    <3>7. o \in b..e
      BY <2>1, <3>2, <3>4, <3>6
    <3>8. QED
      BY <2>6, <3>2, <3>3, <3>7
  <2>11. ASSUME NEW i \in 1..Len(sent), NEW k \in DOMAIN log, log[k].of = sent[i].at
         PROVE  has(k)
    <3>1. PICK o : o = sent[i].at
      OBVIOUS
    <3>2. o \in b..e /\ o \in 1..n /\ log[k].of = o /\ k \in 1..n
      BY <1>2, <2>5, <2>11, <3>1
    <3>3. log[k].role = "tool"
      <4>1. log[k].of # 0
        BY <3>2
      <4>2. QED
        BY <2>4, <3>2, <4>1 DEF Answers
    <3>4. o \in 1..(k - 1) /\ log[o].role = "assistant" /\ \A j \in (o + 1)..(k - 1) : log[j].role # "user"
      BY <2>7, <3>2, <3>3
    <3>5. ~(k > e)
      <4>1. SUFFICES ASSUME k > e PROVE FALSE
        OBVIOUS
      <4>2. e # n
        BY <1>2, <3>2, <4>1
      <4>3. log[e].role = "user"
        BY <2>2, <4>2
      <4>4. o # e
        BY <3>4, <4>3
      <4>5. e \in (o + 1)..(k - 1)
        BY SMTT(20), <1>2, <2>1, <3>2, <4>1, <4>4
      <4>6. QED
        BY <3>4, <4>3, <4>5
    <3>6. k \in b..e
      BY <1>2, <2>1, <3>2, <3>4, <3>5
    <3>7. QED
      BY <2>6, <3>6
  <2>12. ASSUME NEW k \in DOMAIN log, last(k) PROVE has(k)
    <3>1. k \in 1..n /\ log[k].role = "user" /\ \A j \in (k + 1)..n : log[j].role # "user"
      BY <1>1, <1>2, <2>12
    <3>2. ~(k > e)
      <4>1. k > e => k \in (e + 1)..n
        BY <2>1, <3>1
      <4>2. QED
        BY <2>2, <3>1, <4>1
    <3>3. ~(k < b)
      <4>1. k < b => b \in (k + 1)..n
        BY <1>2, <2>2, <3>1
      <4>2. QED
        BY <2>2, <3>1, <4>1
    <3>4. k \in b..e
      BY <1>2, <2>1, <3>1, <3>2, <3>3
    <3>5. QED
      BY <2>6, <3>4
  <2>13. /\ \A i \in DOMAIN sent :
               /\ ordered(i)
               /\ sent[i].role = log[sent[i].at].role
               /\ sent[i].content <= log[sent[i].at].content
               /\ called(i)
               /\ answered(i)
         /\ \A k \in DOMAIN log : last(k) => has(k)
    <3> HIDE DEF has, last
    <3>1. \A i \in 1..Len(sent) : called(i)
      BY <2>10
    <3>2. \A i \in 1..Len(sent) : answered(i)
      BY <2>11
    <3> HIDE DEF ordered, called, answered
    <3>3. QED
      BY <1>3, <2>8, <2>9, <2>12, <3>1, <3>2
  <2>14. QED
    BY <1>1, <2>13 DEF ExchangesStayWhole
<1>6. QED
  BY <1>2, <1>4, <1>5

\* The log always is well written.
LEMMA LogAlwaysWell == Spec => []LogWell
<1>1. Init => LogWell
  BY ContextAssumption, LogBegins
<1>2. LogWell /\ [Next]_vars => LogWell'
  BY ContextAssumption, LogStays
<1>3. QED
  BY <1>1, <1>2, PTL DEF Spec

\* A tool exchange is sent whole or not at all, in the log's order, and the user's last
\* message is sent, whatever the budgets, the turns and their calls (bound_history).
THEOREM ExchangesWhole == Spec => []ExchangesStayWhole
<1>1. LogWell => ExchangesStayWhole
  BY ContextAssumption, SentWhole
<1>2. QED
  BY <1>1, LogAlwaysWell, PTL

---------------------------------------------------------------------------
(* The tool catalog *)

\* The lengths of a list add up to the last of the sums it runs through.
LEMMA TotalSum ==
    ASSUME NEW s \in Seq(Nat)
    PROVE  \E f : Sums(f, Len(s), s) /\ Total(s) = f[Len(s)]
<1>1. PICK N : N = Len(s)
  OBVIOUS
<1> DEFINE Body(g, n) == IF n = 0 THEN 0 ELSE g[n - 1] + s[n]
<1>2. N \in Nat /\ \A n \in 1..N : s[n] \in Nat
  BY <1>1, LenProperties, ElementOfSeq
<1>3. PICK of : of = [n \in 1..N |-> s[n]]
  OBVIOUS
<1>4. of \in [1..N -> Nat]
  BY <1>2, <1>3
<1>5. PICK f : Sums(f, N, of)
  BY <1>2, <1>4, SumsExist
<1>6. Sums(f, N, s)
  BY <1>3, <1>5 DEF Sums
<1>7. ASSUME NEW n \in 0..N PROVE f[n] = Body(f, n)
  <2>1. CASE n = 0
    BY <1>6, <2>1 DEF Sums
  <2>2. CASE n # 0
    <3>1. n \in 1..N
      BY <1>2, <2>2
    <3>2. QED
      BY <1>6, <2>2, <3>1 DEF Sums
  <2>3. QED
    BY <2>1, <2>2
<1>8. f = [n \in 0..N |-> Body(f, n)]
  <2> HIDE DEF Body
  <2>1. f = [n \in 0..N |-> f[n]]
    BY <1>6 DEF Sums
  <2>2. QED
    BY <1>7, <2>1
<1>9. PICK c : c = CHOOSE g : g = [n \in 0..N |-> Body(g, n)]
  OBVIOUS
<1>10. c = [n \in 0..N |-> Body(c, n)]
  <2> HIDE DEF Body
  <2>1. \E g : g = [n \in 0..N |-> Body(g, n)]
    BY <1>8
  <2>2. QED
    BY <1>9, <2>1
<1>11. Total(s) = c[N]
  BY <1>1, <1>9 DEF Total
<1>12. StepAlike(c, f, N)
  <2>1. 0 \in 0..N /\ \A n \in 0..(N - 1) : n + 1 \in 0..N /\ n + 1 # 0 /\ (n + 1) - 1 = n
    BY <1>2
  <2>2. c[0] = 0 /\ f[0] = 0
    BY <1>6, <1>10, <2>1 DEF Sums
  <2>3. ASSUME NEW n \in 0..(N - 1), c[n] = f[n] PROVE c[n + 1] = f[n + 1]
    <3>1. c[n + 1] = Body(c, n + 1)
      <4> HIDE DEF Body
      <4>1. QED
        BY <1>10, <2>1
    <3>2. f[n + 1] = Body(f, n + 1)
      <4> HIDE DEF Body
      <4>1. QED
        BY <1>7, <2>1
    <3>3. QED
      BY <2>1, <2>3, <3>1, <3>2
  <2>4. QED
    <3> HIDE DEF Body
    <3>1. QED
      BY <2>2, <2>3 DEF StepAlike
<1>13. c[N] = f[N]
  <2>1. \A n \in 0..N : c[n] = f[n]
    <3> HIDE DEF Body
    <3>1. QED
      BY <1>2, <1>12, SameValues DEF SameUpto
  <2>2. QED
    BY <1>2, <2>1
<1>14. QED
  BY <1>1, <1>6, <1>11, <1>13

\* A tool that is added weighs what it weighs.
LEMMA TotalAppend ==
    /\ Total(<<>>) = 0
    /\ \A s \in Seq(Nat) : Total(s) \in Nat
    /\ \A s \in Seq(Nat), x \in Nat : Total(Append(s, x)) = Total(s) + x
<1>1. Total(<<>>) = 0
  <2>1. PICK s : s = <<>>
    OBVIOUS
  <2>2. s \in Seq(Nat) /\ Len(s) = 0
    BY <2>1, EmptySeq
  <2>3. QED
    BY <2>1, <2>2, TotalSum DEF Sums
<1>2. ASSUME NEW s \in Seq(Nat) PROVE Total(s) \in Nat
  <2>1. PICK f : Sums(f, Len(s), s) /\ Total(s) = f[Len(s)]
    BY TotalSum
  <2>2. Len(s) \in 0..Len(s)
    BY LenProperties
  <2>3. QED
    BY <2>1, <2>2 DEF Sums
<1>3. ASSUME NEW s \in Seq(Nat), NEW x \in Nat PROVE Total(Append(s, x)) = Total(s) + x
  <2>1. PICK t, M, more : t = Append(s, x) /\ M = Len(s) /\ more = [n \in 1..1 |-> x]
    OBVIOUS
  <2>2. t \in Seq(Nat) /\ Len(t) = M + 1 /\ t[M + 1] = x /\ M \in Nat /\ \A n \in 1..M : t[n] = s[n]
    BY <2>1, AppendProperties, LenProperties
  <2>3. more \in [1..1 -> Nat] /\ more[1] = x
    BY <2>1
  <2>4. PICK a : Sums(a, M, s) /\ Total(s) = a[M]
    BY <2>1, TotalSum
  <2>5. PICK c : Sums(c, M + 1, t) /\ Total(t) = c[M + 1]
    BY <2>2, TotalSum
  <2>6. PICK b : Sums(b, 1, more)
    BY <2>3, SumsExist
  <2>7. Joined(t, s, M, more, 1)
    <3>1. \A n \in 1..1 : n = 1
      OBVIOUS
    <3>2. QED
      BY <2>2, <2>3, <3>1 DEF Joined
  <2>8. c[M + 1] = a[M] + b[1]
    <3>1. PICK N : N = 1
      OBVIOUS
    <3>2. N \in Nat /\ M \in Nat /\ more \in [1..N -> Nat]
      BY <2>2, <2>3, <3>1
    <3>3. Sums(a, M, s) /\ Sums(b, N, more) /\ Sums(c, M + N, t)
      BY <2>4, <2>5, <2>6, <3>1
    <3>4. Joined(t, s, M, more, N)
      BY <2>7, <3>1
    <3>5. c[M + N] = a[M] + b[N]
      BY <3>2, <3>3, <3>4, SumsGoOn
    <3>6. QED
      BY <3>1, <3>5
  <2>9. b[1] = x
    <3>1. 1 \in 1..1 /\ 1 - 1 = 0
      OBVIOUS
    <3>2. b[1] = b[0] + more[1] /\ b[0] = 0
      BY <2>6, <3>1 DEF Sums
    <3>3. QED
      BY <2>3, <3>2
  <2>10. QED
    BY <2>1, <2>4, <2>5, <2>8, <2>9
<1>4. QED
  BY <1>1, <1>2, <1>3

Choice == [selected : Seq(Nat), used : Nat]

\* A step through the catalog chooses a list of tools.
LEMMA ChoiceTypes ==
    ASSUME ContextAssumption, NEW acc \in Choice, NEW spec \in Nat
    PROVE  TakeTool(acc, spec) \in Choice
<1>1. acc.selected \in Seq(Nat) /\ acc.used \in Nat
  BY DEF Choice
<1>2. Append(acc.selected, spec) \in Seq(Nat) /\ acc.used + spec \in Nat
  BY <1>1, AppendProperties
<1>3. QED
  BY <1>2 DEF TakeTool, Choice

\* The catalog is gone through once.
LEMMA BoundToolsDefined ==
    ASSUME ContextAssumption, NEW specs \in Seq(Nat)
    PROVE  \E f : /\ f[0] = [selected |-> <<>>, used |-> 0]
                  /\ BoundTools(specs) = f[Len(specs)].selected
                  /\ \A n \in 1..Len(specs) : f[n] = TakeTool(f[n - 1], specs[n])
<1>1. PICK N, A, base : N = Len(specs) /\ A = Choice /\ base = [selected |-> <<>>, used |-> 0]
  OBVIOUS
<1> DEFINE Body(g, n) == IF n = 0 THEN [selected |-> <<>>, used |-> 0] ELSE TakeTool(g[n - 1], specs[n])
<1>2. N \in Nat /\ base \in A
  <2>1. <<>> \in Seq(Nat)
    BY EmptySeq
  <2>2. QED
    BY <1>1, <2>1, LenProperties DEF Choice
<1>3. \A n \in 1..N : specs[n] \in Nat
  BY <1>1, ElementOfSeq
<1>4. PICK step : step = [p \in A \X (1..N) |-> TakeTool(p[1], specs[p[2]])]
  OBVIOUS
<1>5. step \in [A \X (1..N) -> A]
  <2>1. \A p \in A \X (1..N) : TakeTool(p[1], specs[p[2]]) \in A
    BY <1>1, <1>3, ChoiceTypes
  <2>2. QED
    BY <1>4, <2>1
<1>6. PICK g : Carries(g, A, base, step, N)
  BY <1>2, <1>5, Carried
<1>7. ASSUME NEW n \in 0..N PROVE g[n] = Body(g, n)
  <2>1. CASE n = 0
    BY <1>1, <1>6, <2>1 DEF Carries
  <2>2. CASE n # 0
    <3>1. n \in 1..N /\ n - 1 \in 0..N
      BY <1>2, <2>2
    <3>2. PICK p : p = <<g[n - 1], n>>
      OBVIOUS
    <3>3. p \in A \X (1..N) /\ p[1] = g[n - 1] /\ p[2] = n
      BY <1>6, <3>1, <3>2 DEF Carries
    <3>4. g[n] = step[p]
      BY <1>6, <3>1, <3>2 DEF Carries
    <3>5. step[p] = TakeTool(p[1], specs[p[2]])
      BY <1>4, <3>3
    <3>6. QED
      BY <2>2, <3>3, <3>4, <3>5
  <2>3. QED
    BY <2>1, <2>2
<1>8. g = [n \in 0..N |-> Body(g, n)]
  <2> HIDE DEF Body
  <2>1. g = [n \in 0..N |-> g[n]]
    BY <1>6 DEF Carries
  <2>2. QED
    BY <1>7, <2>1
<1>9. PICK f : f = CHOOSE h : h = [n \in 0..N |-> Body(h, n)]
  OBVIOUS
<1>10. f = [n \in 0..N |-> Body(f, n)]
  <2> HIDE DEF Body
  <2>1. \E h : h = [n \in 0..N |-> Body(h, n)]
    BY <1>8
  <2>2. QED
    BY <1>9, <2>1
<1>11. BoundTools(specs) = f[N].selected
  BY <1>1, <1>9 DEF BoundTools
<1>12. \A n \in 0..N : f[n] = Body(f, n)
  <2> HIDE DEF Body
  <2>1. QED
    BY <1>10
<1>13. f[0] = [selected |-> <<>>, used |-> 0] /\ \A n \in 1..N : f[n] = TakeTool(f[n - 1], specs[n])
  <2>1. 0 \in 0..N /\ \A n \in 1..N : n \in 0..N /\ n # 0
    BY <1>2
  <2>2. QED
    BY <1>12, <2>1
<1>14. QED
  BY <1>1, <1>11, <1>13

\* After n tools: what is chosen fits the budgets, and one that is not among it would not.
Fitting(acc, specs, n) ==
    /\ acc \in Choice /\ acc.used = Total(acc.selected) /\ acc.used <= MaxCatalog
    /\ Len(acc.selected) <= MaxTools
    /\ \A i \in 1..Len(acc.selected) : acc.selected[i] <= MaxSpec
    /\ \A i \in 1..n :
          specs[i] <= MaxSpec /\ acc.used + specs[i] <= MaxCatalog /\ Len(acc.selected) < MaxTools
          => \E j \in 1..Len(acc.selected) : acc.selected[j] = specs[i]

\* The next tool, chosen or passed over, keeps the choice fitting.
LEMMA ToolFits ==
    ASSUME ContextAssumption, NEW specs \in Seq(Nat), NEW n \in 0..(Len(specs) - 1), NEW acc,
           Fitting(acc, specs, n)
    PROVE  Fitting(TakeTool(acc, specs[n + 1]), specs, n + 1)
<1>1. PICK spec, new, s, L : /\ spec = specs[n + 1] /\ new = TakeTool(acc, spec)
                             /\ s = acc.selected /\ L = Len(s)
  OBVIOUS
<1>2. /\ s \in Seq(Nat) /\ acc.used \in Nat /\ L \in Nat /\ n \in Nat /\ spec \in Nat
      /\ MaxTools \in Nat /\ MaxCatalog \in Nat
      /\ \A i \in 1..(n + 1) : specs[i] \in Nat
  <2>1. \A i \in 1..(n + 1) : i \in 1..Len(specs)
    BY LenProperties
  <2>2. s \in Seq(Nat) /\ acc.used \in Nat
    BY <1>1 DEF Fitting, Choice
  <2>3. L \in Nat /\ n \in Nat
    BY <1>1, <2>2, LenProperties
  <2>4. MaxTools \in Nat /\ MaxCatalog \in Nat
    BY DEF ContextAssumption
  <2>5. \A i \in 1..(n + 1) : specs[i] \in Nat
    BY <2>1, ElementOfSeq
  <2>6. spec \in Nat
    BY SMTT(20), <1>1, <2>3, <2>5
  <2>7. QED
    BY <2>2, <2>3, <2>4, <2>5, <2>6
<1>3. /\ acc.used = Total(s) /\ acc.used <= MaxCatalog /\ L <= MaxTools
      /\ \A i \in 1..L : s[i] <= MaxSpec
      /\ \A i \in 1..n :
            specs[i] <= MaxSpec /\ acc.used + specs[i] <= MaxCatalog /\ L < MaxTools
            => \E j \in 1..L : s[j] = specs[i]
  BY <1>1 DEF Fitting
<1>4. CASE spec <= MaxSpec /\ acc.used + spec <= MaxCatalog /\ L < MaxTools
  <2>1. PICK t, u : t = Append(s, spec) /\ u = acc.used + spec
    OBVIOUS
  <2>2. new = [selected |-> t, used |-> u]
    BY <1>1, <1>4, <2>1 DEF TakeTool
  <2>3. /\ t \in Seq(Nat) /\ Len(t) = L + 1 /\ t[L + 1] = spec
        /\ \A i \in 1..L : t[i] = s[i]
    <3>1. /\ Append(s, spec) \in Seq(Nat) /\ Len(Append(s, spec)) = Len(s) + 1
          /\ Append(s, spec)[Len(s) + 1] = spec
          /\ \A i \in 1..Len(s) : Append(s, spec)[i] = s[i]
      BY <1>2, AppendProperties
    <3>2. QED
      BY <1>1, <2>1, <3>1
  <2>4. u \in Nat /\ u = Total(t) /\ u <= MaxCatalog
    <3>1. Total(Append(s, spec)) = Total(s) + spec
      BY <1>2, TotalAppend
    <3>2. u = Total(t)
      BY <1>3, <2>1, <3>1
    <3>3. u \in Nat /\ u <= MaxCatalog
      <4>1. acc.used \in Nat /\ spec \in Nat
        BY <1>2
      <4>2. \A x, y \in Nat : x + y \in Nat
        BY SMTT(20)
      <4>3. acc.used + spec \in Nat
        BY <4>1, <4>2
      <4>4. QED
        BY <1>4, <2>1, <4>3
    <3>4. QED
      BY <3>2, <3>3
  <2>5. new \in Choice /\ new.selected = t /\ new.used = u
    BY <2>2, <2>3, <2>4 DEF Choice
  <2>6. L + 1 <= MaxTools
    BY <1>2, <1>4
  <2>7. ASSUME NEW i \in 1..(L + 1) PROVE t[i] <= MaxSpec
    <3>1. CASE i = L + 1
      BY <1>4, <2>3, <3>1
    <3>2. CASE i \in 1..L
      BY <1>3, <2>3, <3>2
    <3>3. i = L + 1 \/ i \in 1..L
      <4>1. L \in Nat
        BY <1>2
      <4>2. QED
        BY <4>1
    <3>4. QED
      BY <3>1, <3>2, <3>3
  <2>8. ASSUME NEW i \in 1..(n + 1), specs[i] <= MaxSpec, u + specs[i] <= MaxCatalog, L + 1 < MaxTools
        PROVE  \E j \in 1..(L + 1) : t[j] = specs[i]
    <3>1. CASE i = n + 1
      <4>1. L + 1 \in 1..(L + 1) /\ t[L + 1] = specs[i]
        BY SMTT(20), <1>1, <1>2, <2>3, <3>1
      <4>2. QED
        BY <4>1
    <3>2. CASE i # n + 1
      <4>1. i \in 1..n /\ specs[i] \in Nat
        BY <1>2, <3>2
      <4>2. acc.used + specs[i] <= MaxCatalog /\ L < MaxTools
        <5>1. PICK c : c = specs[i]
          OBVIOUS
        <5>2. c \in Nat /\ acc.used + spec + c <= MaxCatalog /\ L + 1 < MaxTools
          BY <2>1, <2>8, <4>1, <5>1
        <5>3. acc.used + c <= MaxCatalog /\ L < MaxTools
          <6>1. acc.used \in Nat /\ spec \in Nat /\ MaxCatalog \in Nat
            BY <1>2
          <6>2. L \in Nat /\ MaxTools \in Nat
            BY <1>2
          <6>3. \A x, y, z, m \in Nat : x + y + z <= m => x + z <= m
            OBVIOUS
          <6>4. acc.used + c <= MaxCatalog
            BY <5>2, <6>1, <6>3
          <6>5. L < MaxTools
            <7>1. \A x, m \in Nat : x + 1 < m => x < m
              OBVIOUS
            <7>2. QED
              BY <5>2, <6>2, <7>1
          <6>6. QED
            BY <6>4, <6>5
        <5>4. QED
          BY <5>1, <5>3
      <4>3. PICK j \in 1..L : s[j] = specs[i]
        BY <1>3, <2>8, <4>1, <4>2
      <4>4. j \in 1..(L + 1) /\ t[j] = specs[i]
        <5>1. j \in 1..L /\ j \in 1..(L + 1)
          BY <1>2, <4>3
        <5>2. QED
          BY <2>3, <4>3, <5>1
      <4>5. QED
        BY <4>4
    <3>3. QED
      BY <3>1, <3>2
  <2>9. Fitting(new, specs, n + 1)
    BY <2>3, <2>4, <2>5, <2>6, <2>7, <2>8 DEF Fitting
  <2>10. QED
    BY <1>1, <2>9
<1>5. CASE ~(spec <= MaxSpec /\ acc.used + spec <= MaxCatalog /\ L < MaxTools)
  <2>1. new = acc
    BY <1>1, <1>5 DEF TakeTool
  <2>2. ASSUME NEW i \in 1..(n + 1), specs[i] <= MaxSpec, acc.used + specs[i] <= MaxCatalog, L < MaxTools
        PROVE  \E j \in 1..L : s[j] = specs[i]
    <3>1. i # n + 1
      BY <1>1, <1>5, <2>2
    <3>2. i \in 1..n
      BY <1>2, <3>1
    <3>3. QED
      BY <1>3, <2>2, <3>2
  <2>3. Fitting(new, specs, n + 1)
    BY <1>1, <2>1, <2>2 DEF Fitting
  <2>4. QED
    BY <1>1, <2>3
<1>6. QED
  BY <1>4, <1>5

\* What bound_tools chooses of a registry fits.
LEMMA CatalogFits ==
    ASSUME ContextAssumption, NEW specs \in Seq(Nat)
    PROVE  \E acc : BoundTools(specs) = acc.selected /\ Fitting(acc, specs, Len(specs))
<1>1. PICK f : /\ f[0] = [selected |-> <<>>, used |-> 0]
               /\ BoundTools(specs) = f[Len(specs)].selected
               /\ \A n \in 1..Len(specs) : f[n] = TakeTool(f[n - 1], specs[n])
  BY BoundToolsDefined
<1>2. Len(specs) \in Nat
  BY LenProperties
<1> DEFINE S == {n \in 0..Len(specs) : Fitting(f[n], specs, n)}
<1>3. 0 \in S
  <2>1. PICK acc, none : none = <<>> /\ acc = [selected |-> none, used |-> 0]
    OBVIOUS
  <2>2. none \in Seq(Nat) /\ Len(none) = 0 /\ Total(none) = 0
    BY <2>1, EmptySeq, TotalAppend
  <2>3. acc \in Choice /\ acc.selected = none /\ acc.used = 0
    BY <2>1, <2>2 DEF Choice
  <2>4. 0 <= MaxCatalog /\ 0 <= MaxTools
    BY DEF ContextAssumption
  <2>5. Fitting(acc, specs, 0)
    BY <2>2, <2>3, <2>4 DEF Fitting
  <2>6. QED
    BY <1>1, <1>2, <2>1, <2>5
<1>4. ASSUME NEW n \in 0..(Len(specs) - 1), n \in S PROVE n + 1 \in S
  <2>1. n + 1 \in 1..Len(specs) /\ n + 1 \in 0..Len(specs) /\ (n + 1) - 1 = n
    BY <1>2
  <2>2. f[n + 1] = TakeTool(f[n], specs[n + 1]) /\ Fitting(f[n], specs, n)
    BY <1>1, <1>4, <2>1
  <2>3. PICK acc : acc = f[n]
    OBVIOUS
  <2>4. Fitting(TakeTool(acc, specs[n + 1]), specs, n + 1)
    BY <2>2, <2>3, ToolFits
  <2>5. QED
    BY <2>1, <2>2, <2>3, <2>4
<1>5. 0..Len(specs) \subseteq S
  <2> HIDE DEF S
  <2>1. QED
    BY <1>2, <1>3, <1>4, BoundedInduction
<1>6. Fitting(f[Len(specs)], specs, Len(specs))
  BY <1>2, <1>5
<1>7. QED
  BY <1>1, <1>6

\* What is sent of a well-written log and of a registry fits the budgets.
LEMMA WithinBudgets == ContextAssumption /\ LogWell => BudgetsHold
<1> SUFFICES ASSUME ContextAssumption, LogWell PROVE BudgetsHold
  OBVIOUS
<1>1. PICK sent, tools, used : sent = Sent /\ tools = BoundTools(catalog) /\ used = Total(tools)
  OBVIOUS
<1>2. Len(sent) <= MaxMessages /\ Chars(sent) <= MaxChars
  BY <1>1, HistorySent DEF Sent, LogWell
<1>3. catalog \in Seq(Nat)
  BY DEF LogWell, ContextAssumption
<1>4. PICK acc : tools = acc.selected /\ Fitting(acc, catalog, Len(catalog))
  BY <1>1, <1>3, CatalogFits
<1>5. /\ tools \in Seq(Nat) /\ used = acc.used /\ used \in Nat /\ used <= MaxCatalog
      /\ Len(tools) <= MaxTools /\ \A i \in 1..Len(tools) : tools[i] <= MaxSpec
  BY <1>1, <1>4 DEF Fitting, Choice
<1>6. /\ DOMAIN tools = 1..Len(tools) /\ DOMAIN catalog = 1..Len(catalog)
      /\ \A i \in 1..Len(catalog) : catalog[i] \in Nat
  BY <1>3, <1>5, LenProperties, ElementOfSeq
<1>7. ASSUME Len(tools) < MaxTools, NEW i \in DOMAIN catalog,
             catalog[i] <= MaxSpec, catalog[i] <= MaxCatalog - used
      PROVE  \E j \in DOMAIN tools : tools[j] = catalog[i]
  <2>1. MaxCatalog \in Nat /\ catalog[i] \in Nat /\ i \in 1..Len(catalog)
    BY <1>6 DEF ContextAssumption
  <2>2. acc.used + catalog[i] <= MaxCatalog
    <3>1. \A x, y, m \in Nat : x <= m - y => y + x <= m
      OBVIOUS
    <3>2. used + catalog[i] <= MaxCatalog
      BY <1>5, <1>7, <2>1, <3>1
    <3>3. QED
      BY <1>5, <3>2
  <2>3. \E j \in 1..Len(tools) : tools[j] = catalog[i]
    BY <1>4, <1>7, <2>1, <2>2 DEF Fitting
  <2>4. QED
    BY <1>6, <2>3
<1>8. QED
  BY <1>1, <1>2, <1>5, <1>6, <1>7 DEF BudgetsHold

\* What a model is sent fits every budget, in messages and characters of the history and in
\* tools and characters of the catalog, and no tool that would fit is left out
\* (bound_history, bound_tools).
THEOREM BudgetsAlwaysHold == Spec => []BudgetsHold
<1>1. LogWell => BudgetsHold
  BY ContextAssumption, WithinBudgets
<1>2. QED
  BY <1>1, LogAlwaysWell, PTL
================================================================================
