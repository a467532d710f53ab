-------------------------- MODULE RoundTripProofs --------------------------
(***************************************************************************)
(* What is written is what is read: command lines of any arguments, the    *)
(* helper's among them, and packages of any files.  The models write       *)
(* recursion as recursive functions, which the lemmas unfold by induction  *)
(* on naturals: a set of naturals that is not empty has a least element.   *)
(***************************************************************************)
EXTENDS CommandLine, Bundle, WellFoundedInduction, SequenceTheorems, TLAPS

(* A nonempty set of naturals has a least element. *)
LEMMA Least ==
  ASSUME NEW S \in SUBSET Nat, S # {}
  PROVE  \E n \in S : \A m \in S : ~(m < n)
<1> DEFINE R == OpToRel(<, Nat)
<1>1. IsWellFoundedOn(R, Nat)
  BY NatLessThanWellFounded
<1>2. R = {ss \in Nat \X Nat : ss[1] < ss[2]}
  BY DEF OpToRel
<1> HIDE DEF R
<1>3. PICK n \in S : \A m \in S : ~(<<m, n>> \in R)
  BY <1>1, WFMin
<1>4. \A m \in S : m < n => <<m, n>> \in R
  BY <1>2
<1> QED
  BY <1>3, <1>4

(* Induction over the naturals: the elements that do not have the         *)
(* property would have a least one.                                       *)
LEMMA Induction ==
  ASSUME NEW S, 0 \in S, \A n \in Nat : n \in S => n + 1 \in S
  PROVE  Nat \subseteq S
<1> DEFINE T == Nat \ S
<1>1. SUFFICES ASSUME T # {} PROVE FALSE
  OBVIOUS
<1>2. PICK n \in T : \A m \in T : ~(m < n)
  BY <1>1, Least
<1>3. n # 0 /\ n - 1 \in Nat /\ n - 1 < n
  OBVIOUS
<1>4. n - 1 \in S
  BY <1>2, <1>3
<1> QED
  BY <1>3, <1>4

(* Induction up to a bound, for functions that are defined that far. *)
LEMMA InductionUpTo ==
  ASSUME NEW L \in Nat, NEW S, 0 \in S, \A n \in 0..(L - 1) : n \in S => n + 1 \in S
  PROVE  0..L \subseteq S
<1> DEFINE T == {n \in Nat : n <= L => n \in S}
<1>1. 0 \in T
  OBVIOUS
<1>2. ASSUME NEW n \in Nat, n \in T PROVE n + 1 \in T
  BY <1>2
<1> HIDE DEF T
<1>3. Nat \subseteq T
  BY <1>1, <1>2, Induction
<1> QED
  BY <1>3 DEF T

-----------------------------------------------------------------------------
(* What the recursive functions are *)

(* The recursive function of the reader exists: each of its values comes  *)
(* from the one before it.                                                *)
LEMMA ReadingIs ==
  ASSUME NEW s, NEW line, Len(line) \in Nat
  PROVE  Reading(s, line) =
           [n \in 0..Len(line) |-> IF n = 0 THEN s ELSE ArgvStep(Reading(s, line)[n - 1], line[n])]
<1> DEFINE Up(k, f) == f = [n \in 0..k |-> IF n = 0 THEN s ELSE ArgvStep(f[n - 1], line[n])]
           L == Len(line)
           S == {k \in Nat : \E f : Up(k, f)}
<1>1. 0 \in S
  <2>1. Up(0, [n \in 0..0 |-> s])
    OBVIOUS
  <2> QED
    BY <2>1
<1>2. ASSUME NEW k \in Nat, k \in S PROVE k + 1 \in S
  <2>1. PICK f : Up(k, f)
    BY <1>2
  <2> DEFINE g == [n \in 0..(k + 1) |-> IF n = k + 1 THEN ArgvStep(f[k], line[k + 1]) ELSE f[n]]
  <2>2. \A n \in 0..k : f[n] = IF n = 0 THEN s ELSE ArgvStep(f[n - 1], line[n])
    BY <2>1
  <2>7. \A n \in 0..k : g[n] = f[n]
    OBVIOUS
  <2>8. g[k + 1] = ArgvStep(f[k], line[k + 1]) /\ g = [n \in 0..(k + 1) |-> g[n]]
    OBVIOUS
  <2> HIDE DEF g
  <2>3. ASSUME NEW n \in 0..(k + 1)
        PROVE  g[n] = IF n = 0 THEN s ELSE ArgvStep(g[n - 1], line[n])
    <3>1. CASE n = k + 1
      <4>1. n - 1 = k /\ n # 0 /\ g[k] = f[k]
        BY <3>1, <2>7
      <4> QED
        BY <3>1, <4>1, <2>8
    <3>2. CASE n # k + 1
      <4>1. n \in 0..k /\ (n # 0 => n - 1 \in 0..k)
        BY <3>2
      <4> QED
        BY <4>1, <2>2, <2>7
    <3> QED
      BY <3>1, <3>2
  <2>4. Up(k + 1, g)
    BY <2>3, <2>8
  <2> QED
    BY <2>4
<1>3. L \in S
  <2> HIDE DEF S
  <2> QED
    BY <1>1, <1>2, Induction
<1>4. \E f : Up(L, f)
  BY <1>3
<1>5. Reading(s, line) = CHOOSE f : Up(L, f)
  BY DEF Reading
<1> QED
  BY <1>4, <1>5

(* a quoted argument before its first symbol *)
Opened == [out |-> <<"qt">>, slashes |-> 0]

(* The recursive function of the quoting exists as well. *)
LEMMA QuotingIs ==
  ASSUME NEW arg, Len(arg) \in Nat
  PROVE  Quoting(arg) =
           [n \in 0..Len(arg) |-> IF n = 0 THEN Opened ELSE QuoteStep(Quoting(arg)[n - 1], arg[n])]
<1> DEFINE Up(k, f) == f = [n \in 0..k |-> IF n = 0 THEN Opened ELSE QuoteStep(f[n - 1], arg[n])]
           L == Len(arg)
           S == {k \in Nat : \E f : Up(k, f)}
<1>1. 0 \in S
  <2>1. Up(0, [n \in 0..0 |-> Opened])
    OBVIOUS
  <2> QED
    BY <2>1
<1>2. ASSUME NEW k \in Nat, k \in S PROVE k + 1 \in S
  <2>1. PICK f : Up(k, f)
    BY <1>2
  <2> DEFINE g == [n \in 0..(k + 1) |-> IF n = k + 1 THEN QuoteStep(f[k], arg[k + 1]) ELSE f[n]]
  <2>2. \A n \in 0..k : f[n] = IF n = 0 THEN Opened ELSE QuoteStep(f[n - 1], arg[n])
    BY <2>1
  <2>7. \A n \in 0..k : g[n] = f[n]
    OBVIOUS
  <2>8. g[k + 1] = QuoteStep(f[k], arg[k + 1]) /\ g = [n \in 0..(k + 1) |-> g[n]]
    OBVIOUS
  <2> HIDE DEF g
  <2>3. ASSUME NEW n \in 0..(k + 1)
        PROVE  g[n] = IF n = 0 THEN Opened ELSE QuoteStep(g[n - 1], arg[n])
    <3>1. CASE n = k + 1
      <4>1. n - 1 = k /\ n # 0 /\ g[k] = f[k]
        BY <3>1, <2>7
      <4> QED
        BY <3>1, <4>1, <2>8
    <3>2. CASE n # k + 1
      <4>1. n \in 0..k /\ (n # 0 => n - 1 \in 0..k)
        BY <3>2
      <4> QED
        BY <4>1, <2>2, <2>7
    <3> QED
      BY <3>1, <3>2
  <2>4. Up(k + 1, g)
    BY <2>3, <2>8
  <2> QED
    BY <2>4
<1>3. L \in S
  <2> HIDE DEF S
  <2> QED
    BY <1>1, <1>2, Induction
<1>4. \E f : Up(L, f)
  BY <1>3
<1>5. Quoting(arg) = CHOOSE f : Up(L, f)
  BY DEF Quoting, Opened
<1> QED
  BY <1>4, <1>5

-----------------------------------------------------------------------------
(* Reading piece by piece *)

(* What the reader knows after k symbols depends on those alone, so it    *)
(* can be read off a shorter line.                                        *)
LEMMA ReadingAt ==
  ASSUME NEW s, NEW T, NEW line \in Seq(T)
  PROVE  /\ Reading(s, line)[0] = s
         /\ \A n \in 1..Len(line) :
              Reading(s, line)[n] = ArgvStep(Reading(s, line)[n - 1], line[n])
<1>1. Len(line) \in Nat
  OBVIOUS
<1> DEFINE f == Reading(s, line)
<1>2. f = [n \in 0..Len(line) |-> IF n = 0 THEN s ELSE ArgvStep(f[n - 1], line[n])]
  BY <1>1, ReadingIs
<1> HIDE DEF f
<1>3. \A n \in 0..Len(line) : f[n] = IF n = 0 THEN s ELSE ArgvStep(f[n - 1], line[n])
  BY <1>2
<1>4. f[0] = s
  BY <1>1, <1>3
<1>5. \A n \in 1..Len(line) : f[n] = ArgvStep(f[n - 1], line[n])
  BY <1>1, <1>3
<1> QED
  BY <1>4, <1>5 DEF f

(* An empty line leaves the reader as it was. *)
LEMMA ReadNothing == \A s : ReadFrom(s, <<>>) = s
<1> TAKE s
<1>1. <<>> \in Seq({})
  OBVIOUS
<1> QED
  BY <1>1, ReadingAt DEF ReadFrom

(* A line of one symbol is one step of the reader. *)
LEMMA ReadOne == \A s, c : ReadFrom(s, <<c>>) = ArgvStep(s, c)
<1> TAKE s, c
<1> DEFINE l == <<c>>
           T == {c}
<1>1. l \in Seq(T) /\ Len(l) = 1 /\ l[1] = c
  OBVIOUS
<1> HIDE DEF l, T
<1>2. /\ Reading(s, l)[0] = s
      /\ \A n \in 1..Len(l) : Reading(s, l)[n] = ArgvStep(Reading(s, l)[n - 1], l[n])
  BY <1>1, ReadingAt
<1>3. 1 \in 1..Len(l) /\ 1 - 1 = 0
  BY <1>1
<1>4. Reading(s, l)[1] = ArgvStep(s, c)
  BY <1>1, <1>2, <1>3
<1>5. ReadFrom(s, l) = ArgvStep(s, c)
  BY <1>1, <1>4 DEF ReadFrom
<1> QED
  BY <1>5 DEF l

(* Reading two lines, one behind the other, is reading the second from    *)
(* where the first left the reader.                                       *)
LEMMA ReadConcat ==
  ASSUME NEW s, NEW T, NEW l \in Seq(T), NEW m \in Seq(T)
  PROVE  ReadFrom(s, l \o m) = ReadFrom(ReadFrom(s, l), m)
<1> DEFINE a == Len(l)
           b == Len(m)
           f == Reading(s, l \o m)
           g == Reading(s, l)
           h == Reading(g[a], m)
<1>1. /\ a \in Nat /\ b \in Nat
      /\ l \o m \in Seq(T) /\ Len(l \o m) = a + b
      /\ \A i \in 1..a : (l \o m)[i] = l[i]
      /\ \A i \in 1..b : (l \o m)[a + i] = m[i]
  OBVIOUS
<1>2. /\ f[0] = s
      /\ \A n \in 1..(a + b) : f[n] = ArgvStep(f[n - 1], (l \o m)[n])
  <2> DEFINE k == l \o m
  <2>1. k \in Seq(T) /\ Len(k) = a + b
    BY <1>1
  <2> HIDE DEF k
  <2>2. /\ Reading(s, k)[0] = s
        /\ \A n \in 1..Len(k) : Reading(s, k)[n] = ArgvStep(Reading(s, k)[n - 1], k[n])
    BY <2>1, ReadingAt
  <2>3. /\ Reading(s, k)[0] = s
        /\ \A n \in 1..(a + b) : Reading(s, k)[n] = ArgvStep(Reading(s, k)[n - 1], k[n])
    BY <2>1, <2>2
  <2> QED
    BY <2>3 DEF k
<1>3. /\ g[0] = s
      /\ \A n \in 1..a : g[n] = ArgvStep(g[n - 1], l[n])
  BY ReadingAt
<1>4. /\ h[0] = g[a]
      /\ \A n \in 1..b : h[n] = ArgvStep(h[n - 1], m[n])
  BY ReadingAt
<1>5. ReadFrom(s, l \o m) = f[a + b] /\ ReadFrom(ReadFrom(s, l), m) = h[b]
  BY <1>1 DEF ReadFrom
<1> HIDE DEF a, b, f, g, h
<1>6. f[a] = g[a]
  <2> DEFINE S == {n \in 0..a : f[n] = g[n]}
  <2>1. 0 \in S
    BY <1>1, <1>2, <1>3
  <2>2. ASSUME NEW n \in 0..(a - 1), n \in S PROVE n + 1 \in S
    <3>1. n + 1 \in 1..a /\ n + 1 \in 1..(a + b) /\ (n + 1) - 1 = n /\ n + 1 \in 0..a
      BY <1>1
    <3>2. f[n + 1] = ArgvStep(f[n], (l \o m)[n + 1]) /\ g[n + 1] = ArgvStep(g[n], l[n + 1])
      BY <1>2, <1>3, <3>1
    <3> QED
      BY <1>1, <2>2, <3>1, <3>2
  <2>3. 0..a \subseteq S
    <3> HIDE DEF S
    <3> QED
      BY <1>1, <2>1, <2>2, InductionUpTo
  <2> QED
    BY <1>1, <2>3
<1>7. f[a + b] = h[b]
  <2> DEFINE S == {n \in 0..b : f[a + n] = h[n]}
  <2>1. 0 \in S
    BY <1>1, <1>4, <1>6
  <2>2. ASSUME NEW n \in 0..(b - 1), n \in S PROVE n + 1 \in S
    <3>1. /\ n + 1 \in 1..b /\ a + (n + 1) \in 1..(a + b) /\ (n + 1) - 1 = n
          /\ a + (n + 1) - 1 = a + n /\ n + 1 \in 0..b
      BY <1>1
    <3>2. f[a + (n + 1)] = ArgvStep(f[a + n], (l \o m)[a + (n + 1)])
      <4>1. PICK k \in 1..(a + b) : k = a + (n + 1) /\ k - 1 = a + n
        BY <1>1, <3>1
      <4>2. f[k] = ArgvStep(f[k - 1], (l \o m)[k])
        BY <1>2
      <4> QED
        BY <4>1, <4>2
    <3>3. h[n + 1] = ArgvStep(h[n], m[n + 1]) /\ f[a + n] = h[n]
      BY <1>4, <2>2, <3>1
    <3> QED
      BY <1>1, <3>1, <3>2, <3>3
  <2>3. 0..b \subseteq S
    <3> HIDE DEF S
    <3> QED
      BY <1>1, <2>1, <2>2, InductionUpTo
  <2> QED
    BY <1>1, <2>3
<1> QED
  BY <1>5, <1>7

-----------------------------------------------------------------------------
(* The states of the reader between two arguments (Between), in one that   *)
(* was begun without a quote, in a quoted one, and behind its closing quote*)

Bare(args, arg, slashes) ==
  [args |-> args, arg |-> arg, some |-> TRUE, slashes |-> slashes, quoted |-> FALSE,
   closed |-> FALSE]

Quoted(args, arg, slashes) ==
  [args |-> args, arg |-> arg, some |-> TRUE, slashes |-> slashes, quoted |-> TRUE,
   closed |-> FALSE]

Closed(args, arg) ==
  [args |-> args, arg |-> arg, some |-> TRUE, slashes |-> 0, quoted |-> FALSE,
   closed |-> TRUE]

(* Between two arguments a blank is skipped, a quote starts a quoted      *)
(* argument, and any other symbol one without quotes.                     *)
LEMMA StepBetween ==
  ASSUME NEW a
  PROVE  /\ ArgvStep(Between(a), "bs") = Bare(a, <<>>, 1)
         /\ ArgvStep(Between(a), "sp") = Between(a)
         /\ ArgvStep(Between(a), "qt") = Quoted(a, <<>> \o Slashes(0), 0)
         /\ \A c : c \notin {"bs", "qt", "sp"} =>
              ArgvStep(Between(a), c) = Bare(a, <<>> \o Slashes(0) \o <<c>>, 0)
<1> DEFINE r == Between(a)
<1>0. /\ r.args = a /\ r.arg = <<>> /\ r.slashes = 0 /\ r.some = FALSE
      /\ r.quoted = FALSE /\ r.closed = FALSE
  BY DEF Between
<1>1. ArgvStep(Between(a), "bs") = Bare(a, <<>>, 1)
  <2>1. ArgvStep(r, "bs") = [r EXCEPT !.slashes = @ + 1, !.some = TRUE, !.closed = FALSE]
    <3> HIDE DEF r
    <3> QED
      BY <1>0 DEF ArgvStep
  <2>2. r.slashes + 1 = 1
    BY <1>0
  <2> QED
    BY <2>1, <2>2 DEF Between, Bare
<1>2. ArgvStep(Between(a), "sp") = Between(a)
  BY DEF ArgvStep, Between
<1>3. ArgvStep(Between(a), "qt") = Quoted(a, <<>> \o Slashes(0), 0)
  <2>1. 0 % 2 = 0 /\ 0 \div 2 = 0
    OBVIOUS
  <2>2. ArgvStep(r, "qt") = [r EXCEPT !.arg = @ \o Slashes(r.slashes \div 2), !.slashes = 0,
                                      !.some = TRUE, !.quoted = ~r.quoted, !.closed = r.quoted]
    <3> HIDE DEF r
    <3> QED
      BY <1>0, <2>1 DEF ArgvStep
  <2>3. (~r.quoted) = TRUE /\ r.quoted = FALSE /\ Slashes(r.slashes \div 2) = Slashes(0)
    BY <1>0, <2>1
  <2> QED
    BY <2>2, <2>3 DEF Between, Quoted
<1>4. ASSUME NEW c, c \notin {"bs", "qt", "sp"}
      PROVE  ArgvStep(Between(a), c) = Bare(a, <<>> \o Slashes(0) \o <<c>>, 0)
  BY <1>4 DEF ArgvStep, Between, Bare
<1> QED
  BY <1>1, <1>2, <1>3, <1>4

(* In an argument without a quote a blank ends it, backslashes are        *)
(* counted and every other symbol is taken as it is.                      *)
LEMMA StepBare ==
  ASSUME NEW a, NEW g, NEW n \in Nat
  PROVE  /\ ArgvStep(Bare(a, g, n), "bs") = Bare(a, g, n + 1)
         /\ ArgvStep(Bare(a, g, n), "sp") = Between(Append(a, g \o Slashes(n)))
         /\ \A c : c \notin {"bs", "qt", "sp"} =>
              ArgvStep(Bare(a, g, n), c) = Bare(a, g \o Slashes(n) \o <<c>>, 0)
BY DEF ArgvStep, Bare, Between

(* Two backslashes in quotes are one before a quote, but as many          *)
(* elsewhere; a quote after an odd number of them is a symbol, after an   *)
(* even one it closes the argument.                                       *)
LEMMA StepQuoted ==
  ASSUME NEW a, NEW g, NEW n \in Nat
  PROVE  /\ ArgvStep(Quoted(a, g, n), "bs") = Quoted(a, g, n + 1)
         /\ ArgvStep(Quoted(a, g, 2 * n + 1), "qt") = Quoted(a, g \o Slashes(n) \o <<"qt">>, 0)
         /\ ArgvStep(Quoted(a, g, 2 * n), "qt") = Closed(a, g \o Slashes(n))
         /\ \A c : c \notin {"bs", "qt"} =>
              ArgvStep(Quoted(a, g, n), c) = Quoted(a, g \o Slashes(n) \o <<c>>, 0)
<1>1. ArgvStep(Quoted(a, g, n), "bs") = Quoted(a, g, n + 1)
  BY DEF ArgvStep, Quoted
<1>2. ArgvStep(Quoted(a, g, 2 * n + 1), "qt") = Quoted(a, g \o Slashes(n) \o <<"qt">>, 0)
  <2> DEFINE k == 2 * n + 1
             r == Quoted(a, g, k)
  <2>1. k \in Nat /\ k % 2 = 1 /\ k \div 2 = n
    OBVIOUS
  <2> HIDE DEF k
  <2>2. r.slashes = k
    BY DEF Quoted
  <2>3. ArgvStep(r, "qt") = [r EXCEPT !.arg = @ \o Slashes(r.slashes \div 2) \o <<"qt">>, !.slashes = 0]
    <3> HIDE DEF r
    <3> QED
      BY <2>1, <2>2 DEF ArgvStep
  <2>4. ArgvStep(r, "qt") = Quoted(a, g \o Slashes(k \div 2) \o <<"qt">>, 0)
    BY <2>3 DEF Quoted
  <2> QED
    BY <2>1, <2>4 DEF k
<1>3. ArgvStep(Quoted(a, g, 2 * n), "qt") = Closed(a, g \o Slashes(n))
  <2> DEFINE k == 2 * n
             r == Quoted(a, g, k)
  <2>1. k \in Nat /\ k % 2 = 0 /\ k \div 2 = n
    OBVIOUS
  <2> HIDE DEF k
  <2>2. r.slashes = k /\ r.quoted = TRUE /\ r.closed = FALSE
    BY DEF Quoted
  <2>3. ArgvStep(r, "qt") = [r EXCEPT !.arg = @ \o Slashes(r.slashes \div 2), !.slashes = 0,
                                      !.some = TRUE, !.quoted = ~r.quoted, !.closed = r.quoted]
    <3> HIDE DEF r
    <3> QED
      BY <2>1, <2>2 DEF ArgvStep
  <2>4. (~r.quoted) = FALSE /\ r.quoted = TRUE
    BY <2>2
  <2>5. ArgvStep(r, "qt") = Closed(a, g \o Slashes(k \div 2))
    BY <2>2, <2>3, <2>4 DEF Quoted, Closed
  <2> QED
    BY <2>1, <2>5 DEF k
<1>4. ASSUME NEW c, c \notin {"bs", "qt"}
      PROVE  ArgvStep(Quoted(a, g, n), c) = Quoted(a, g \o Slashes(n) \o <<c>>, 0)
  BY <1>4 DEF ArgvStep, Quoted
<1> QED
  BY <1>1, <1>2, <1>3, <1>4

(* Behind its closing quote a blank ends an argument. *)
LEMMA StepClosed ==
  ASSUME NEW a, NEW g
  PROVE  ArgvStep(Closed(a, g), "sp") = Between(Append(a, g \o Slashes(0)))
BY DEF ArgvStep, Closed, Between

-----------------------------------------------------------------------------
(* Backslashes *)

(* Provers do not know that "bs" is a STRING. *)
Symbol == STRING \cup {"bs", "qt", "sp"}

(* Every word is a symbol. *)
LEMMA Symbols ==
  /\ "bs" \in Symbol /\ "qt" \in Symbol /\ "sp" \in Symbol
  /\ STRING \subseteq Symbol
BY DEF Symbol

(* One symbol makes a line. *)
LEMMA OneSymbol ==
  ASSUME NEW c \in Symbol
  PROVE  <<c>> \in Seq(Symbol)
OBVIOUS

(* Reading one symbol more is one more step of the reader. *)
LEMMA ReadMore ==
  ASSUME NEW s, NEW l \in Seq(Symbol), NEW c \in Symbol
  PROVE  /\ l \o <<c>> \in Seq(Symbol)
         /\ ReadFrom(s, l \o <<c>>) = ArgvStep(ReadFrom(s, l), c)
<1> DEFINE o == <<c>>
<1>1. o \in Seq(Symbol)
  BY OneSymbol
<1>2. \A r : ReadFrom(r, o) = ArgvStep(r, c)
  BY ReadOne
<1> HIDE DEF o
<1>3. l \o o \in Seq(Symbol) /\ ReadFrom(s, l \o o) = ReadFrom(ReadFrom(s, l), o)
  BY <1>1, ReadConcat, ConcatProperties
<1>4. l \o o \in Seq(Symbol) /\ ReadFrom(s, l \o o) = ArgvStep(ReadFrom(s, l), c)
  BY <1>2, <1>3
<1> QED
  BY <1>4 DEF o

(* A run of backslashes grows by one at its end. *)
LEMMA SlashesAre ==
  ASSUME NEW n \in Nat
  PROVE  /\ Slashes(n) \in Seq(Symbol) /\ Len(Slashes(n)) = n
         /\ Slashes(0) = <<>>
         /\ Slashes(n + 1) = Slashes(n) \o <<"bs">>
<1>1. ASSUME NEW k \in Nat
      PROVE  Slashes(k) \in Seq(Symbol) /\ Len(Slashes(k)) = k /\ \A i \in 1..k : Slashes(k)[i] = "bs"
  <2>1. Slashes(k) = [i \in 1..k |-> "bs"] /\ "bs" \in Symbol
    BY Symbols DEF Slashes
  <2>2. Slashes(k) \in Seq(Symbol)
    BY <2>1
  <2>3. DOMAIN Slashes(k) = 1..k
    BY <2>1
  <2>4. Len(Slashes(k)) = k
    BY <2>2, <2>3, LenProperties
  <2> QED
    BY <2>1, <2>2, <2>4
<1>2. Slashes(0) = <<>>
  BY <1>1
<1>3. Slashes(n + 1) = Slashes(n) \o <<"bs">>
  <2> DEFINE s == Slashes(n)
             t == Slashes(n + 1)
             u == s \o <<"bs">>
  <2>1. /\ s \in Seq(Symbol) /\ Len(s) = n /\ \A i \in 1..n : s[i] = "bs"
        /\ t \in Seq(Symbol) /\ Len(t) = n + 1 /\ \A i \in 1..(n + 1) : t[i] = "bs"
    BY <1>1
  <2> HIDE DEF s, t
  <2>2. u \in Seq(Symbol) /\ Len(u) = n + 1 /\ \A i \in 1..(n + 1) : u[i] = "bs"
    BY <2>1
  <2> HIDE DEF u
  <2>3. t = u
    BY <2>1, <2>2, SeqEqual
  <2> QED
    BY <2>3 DEF s, t, u
<1> QED
  BY <1>1, <1>2, <1>3

(* In quotes the reader counts backslashes and holds them back until it   *)
(* knows what follows them.                                               *)
LEMMA ReadSlashes ==
  ASSUME NEW a, NEW g, NEW n \in Nat
  PROVE  ReadFrom(Quoted(a, g, 0), Slashes(n)) = Quoted(a, g, n)
<1> DEFINE S == {k \in Nat : ReadFrom(Quoted(a, g, 0), Slashes(k)) = Quoted(a, g, k)}
<1>1. 0 \in S
  <2>1. Slashes(0) = <<>>
    BY SlashesAre
  <2> QED
    BY <2>1, ReadNothing
<1>2. ASSUME NEW k \in Nat, k \in S PROVE k + 1 \in S
  <2>1. /\ Slashes(k) \in Seq(Symbol) /\ "bs" \in Symbol
        /\ Slashes(k + 1) = Slashes(k) \o <<"bs">>
    BY SlashesAre, Symbols
  <2>2. ReadFrom(Quoted(a, g, 0), Slashes(k + 1))
          = ArgvStep(ReadFrom(Quoted(a, g, 0), Slashes(k)), "bs")
    BY <2>1, ReadMore
  <2>3. ReadFrom(Quoted(a, g, 0), Slashes(k)) = Quoted(a, g, k)
    BY <1>2
  <2>4. ArgvStep(Quoted(a, g, k), "bs") = Quoted(a, g, k + 1)
    BY StepQuoted
  <2> QED
    BY <2>2, <2>3, <2>4
<1>3. n \in S
  <2> HIDE DEF S
  <2> QED
    BY <1>1, <1>2, Induction
<1> QED
  BY <1>3

-----------------------------------------------------------------------------
(* What quoting writes, reading takes back *)

(* The quoting goes symbol by symbol, each step from the result of the    *)
(* one before.                                                            *)
LEMMA QuotingAt ==
  ASSUME NEW T, NEW arg \in Seq(T)
  PROVE  /\ Quoting(arg)[0] = Opened
         /\ \A n \in 1..Len(arg) :
              Quoting(arg)[n] = QuoteStep(Quoting(arg)[n - 1], arg[n])
<1>1. Len(arg) \in Nat
  OBVIOUS
<1> DEFINE f == Quoting(arg)
<1>2. f = [n \in 0..Len(arg) |-> IF n = 0 THEN Opened ELSE QuoteStep(f[n - 1], arg[n])]
  BY <1>1, QuotingIs
<1> HIDE DEF f
<1>3. \A n \in 0..Len(arg) : f[n] = IF n = 0 THEN Opened ELSE QuoteStep(f[n - 1], arg[n])
  BY <1>2
<1>4. f[0] = Opened
  BY <1>1, <1>3
<1>5. \A n \in 1..Len(arg) : f[n] = QuoteStep(f[n - 1], arg[n])
  BY <1>1, <1>3
<1> QED
  BY <1>4, <1>5 DEF f

(* After n symbols of arg the reader of what was written has them all, but *)
(* for the backslashes that are held back.                                 *)
Follows(a, arg, n, w) ==
  /\ w \in [out : Seq(Symbol), slashes : Nat]
  /\ \E g \in Seq(Symbol) :
       /\ g \o Slashes(w.slashes) = SubSeq(arg, 1, n)
       /\ ReadFrom(Between(a), w.out) = Quoted(a, g, 0)

(* The opening quote brings the reader into a quoted argument, from       *)
(* wherever arguments are read.                                           *)
LEMMA OpenedFollows ==
  ASSUME NEW a, NEW arg \in Seq(Symbol)
  PROVE  Follows(a, arg, 0, Opened)
<1>1. Slashes(0) = <<>> /\ <<>> \o <<>> = <<>> /\ SubSeq(arg, 1, 0) = <<>>
  BY SlashesAre
<1>2. ReadFrom(Between(a), <<"qt">>) = Quoted(a, <<>>, 0)
  BY <1>1, StepBetween, ReadOne
<1>3. Opened.slashes = 0 /\ Opened.out = <<"qt">>
  BY DEF Opened
<1>4. Opened.out \in Seq(Symbol) /\ <<>> \in Seq(Symbol)
  BY <1>3, OneSymbol, Symbols
<1>6. Opened \in [out : Seq(Symbol), slashes : Nat]
  BY <1>3, <1>4 DEF Opened
<1>5. /\ <<>> \o Slashes(Opened.slashes) = SubSeq(arg, 1, 0)
      /\ ReadFrom(Between(a), Opened.out) = Quoted(a, <<>>, 0)
  BY <1>1, <1>2, <1>3
<1> QED
  BY <1>4, <1>5, <1>6 DEF Follows

(* Appending a symbol to a concatenation appends it to the second part. *)
LEMMA Associative ==
  ASSUME NEW g \in Seq(Symbol), NEW h \in Seq(Symbol), NEW c \in Symbol
  PROVE  (g \o h) \o <<c>> = g \o (h \o <<c>>)
<1> DEFINE o == <<c>>
<1>1. o \in Seq(Symbol)
  BY OneSymbol
<1> HIDE DEF o
<1>2. (g \o h) \o o = g \o (h \o o)
  BY <1>1, ConcatAssociative
<1> QED
  BY <1>2 DEF o

(* The reader follows the quoting: when one more symbol is quoted, what   *)
(* was written reads as one more symbol, with the same backslashes        *)
(* pending.                                                               *)
LEMMA QuoteStepFollows ==
  ASSUME NEW a, NEW arg \in Seq(Symbol), NEW n \in 0..(Len(arg) - 1), NEW w,
         Follows(a, arg, n, w)
  PROVE  Follows(a, arg, n + 1, QuoteStep(w, arg[n + 1]))
<1> DEFINE c == arg[n + 1]
           m == w.slashes
           v == QuoteStep(w, c)
           s == Slashes(m)
           p == SubSeq(arg, 1, n)
           q == SubSeq(arg, 1, n + 1)
<1>1. PICK g \in Seq(Symbol) :
        g \o s = p /\ ReadFrom(Between(a), w.out) = Quoted(a, g, 0)
  BY DEF Follows
<1>2. /\ w \in [out : Seq(Symbol), slashes : Nat] /\ m \in Nat /\ w.out \in Seq(Symbol)
      /\ s \in Seq(Symbol)
  BY SlashesAre DEF Follows
<1>3. c \in Symbol /\ p \in Seq(Symbol) /\ q = p \o <<c>>
  OBVIOUS
<1>4. q = g \o (s \o <<c>>) /\ q = g \o s \o <<c>>
  <2> HIDE DEF c, m, s, p, q
  <2>1. (g \o s) \o <<c>> = g \o (s \o <<c>>)
    BY <1>2, <1>3, Associative
  <2> QED
    BY <1>1, <1>3, <2>1
<1>5. ASSUME NEW k \in Nat
      PROVE  /\ w.out \o Slashes(k) \in Seq(Symbol)
             /\ ReadFrom(Between(a), w.out \o Slashes(k)) = Quoted(a, g, k)
  <2>1. Slashes(k) \in Seq(Symbol)
    BY SlashesAre
  <2>2. ReadFrom(Between(a), w.out \o Slashes(k)) = ReadFrom(Quoted(a, g, 0), Slashes(k))
    BY <1>1, <1>2, <2>1, ReadConcat
  <2> QED
    BY <1>2, <2>1, <2>2, ReadSlashes, ConcatProperties
<1>6. SUFFICES /\ v \in [out : Seq(Symbol), slashes : Nat]
               /\ \E h \in Seq(Symbol) :
                    h \o Slashes(v.slashes) = q /\ ReadFrom(Between(a), v.out) = Quoted(a, h, 0)
  BY DEF Follows
<1>7. q \in Seq(Symbol) /\ q \o Slashes(0) = q
  <2>1. q \in Seq(Symbol)
    BY <1>3
  <2>2. Slashes(0) = <<>>
    BY SlashesAre
  <2> HIDE DEF q
  <2> QED
    BY <2>1, <2>2, ConcatEmptySeq
<1> HIDE DEF c, m, s, p, q
<1>8. CASE c = "bs"
  <2>1. v = [w EXCEPT !.slashes = m + 1]
    BY <1>8 DEF QuoteStep, m
  <2>2. v.out = w.out /\ v.slashes = m + 1 /\ v \in [out : Seq(Symbol), slashes : Nat]
    BY <1>2, <2>1
  <2>3. Slashes(m + 1) = s \o <<c>>
    BY <1>2, <1>8, SlashesAre DEF s
  <2> QED
    BY <1>1, <1>4, <2>2, <2>3
<1>9. CASE c = "qt"
  <2> DEFINE l == w.out \o Slashes(2 * m + 1)
  <2>1. v = [out |-> l \o <<c>>, slashes |-> 0]
    BY <1>9 DEF QuoteStep, m
  <2>2. l \in Seq(Symbol) /\ ReadFrom(Between(a), l) = Quoted(a, g, 2 * m + 1)
    BY <1>2, <1>5, 2 * m + 1 \in Nat
  <2> HIDE DEF l
  <2>3. /\ l \o <<c>> \in Seq(Symbol)
        /\ ReadFrom(Between(a), l \o <<c>>) = ArgvStep(Quoted(a, g, 2 * m + 1), "qt")
    BY <1>3, <1>9, <2>2, ReadMore
  <2>4. ArgvStep(Quoted(a, g, 2 * m + 1), "qt") = Quoted(a, q, 0)
    <3>1. ArgvStep(Quoted(a, g, 2 * m + 1), "qt") = Quoted(a, g \o Slashes(m) \o <<"qt">>, 0)
      BY <1>2, StepQuoted
    <3>2. q = g \o Slashes(m) \o <<"qt">>
      BY <1>4, <1>9 DEF s
    <3> QED
      BY <3>1, <3>2
  <2>5. v \in [out : Seq(Symbol), slashes : Nat] /\ v.slashes = 0 /\ v.out = l \o <<c>>
    BY <2>1, <2>3
  <2> QED
    BY <1>7, <2>3, <2>4, <2>5
<1>10. CASE c \notin {"bs", "qt"}
  <2> DEFINE l == w.out \o s
  <2>1. v = [out |-> l \o <<c>>, slashes |-> 0]
    BY <1>10 DEF QuoteStep, m, s
  <2>2. l \in Seq(Symbol) /\ ReadFrom(Between(a), l) = Quoted(a, g, m)
    BY <1>2, <1>5 DEF s
  <2> HIDE DEF l
  <2>3. /\ l \o <<c>> \in Seq(Symbol)
        /\ ReadFrom(Between(a), l \o <<c>>) = ArgvStep(Quoted(a, g, m), c)
    BY <1>3, <2>2, ReadMore
  <2>4. ArgvStep(Quoted(a, g, m), c) = Quoted(a, q, 0)
    <3>1. ArgvStep(Quoted(a, g, m), c) = Quoted(a, g \o Slashes(m) \o <<c>>, 0)
      BY <1>2, <1>10, StepQuoted
    <3>2. q = g \o Slashes(m) \o <<c>>
      BY <1>4 DEF s
    <3> QED
      BY <3>1, <3>2
  <2>5. v \in [out : Seq(Symbol), slashes : Nat] /\ v.slashes = 0 /\ v.out = l \o <<c>>
    BY <2>1, <2>3
  <2> QED
    BY <1>7, <2>3, <2>4, <2>5
<1> QED
  BY <1>8, <1>9, <1>10

(* So the reader has read the whole of an argument when all of it has     *)
(* been quoted.                                                           *)
LEMMA QuotingFollows ==
  ASSUME NEW a, NEW arg \in Seq(Symbol)
  PROVE  Follows(a, arg, Len(arg), Quoting(arg)[Len(arg)])
<1> DEFINE f == Quoting(arg)
           L == Len(arg)
           S == {n \in 0..L : Follows(a, arg, n, f[n])}
<1>1. L \in Nat
  OBVIOUS
<1>2. f[0] = Opened /\ \A n \in 1..L : f[n] = QuoteStep(f[n - 1], arg[n])
  BY QuotingAt
<1> HIDE DEF f
<1>3. 0 \in S
  BY <1>1, <1>2, OpenedFollows
<1>4. ASSUME NEW n \in 0..(L - 1), n \in S PROVE n + 1 \in S
  <2>1. n + 1 \in 1..L /\ n + 1 \in 0..L /\ (n + 1) - 1 = n
    BY <1>1
  <2>2. f[n + 1] = QuoteStep(f[n], arg[n + 1])
    BY <1>2, <2>1
  <2>3. Follows(a, arg, n + 1, QuoteStep(f[n], arg[n + 1]))
    BY <1>4, QuoteStepFollows
  <2> QED
    BY <2>1, <2>2, <2>3
<1>5. L \in S
  <2> HIDE DEF S, L
  <2> QED
    <3>1. 0..L \subseteq S
      BY <1>1, <1>3, <1>4, InductionUpTo
    <3>2. L \in 0..L
      BY <1>1
    <3> QED
      BY <3>1, <3>2
<1> QED
  BY <1>5 DEF f

(* without a quote around it *)
FollowsBare(a, arg, n) ==
  \E g \in Seq(Symbol), k \in Nat :
    /\ g \o Slashes(k) = SubSeq(arg, 1, n)
    /\ ReadFrom(Between(a), SubSeq(arg, 1, n)) = Bare(a, g, k)

(* The first symbol of an argument that needs no quotes is read as        *)
(* itself.                                                                *)
LEMMA FirstBare ==
  ASSUME NEW a, NEW arg \in Seq(Symbol), arg # <<>>, arg[1] \notin {"qt", "sp"}
  PROVE  FollowsBare(a, arg, 1)
<1> DEFINE c == arg[1]
           l == SubSeq(arg, 1, 1)
<1>1. c \in Symbol /\ l \in Seq(Symbol) /\ l = <<>> \o <<c>>
  <2>1. Len(arg) \in Nat /\ Len(arg) # 0 /\ 1 \in 1..Len(arg) /\ 1 - 1 = 0
    OBVIOUS
  <2>2. l = SubSeq(arg, 1, 1 - 1) \o <<c>>
    BY <2>1, SubSeqRecursiveSecond
  <2>3. SubSeq(arg, 1, 1 - 1) = <<>>
    BY SubSeqEmpty
  <2>4. c \in Symbol /\ l \in Seq(Symbol)
    BY <2>1
  <2> QED
    BY <2>2, <2>3, <2>4
<1>2. /\ <<>> \in Seq(Symbol) /\ Slashes(0) = <<>> /\ Slashes(1) = Slashes(0) \o <<"bs">>
      /\ <<>> \o Slashes(0) = <<>>
  <2>1. \A k \in Nat : Slashes(k + 1) = Slashes(k) \o <<"bs">>
    BY SlashesAre
  <2>2. 0 \in Nat /\ 0 + 1 = 1
    OBVIOUS
  <2>3. Slashes(1) = Slashes(0) \o <<"bs">>
    BY <2>1, <2>2
  <2>4. Slashes(0) = <<>>
    BY SlashesAre
  <2> QED
    BY <2>3, <2>4
<1>3. c \notin {"qt", "sp"}
  OBVIOUS
<1>4. SUFFICES \E g \in Seq(Symbol), k \in Nat :
                 g \o Slashes(k) = l /\ ReadFrom(Between(a), l) = Bare(a, g, k)
  BY DEF FollowsBare
<1> HIDE DEF c, l
<1>5. ReadFrom(Between(a), l) = ArgvStep(Between(a), c)
  <2> DEFINE e == <<>>
  <2>1. e \in Seq(Symbol) /\ ReadFrom(Between(a), e) = Between(a)
    BY ReadNothing
  <2> HIDE DEF e
  <2>2. ReadFrom(Between(a), e \o <<c>>) = ArgvStep(Between(a), c)
    BY <1>1, <2>1, ReadMore
  <2> QED
    BY <1>1, <2>2 DEF e
<1>6. CASE c = "bs"
  <2>1. ArgvStep(Between(a), c) = Bare(a, <<>>, 1)
    BY <1>6, StepBetween
  <2>2. <<>> \o Slashes(1) = l
    <3>1. Slashes(1) = l
      BY <1>1, <1>2, <1>6
    <3> QED
      BY <1>1, <3>1, ConcatEmptySeq
  <2> QED
    BY <1>2, <1>5, <2>1, <2>2
<1>7. CASE c # "bs"
  <2>1. c \notin {"bs", "qt", "sp"}
    BY <1>3, <1>7
  <2>2. ArgvStep(Between(a), c) = Bare(a, <<>> \o Slashes(0) \o <<c>>, 0)
    BY <2>1, StepBetween
  <2>3. <<>> \o Slashes(0) \o <<c>> = l
    BY <1>1, <1>2
  <2>4. l \o Slashes(0) = l
    BY <1>1, <1>2, ConcatEmptySeq
  <2> QED
    BY <1>1, <1>5, <2>2, <2>3, <2>4
<1> QED
  BY <1>6, <1>7

(* So is every symbol after it. *)
LEMMA NextBare ==
  ASSUME NEW a, NEW arg \in Seq(Symbol), NEW n \in 1..(Len(arg) - 1),
         FollowsBare(a, arg, n), arg[n + 1] \notin {"qt", "sp"}
  PROVE  FollowsBare(a, arg, n + 1)
<1> DEFINE c == arg[n + 1]
           p == SubSeq(arg, 1, n)
           q == SubSeq(arg, 1, n + 1)
<1>1. PICK g \in Seq(Symbol), k \in Nat :
        g \o Slashes(k) = p /\ ReadFrom(Between(a), p) = Bare(a, g, k)
  BY DEF FollowsBare
<1>2. c \in Symbol /\ p \in Seq(Symbol) /\ q = p \o <<c>> /\ q \in Seq(Symbol)
  OBVIOUS
<1>3. c \notin {"qt", "sp"}
  OBVIOUS
<1>4. SUFFICES \E h \in Seq(Symbol), j \in Nat :
                 h \o Slashes(j) = q /\ ReadFrom(Between(a), q) = Bare(a, h, j)
  BY DEF FollowsBare
<1> HIDE DEF c, p, q
<1>5. ReadFrom(Between(a), q) = ArgvStep(Bare(a, g, k), c)
  BY <1>1, <1>2, ReadMore
<1>6. /\ Slashes(k) \in Seq(Symbol) /\ Slashes(k + 1) = Slashes(k) \o <<"bs">>
      /\ Slashes(0) = <<>>
  BY SlashesAre
<1>7. q = g \o Slashes(k) \o <<c>> /\ q = g \o (Slashes(k) \o <<c>>)
  BY <1>1, <1>2, <1>6, Associative
<1>8. CASE c = "bs"
  <2>1. ArgvStep(Bare(a, g, k), c) = Bare(a, g, k + 1)
    BY <1>8, StepBare
  <2>2. g \o Slashes(k + 1) = q
    BY <1>6, <1>7, <1>8
  <2> QED
    BY <1>5, <2>1, <2>2, k + 1 \in Nat
<1>9. CASE c # "bs"
  <2>1. c \notin {"bs", "qt", "sp"}
    BY <1>3, <1>9
  <2>2. ArgvStep(Bare(a, g, k), c) = Bare(a, g \o Slashes(k) \o <<c>>, 0)
    BY <2>1, StepBare
  <2>3. q \o Slashes(0) = q
    BY <1>2, <1>6, ConcatEmptySeq
  <2> QED
    BY <1>2, <1>5, <1>7, <2>2, <2>3
<1> QED
  BY <1>8, <1>9

(* What needs no quotes is read as it is. *)
LEMMA ReadBare ==
  ASSUME NEW a, NEW arg \in Seq(Symbol), arg # <<>>,
         \A i \in 1..Len(arg) : arg[i] \notin {"qt", "sp"}
  PROVE  ReadFrom(Between(a), arg \o <<"sp">>) = Between(Append(a, arg))
<1> DEFINE L == Len(arg)
           S == {n \in 0..L : n = 0 \/ FollowsBare(a, arg, n)}
<1>1. L \in Nat /\ L # 0
  OBVIOUS
<1>2. 0 \in S
  BY <1>1
<1>3. ASSUME NEW n \in 0..(L - 1), n \in S PROVE n + 1 \in S
  <2>1. n + 1 \in 1..L /\ n + 1 \in 0..L /\ arg[n + 1] \notin {"qt", "sp"}
    BY <1>1
  <2>2. CASE n = 0
    <3>1. FollowsBare(a, arg, 1)
      BY <2>1, <2>2, FirstBare
    <3> QED
      BY <2>1, <2>2, <3>1
  <2>3. CASE n # 0
    <3>1. n \in 1..(L - 1) /\ FollowsBare(a, arg, n)
      BY <1>3, <2>3
    <3>2. FollowsBare(a, arg, n + 1)
      BY <2>1, <3>1, NextBare
    <3> QED
      BY <2>1, <3>2
  <2> QED
    BY <2>2, <2>3
<1>4. FollowsBare(a, arg, L)
  <2>1. 0..L \subseteq S
    <3> HIDE DEF S, L
    <3> QED
      BY <1>1, <1>2, <1>3, InductionUpTo
  <2>2. L \in 0..L
    BY <1>1
  <2> QED
    BY <1>1, <2>1, <2>2
<1>5. SubSeq(arg, 1, L) = arg
  BY SubSeqFull
<1>6. PICK g \in Seq(Symbol), k \in Nat :
        g \o Slashes(k) = arg /\ ReadFrom(Between(a), arg) = Bare(a, g, k)
  BY <1>4, <1>5 DEF FollowsBare
<1>7. ReadFrom(Between(a), arg \o <<"sp">>) = ArgvStep(Bare(a, g, k), "sp")
  BY <1>6, ReadMore, Symbols
<1> QED
  BY <1>6, <1>7, StepBare

(* What is put in quotes is read without them. *)
LEMMA ReadQuoted ==
  ASSUME NEW a, NEW arg \in Seq(Symbol)
  PROVE  /\ ClosingSlashes(Quoting(arg)[Len(arg)]) \in Seq(Symbol)
         /\ ReadFrom(Between(a), ClosingSlashes(Quoting(arg)[Len(arg)]) \o <<"sp">>)
              = Between(Append(a, arg))
<1> DEFINE w == Quoting(arg)[Len(arg)]
           m == w.slashes
           l == w.out \o Slashes(2 * m)
<1>1. w \in [out : Seq(Symbol), slashes : Nat] /\ m \in Nat /\ w.out \in Seq(Symbol)
  BY QuotingFollows DEF Follows
<1>2. PICK g \in Seq(Symbol) :
        g \o Slashes(m) = arg /\ ReadFrom(Between(a), w.out) = Quoted(a, g, 0)
  BY QuotingFollows, SubSeqFull DEF Follows
<1>3. 2 * m \in Nat /\ Slashes(2 * m) \in Seq(Symbol)
  <2>1. 2 * m \in Nat
    BY <1>1
  <2> QED
    BY <2>1, SlashesAre
<1>4. l \in Seq(Symbol) /\ ReadFrom(Between(a), l) = Quoted(a, g, 2 * m)
  <2>1. ReadFrom(Between(a), l) = ReadFrom(Quoted(a, g, 0), Slashes(2 * m))
    BY <1>1, <1>2, <1>3, ReadConcat
  <2> QED
    BY <1>1, <1>3, <2>1, ReadSlashes, ConcatProperties
<1>5. ClosingSlashes(w) = l \o <<"qt">>
  BY DEF ClosingSlashes
<1> HIDE DEF w, l
<1>6. /\ l \o <<"qt">> \in Seq(Symbol)
      /\ ReadFrom(Between(a), l \o <<"qt">>) = ArgvStep(Quoted(a, g, 2 * m), "qt")
  BY <1>4, ReadMore, Symbols
<1>7. ArgvStep(Quoted(a, g, 2 * m), "qt") = Closed(a, arg)
  BY <1>1, <1>2, StepQuoted
<1>8. ReadFrom(Between(a), l \o <<"qt">> \o <<"sp">>) = ArgvStep(Closed(a, arg), "sp")
  <2> DEFINE k == l \o <<"qt">>
  <2>1. k \in Seq(Symbol) /\ ReadFrom(Between(a), k) = Closed(a, arg)
    BY <1>6, <1>7
  <2> HIDE DEF k
  <2>2. ReadFrom(Between(a), k \o <<"sp">>) = ArgvStep(Closed(a, arg), "sp")
    BY <2>1, ReadMore, Symbols
  <2> QED
    BY <2>2 DEF k
<1>9. arg \o Slashes(0) = arg
  BY SlashesAre, ConcatEmptySeq
<1> QED
  BY <1>5, <1>6, <1>8, <1>9, StepClosed DEF w

(* An argument that is quoted and read is the same.                       *)
(* (quote_command_line_arg)                                               *)
LEMMA ReadQuote ==
  ASSUME NEW a, NEW arg \in Seq(Symbol)
  PROVE  /\ Quote(arg) \in Seq(Symbol)
         /\ ReadFrom(Between(a), Quote(arg) \o <<"sp">>) = Between(Append(a, arg))
<1>1. CASE arg # <<>> /\ ToSet(arg) \cap {"sp", "qt"} = {}
  <2>1. \A i \in 1..Len(arg) : arg[i] \notin {"qt", "sp"}
    BY <1>1 DEF ToSet
  <2>2. Quote(arg) = arg
    BY <1>1 DEF Quote
  <2> QED
    BY <1>1, <2>1, <2>2, ReadBare
<1>2. CASE ~(arg # <<>> /\ ToSet(arg) \cap {"sp", "qt"} = {})
  <2>1. Quote(arg) = ClosingSlashes(Quoting(arg)[Len(arg)])
    BY <1>2 DEF Quote
  <2> QED
    BY <2>1, ReadQuoted
<1> QED
  BY <1>1, <1>2

(* f is the flattening of seqs, one sequence after the other. *)
Flattens(f, L, T, seqs) ==
  /\ f \in [1..L -> Seq(T)]
  /\ FlattenSeq(seqs) = f[L]
  /\ f[1] = seqs[1]
  /\ \A i \in 2..L : f[i] = f[i - 1] \o seqs[i]

(* FlattenSeq is a recursive function on numbers of sequences: it exists, *)
(* and each value is the one before with one more sequence behind it.     *)
LEMMA Flattening ==
  ASSUME NEW T, NEW L \in Nat \ {0}, NEW seqs \in Seq(Seq(T)), Len(seqs) = L
  PROVE  \E f : Flattens(f, L, T, seqs)
<1> DEFINE Up(k, f) == f = [i \in 1..k |-> IF i = 1 THEN seqs[i] ELSE f[i - 1] \o seqs[i]]
           S == {k \in Nat : \E f : Up(k, f)}
<1>1. L \in Nat /\ L # 0
  OBVIOUS
<1>2. 0 \in S
  <2> DEFINE g == [i \in 1..0 |-> seqs[i]]
  <2>1. Up(0, g)
    OBVIOUS
  <2> HIDE DEF g
  <2> QED
    BY <2>1
<1>3. ASSUME NEW k \in Nat, k \in S PROVE k + 1 \in S
  <2>1. PICK f : Up(k, f)
    BY <1>3
  <2>2. \A i \in 1..k : f[i] = IF i = 1 THEN seqs[i] ELSE f[i - 1] \o seqs[i]
    BY <2>1
  <2> DEFINE e == IF k = 0 THEN seqs[1] ELSE f[k] \o seqs[k + 1]
             g == [i \in 1..(k + 1) |-> IF i = k + 1 THEN e ELSE f[i]]
  <2> HIDE DEF e
  <2>3. \A i \in 1..k : g[i] = f[i]
    OBVIOUS
  <2>4. g[k + 1] = e /\ g = [i \in 1..(k + 1) |-> g[i]]
    OBVIOUS
  <2> HIDE DEF g
  <2>5. ASSUME NEW i \in 1..(k + 1)
        PROVE  g[i] = IF i = 1 THEN seqs[i] ELSE g[i - 1] \o seqs[i]
    <3>1. CASE i = k + 1 /\ k = 0
      BY <2>4, <3>1 DEF e
    <3>2. CASE i = k + 1 /\ k # 0
      <4>1. i - 1 = k /\ i # 1 /\ k \in 1..k
        BY <3>2
      <4>2. e = f[k] \o seqs[k + 1]
        BY <3>2 DEF e
      <4> QED
        BY <2>3, <2>4, <3>2, <4>1, <4>2
    <3>3. CASE i # k + 1
      <4>1. i \in 1..k /\ (i # 1 => i - 1 \in 1..k)
        BY <3>3
      <4> QED
        BY <2>2, <2>3, <4>1
    <3> QED
      BY <3>1, <3>2, <3>3
  <2>6. Up(k + 1, g)
    BY <2>4, <2>5
  <2>7. \E h : Up(k + 1, h)
    <3> HIDE DEF Up
    <3> QED
      BY <2>6
  <2> HIDE DEF Up
  <2> QED
    BY <2>7
<1>4. L \in S
  <2> HIDE DEF S
  <2> QED
    BY <1>1, <1>2, <1>3, Induction
<1>5. \E f : Up(L, f)
  BY <1>4
<1> DEFINE f == CHOOSE f : Up(L, f)
<1>6. Up(L, f)
  BY <1>5
<1>7. FlattenSeq(seqs) = f[L]
  BY <1>1 DEF FlattenSeq
<1> HIDE DEF f
<1>8. \A i \in 1..L : f[i] = IF i = 1 THEN seqs[i] ELSE f[i - 1] \o seqs[i]
  BY <1>6
<1>9. f[1] = seqs[1] /\ \A i \in 2..L : f[i] = f[i - 1] \o seqs[i]
  <2>1. 1 \in 1..L /\ \A i \in 2..L : i \in 1..L /\ i # 1
    BY <1>1
  <2> QED
    BY <1>8, <2>1
<1>10. f = [i \in 1..L |-> f[i]]
  BY <1>6
<1>11. \A i \in 1..L : f[i] \in Seq(T)
  <2> DEFINE V == {k \in 0..L : k = 0 \/ f[k] \in Seq(T)}
  <2>1. 0 \in V
    BY <1>1
  <2>2. ASSUME NEW k \in 0..(L - 1), k \in V PROVE k + 1 \in V
    <3>1. k + 1 \in 1..L /\ k + 1 \in 0..L /\ seqs[k + 1] \in Seq(T) /\ (k + 1) - 1 = k
      BY <1>1
    <3>2. CASE k = 0
      BY <1>9, <3>1, <3>2
    <3>3. CASE k # 0
      <4>1. k + 1 \in 2..L /\ f[k] \in Seq(T)
        BY <2>2, <3>1, <3>3
      <4>2. f[k + 1] = f[k] \o seqs[k + 1]
        BY <1>9, <3>1, <4>1
      <4>3. f[k + 1] \in Seq(T)
        BY <3>1, <4>1, <4>2, ConcatProperties
      <4> QED
        BY <3>1, <4>3
    <3> QED
      BY <3>2, <3>3
  <2>3. 0..L \subseteq V
    <3> HIDE DEF V
    <3> QED
      BY <1>1, <2>1, <2>2, InductionUpTo
  <2> QED
    BY <1>1, <2>3
<1>12. f \in [1..L -> Seq(T)]
  BY <1>10, <1>11
<1> QED
  BY <1>7, <1>9, <1>12 DEF Flattens

-----------------------------------------------------------------------------
(* FlattenSeq, one sequence at a time *)

(* the first k of them *)
Flat(seqs, k) == FlattenSeq(SubSeq(seqs, 1, k))

(* No sequences make an empty one. *)
LEMMA FlatNone == \A seqs : Flat(seqs, 0) = <<>>
<1> TAKE seqs
<1>1. SubSeq(seqs, 1, 0) = <<>>
  BY SubSeqEmpty
<1> QED
  BY <1>1 DEF Flat, FlattenSeq

(* One more sequence is put behind the others. *)
LEMMA FlatMore ==
  ASSUME NEW T, NEW seqs \in Seq(Seq(T)), NEW k \in 0..(Len(seqs) - 1), Flat(seqs, k) \in Seq(T)
  PROVE  /\ Flat(seqs, k + 1) = Flat(seqs, k) \o seqs[k + 1]
         /\ Flat(seqs, k + 1) \in Seq(T)
<1> DEFINE s == SubSeq(seqs, 1, k)
           t == SubSeq(seqs, 1, k + 1)
<1>1. /\ s \in Seq(Seq(T)) /\ Len(s) = k /\ \A i \in 1..k : s[i] = seqs[i]
      /\ t \in Seq(Seq(T)) /\ Len(t) = k + 1 /\ \A i \in 1..(k + 1) : t[i] = seqs[i]
      /\ seqs[k + 1] \in Seq(T)
  OBVIOUS
<1>2. Flat(seqs, k) = FlattenSeq(s) /\ Flat(seqs, k + 1) = FlattenSeq(t)
  BY DEF Flat
<1> HIDE DEF s, t
<1> DEFINE M == k + 1
<1>3. k \in Nat /\ M \in Nat \ {0} /\ t \in Seq(Seq(T)) /\ Len(t) = M
  BY <1>1
<1>4. PICK g \in [1..(k + 1) -> Seq(T)] :
        /\ FlattenSeq(t) = g[k + 1]
        /\ g[1] = t[1]
        /\ \A i \in 2..(k + 1) : g[i] = g[i - 1] \o t[i]
  <2> HIDE DEF M
  <2>1. \E g : Flattens(g, M, T, t)
    BY <1>3, Flattening
  <2> QED
    BY <2>1 DEF M, Flattens
<1>5. FlattenSeq(t) = FlattenSeq(s) \o seqs[k + 1]
  <2>1. CASE k = 0
    <3>1. FlattenSeq(s) = <<>>
      BY <1>2, <2>1, FlatNone
    <3>2. FlattenSeq(t) = seqs[k + 1]
      BY <1>1, <1>4, <2>1
    <3> QED
      BY <1>1, <3>1, <3>2, ConcatEmptySeq
  <2>2. CASE k # 0
    <3>1. k \in Nat \ {0} /\ s \in Seq(Seq(T)) /\ Len(s) = k
      BY <1>1, <1>3, <2>2
    <3>2. PICK f \in [1..k -> Seq(T)] :
            /\ FlattenSeq(s) = f[k]
            /\ f[1] = s[1]
            /\ \A i \in 2..k : f[i] = f[i - 1] \o s[i]
      <4>1. \E f : Flattens(f, k, T, s)
        BY <3>1, Flattening
      <4> QED
        BY <4>1 DEF Flattens
    <3> DEFINE S == {n \in 0..k : n = 0 \/ f[n] = g[n]}
    <3>3. 0 \in S
      OBVIOUS
    <3>4. ASSUME NEW n \in 0..(k - 1), n \in S PROVE n + 1 \in S
      <4>1. n + 1 \in 1..k /\ n + 1 \in 0..k /\ n + 1 \in 1..(k + 1) /\ (n + 1) - 1 = n
        OBVIOUS
      <4>2. s[n + 1] = t[n + 1]
        BY <1>1, <4>1
      <4>3. CASE n = 0
        BY <1>4, <3>2, <4>1, <4>2, <4>3
      <4>4. CASE n # 0
        <5>1. n + 1 \in 2..k /\ n + 1 \in 2..(k + 1) /\ f[n] = g[n]
          BY <3>4, <4>4
        <5>2. f[n + 1] = f[n] \o s[n + 1] /\ g[n + 1] = g[n] \o t[n + 1]
          BY <1>4, <3>2, <4>1, <5>1
        <5> QED
          BY <4>1, <4>2, <5>1, <5>2
      <4> QED
        BY <4>3, <4>4
    <3>5. 0..k \subseteq S
      <4> HIDE DEF S
      <4> QED
        BY <1>3, <3>3, <3>4, InductionUpTo
    <3>6. f[k] = g[k]
      BY <2>2, <3>5
    <3>7. k + 1 \in 2..(k + 1) /\ (k + 1) - 1 = k /\ k + 1 \in 1..(k + 1)
      BY <2>2
    <3>8. g[k + 1] = g[k] \o t[k + 1] /\ t[k + 1] = seqs[k + 1]
      BY <1>1, <1>4, <3>7
    <3> QED
      BY <1>4, <3>2, <3>6, <3>8
  <2> QED
    BY <2>1, <2>2
<1>6. FlattenSeq(t) \in Seq(T)
  BY <1>4
<1> QED
  BY <1>2, <1>5, <1>6

(* FlattenSeq puts all of the sequences one behind the other. *)
LEMMA Flats ==
  ASSUME NEW T, NEW seqs \in Seq(Seq(T))
  PROVE  /\ Flat(seqs, 0) = <<>> /\ Flat(seqs, Len(seqs)) = FlattenSeq(seqs)
         /\ \A k \in 0..Len(seqs) : Flat(seqs, k) \in Seq(T)
         /\ \A k \in 0..(Len(seqs) - 1) : Flat(seqs, k + 1) = Flat(seqs, k) \o seqs[k + 1]
<1> DEFINE L == Len(seqs)
           S == {k \in 0..L : Flat(seqs, k) \in Seq(T)}
<1>1. L \in Nat
  OBVIOUS
<1>2. Flat(seqs, 0) = <<>> /\ Flat(seqs, L) = FlattenSeq(seqs)
  BY FlatNone, SubSeqFull DEF Flat
<1>3. 0 \in S
  <2>1. 0 \in 0..L /\ <<>> \in Seq(T)
    BY <1>1
  <2>2. Flat(seqs, 0) \in Seq(T)
    BY <1>2, <2>1
  <2> QED
    BY <2>1, <2>2
<1>4. ASSUME NEW k \in 0..(L - 1), k \in S PROVE k + 1 \in S
  <2>1. k + 1 \in 0..L
    BY <1>1
  <2> QED
    BY <1>4, <2>1, FlatMore
<1>5. 0..L \subseteq S
  <2> HIDE DEF S, L
  <2> QED
    BY <1>1, <1>3, <1>4, InductionUpTo
<1>6. \A k \in 0..L : Flat(seqs, k) \in Seq(T)
  BY <1>5
<1>7. ASSUME NEW k \in 0..(L - 1) PROVE Flat(seqs, k + 1) = Flat(seqs, k) \o seqs[k + 1]
  <2>1. k \in 0..L
    BY <1>1
  <2> QED
    BY <1>6, <2>1, FlatMore
<1> QED
  BY <1>2, <1>6, <1>7

(* Blanks separate the arguments: an argument with a blank can be read as *)
(* a line of its own.                                                     *)
LEMMA Regroup ==
  ASSUME NEW x \in Seq(Symbol), NEW o \in Seq(Symbol), NEW q \in Seq(Symbol)
  PROVE  (x \o (o \o q)) \o o = (x \o o) \o (q \o o)
<1>1. o \o q \in Seq(Symbol) /\ q \o o \in Seq(Symbol)
  BY ConcatProperties
<1>2. (x \o (o \o q)) \o o = x \o ((o \o q) \o o)
  BY <1>1, ConcatAssociative
<1>3. (o \o q) \o o = o \o (q \o o)
  BY ConcatAssociative
<1>4. (x \o o) \o (q \o o) = x \o (o \o (q \o o))
  BY <1>1, ConcatAssociative
<1> QED
  BY <1>2, <1>3, <1>4

(* The command line relaunch_as_admin puts together is taken apart into   *)
(* the arguments it was made of: blanks, quotes, backslashes and empty    *)
(* ones.                                                                  *)
THEOREM ReadParameters ==
  ASSUME NEW args \in Seq(Seq(Symbol))
  PROVE  Argv(Parameters(args)) = args
<1> DEFINE L == Len(args)
           o == <<"sp">>
           parts == [i \in DOMAIN args |-> (IF i = 1 THEN <<>> ELSE o) \o Quote(args[i])]
           S == {k \in 0..L : ReadFrom(Between(<<>>), Flat(parts, k) \o o) = Between(SubSeq(args, 1, k))}
<1>1. /\ L \in Nat /\ DOMAIN args = 1..L /\ \A i \in 1..L : args[i] \in Seq(Symbol)
      /\ o \in Seq(Symbol) /\ <<>> \in Seq(Symbol)
  BY OneSymbol, Symbols
<1>2. \A i \in 1..L :
        /\ Quote(args[i]) \in Seq(Symbol)
        /\ \A a : ReadFrom(Between(a), Quote(args[i]) \o o) = Between(Append(a, args[i]))
  BY <1>1, ReadQuote
<1>3. Argv(Parameters(args)) = ReadFrom(Between(<<>>), FlattenSeq(parts) \o o).args
  BY DEF Parameters, Argv
<1>4. ReadFrom(Between(<<>>), o) = Between(<<>>)
  BY ReadOne, StepBetween
<1> HIDE DEF o
<1>5. /\ parts \in Seq(Seq(Symbol)) /\ Len(parts) = L
      /\ \A i \in 1..L : parts[i] = IF i = 1 THEN Quote(args[i]) ELSE o \o Quote(args[i])
  <2>1. \A i \in 1..L : parts[i] = (IF i = 1 THEN <<>> ELSE o) \o Quote(args[i])
    BY <1>1
  <2>2. DOMAIN parts = 1..L /\ parts = [i \in 1..L |-> parts[i]]
    BY <1>1
  <2> HIDE DEF parts, L
  <2>3. \A i \in 1..L : <<>> \o Quote(args[i]) = Quote(args[i])
    BY <1>2, ConcatEmptySeq
  <2>4. \A i \in 1..L : o \o Quote(args[i]) \in Seq(Symbol)
    BY <1>1, <1>2, ConcatProperties
  <2>5. \A i \in 1..L : parts[i] = IF i = 1 THEN Quote(args[i]) ELSE o \o Quote(args[i])
    BY <2>1, <2>3
  <2>6. \A i \in 1..L : parts[i] \in Seq(Symbol)
    BY <1>2, <2>4, <2>5
  <2>7. parts \in [1..L -> Seq(Symbol)]
    BY <2>2, <2>6
  <2> QED
    BY <1>1, <2>5, <2>7
<1> HIDE DEF parts
<1>6. /\ Flat(parts, 0) = <<>> /\ Flat(parts, L) = FlattenSeq(parts)
      /\ \A k \in 0..L : Flat(parts, k) \in Seq(Symbol)
      /\ \A k \in 0..(L - 1) : Flat(parts, k + 1) = Flat(parts, k) \o parts[k + 1]
  <2>1. /\ Flat(parts, 0) = <<>> /\ Flat(parts, Len(parts)) = FlattenSeq(parts)
        /\ \A k \in 0..Len(parts) : Flat(parts, k) \in Seq(Symbol)
        /\ \A k \in 0..(Len(parts) - 1) : Flat(parts, k + 1) = Flat(parts, k) \o parts[k + 1]
    BY <1>5, Flats
  <2>2. Len(parts) = L
    BY <1>5
  <2> HIDE DEF L
  <2> QED
    BY <2>1, <2>2
<1>7. 0 \in S
  <2>1. SubSeq(args, 1, 0) = <<>>
    BY SubSeqEmpty
  <2>2. <<>> \o o = o
    BY <1>1, ConcatEmptySeq
  <2>3. ReadFrom(Between(<<>>), Flat(parts, 0) \o o) = Between(<<>>)
    BY <1>4, <1>6, <2>2
  <2>4. Between(SubSeq(args, 1, 0)) = Between(<<>>)
    BY <2>1
  <2>5. 0 \in 0..L
    BY <1>1
  <2> QED
    BY <2>3, <2>4, <2>5
<1>8. ASSUME NEW k \in 0..(L - 1), k \in S PROVE k + 1 \in S
  <2> DEFINE q == Quote(args[k + 1])
             a == SubSeq(args, 1, k)
             x == Flat(parts, k)
             y == Flat(parts, k + 1)
  <2>1. k + 1 \in 1..L /\ k + 1 \in 0..L /\ (k + 1) - 1 = k /\ k \in 0..L
    BY <1>1
  <2>2. /\ q \in Seq(Symbol)
        /\ \A b : ReadFrom(Between(b), q \o o) = Between(Append(b, args[k + 1]))
    BY <1>2, <2>1
  <2>3. SubSeq(args, 1, k + 1) = Append(a, args[k + 1])
    BY <1>1
  <2>4. x \in Seq(Symbol) /\ y = x \o parts[k + 1] /\ ReadFrom(Between(<<>>), x \o o) = Between(a)
    BY <1>6, <1>8, <2>1
  <2>5. parts[k + 1] = IF k = 0 THEN q ELSE o \o q
    BY <1>5, <2>1
  <2>6. k = 0 => x = <<>> /\ a = <<>>
    BY <1>6, SubSeqEmpty
  <2> HIDE DEF q, a, x, y
  <2>7. ReadFrom(Between(<<>>), y \o o) = Between(Append(a, args[k + 1]))
    <3>1. CASE k = 0
      <4>1. y = q
        BY <2>2, <2>4, <2>5, <2>6, <3>1, ConcatEmptySeq
      <4> QED
        BY <2>2, <2>6, <3>1, <4>1
    <3>2. CASE k # 0
      <4>1. y \o o = (x \o o) \o (q \o o)
        <5>1. y = x \o (o \o q)
          BY <2>4, <2>5, <3>2
        <5>2. (x \o (o \o q)) \o o = (x \o o) \o (q \o o)
          BY <1>1, <2>2, <2>4, Regroup
        <5> QED
          BY <5>1, <5>2
      <4>2. x \o o \in Seq(Symbol) /\ q \o o \in Seq(Symbol)
        BY <1>1, <2>2, <2>4, ConcatProperties
      <4>3. ReadFrom(Between(<<>>), y \o o) = ReadFrom(Between(a), q \o o)
        <5> DEFINE u == x \o o
                   v == q \o o
                   b == Between(<<>>)
        <5>1. u \in Seq(Symbol) /\ v \in Seq(Symbol) /\ y \o o = u \o v /\ ReadFrom(b, u) = Between(a)
          BY <2>4, <4>1, <4>2
        <5> HIDE DEF u, v, b
        <5>2. ReadFrom(b, u \o v) = ReadFrom(Between(a), v)
          BY <5>1, ReadConcat
        <5> QED
          BY <5>1, <5>2 DEF v, b
      <4> QED
        BY <2>2, <4>3
    <3> QED
      BY <3>1, <3>2
  <2> QED
    BY <2>1, <2>3, <2>7 DEF y
<1>9. L \in S
  <2> HIDE DEF S, L
  <2>1. 0..L \subseteq S
    BY <1>1, <1>7, <1>8, InductionUpTo
  <2>2. L \in 0..L
    BY <1>1
  <2> QED
    BY <2>1, <2>2
<1>10. SubSeq(args, 1, L) = args
  BY SubSeqFull
<1>11. ReadFrom(Between(<<>>), FlattenSeq(parts) \o o) = Between(args)
  BY <1>6, <1>9, <1>10
<1>12. Between(args).args = args
  BY DEF Between
<1> QED
  BY <1>3, <1>11, <1>12

-----------------------------------------------------------------------------
(* The helper: flags, and the command behind them *)

(* The members of a concatenation are those of its parts. *)
LEMMA Members ==
  ASSUME NEW T, NEW s \in Seq(T), NEW t \in Seq(T)
  PROVE  ToSet(s \o t) = ToSet(s) \cup ToSet(t)
<1>1. /\ Len(s \o t) = Len(s) + Len(t) /\ s \o t \in Seq(T)
      /\ \A i \in 1..Len(s) : (s \o t)[i] = s[i]
      /\ \A i \in 1..Len(t) : (s \o t)[Len(s) + i] = t[i]
  BY ConcatProperties
<1>2. Len(s) \in Nat /\ Len(t) \in Nat
  OBVIOUS
<1>3. ASSUME NEW e \in ToSet(s \o t) PROVE e \in ToSet(s) \cup ToSet(t)
  <2>1. PICK i \in 1..(Len(s) + Len(t)) : e = (s \o t)[i]
    BY <1>1, <1>3 DEF ToSet
  <2>2. CASE i <= Len(s)
    BY <1>1, <1>2, <2>1, <2>2 DEF ToSet
  <2>3. CASE i > Len(s)
    <3>1. i - Len(s) \in 1..Len(t) /\ Len(s) + (i - Len(s)) = i
      BY <1>2, <2>1, <2>3
    <3>2. e = t[i - Len(s)]
      BY <1>1, <2>1, <3>1
    <3> QED
      BY <3>1, <3>2 DEF ToSet
  <2> QED
    BY <1>2, <2>1, <2>2, <2>3
<1>4. ASSUME NEW e \in ToSet(s) PROVE e \in ToSet(s \o t)
  <2>1. PICK i \in 1..Len(s) : e = s[i]
    BY <1>4 DEF ToSet
  <2>2. i \in 1..Len(s \o t) /\ e = (s \o t)[i]
    BY <1>1, <1>2, <2>1
  <2> QED
    BY <1>1, <2>2 DEF ToSet
<1>5. ASSUME NEW e \in ToSet(t) PROVE e \in ToSet(s \o t)
  <2>1. PICK i \in 1..Len(t) : e = t[i]
    BY <1>5 DEF ToSet
  <2>2. Len(s) + i \in 1..Len(s \o t) /\ e = (s \o t)[Len(s) + i]
    BY <1>1, <1>2, <2>1
  <2> QED
    BY <1>1, <2>2 DEF ToSet
<1> QED
  BY <1>3, <1>4, <1>5

(* the arguments that are flags *)
Flags == {<<f>> : f \in Flag}

(* The operands of arguments that begin with flags are those behind the   *)
(* flags.                                                                 *)
LEMMA OperandsBehind ==
  ASSUME NEW T, NEW fs \in Seq(T), NEW ops \in Seq(T),
         \A i \in 1..Len(fs) : fs[i] \in Flags,
         \A i \in 1..Len(ops) : ops[i] \notin Flags
  PROVE  Operands(fs \o ops) = ops
<1> DEFINE m == Len(fs)
           L == m + Len(ops)
           args == fs \o ops
           parts == [i \in DOMAIN args |-> IF args[i] \in Flags THEN <<>> ELSE <<args[i]>>]
           S == {k \in 0..L : Flat(parts, k) = IF k <= m THEN <<>> ELSE SubSeq(ops, 1, k - m)}
<1>1. m \in Nat /\ Len(ops) \in Nat /\ L \in Nat
  OBVIOUS
<1>2. /\ args \in Seq(T) /\ Len(args) = L
      /\ \A i \in 1..m : args[i] = fs[i]
      /\ \A i \in 1..Len(ops) : args[m + i] = ops[i]
  BY ConcatProperties
<1>3. Operands(args) = FlattenSeq(parts)
  BY DEF Operands, Flags
<1> HIDE DEF args
<1>4. DOMAIN args = 1..L /\ \A i \in 1..L : args[i] \in T
  BY <1>2
<1>5. /\ parts \in Seq(Seq(T)) /\ Len(parts) = L
      /\ \A i \in 1..m : parts[i] = <<>>
      /\ \A i \in 1..Len(ops) : parts[m + i] = <<ops[i]>>
  <2>1. \A i \in 1..L : parts[i] = IF args[i] \in Flags THEN <<>> ELSE <<args[i]>>
    BY <1>4
  <2>2. DOMAIN parts = 1..L /\ parts = [i \in 1..L |-> parts[i]]
    BY <1>4
  <2> HIDE DEF parts
  <2>3. \A i \in 1..L : parts[i] \in Seq(T)
    <3>1. \A e \in T : <<e>> \in Seq(T)
      OBVIOUS
    <3>2. <<>> \in Seq(T)
      OBVIOUS
    <3> QED
      BY <1>4, <2>1, <3>1, <3>2
  <2>4. parts \in [1..L -> Seq(T)]
    BY <2>2, <2>3
  <2>5. \A i \in 1..m : i \in 1..L
    BY <1>1
  <2>6. \A i \in 1..Len(ops) : m + i \in 1..L
    BY <1>1
  <2>7. parts \in Seq(Seq(T)) /\ Len(parts) = L
    <3> HIDE DEF L
    <3> QED
      BY <1>1, <2>4
  <2> QED
    BY <1>2, <2>1, <2>5, <2>6, <2>7
<1> HIDE DEF parts
<1>6. /\ Flat(parts, 0) = <<>> /\ Flat(parts, L) = FlattenSeq(parts)
      /\ \A k \in 0..(L - 1) : Flat(parts, k + 1) = Flat(parts, k) \o parts[k + 1]
  <2> HIDE DEF L
  <2> QED
    BY <1>5, Flats
<1>7. 0 \in S
  BY <1>1, <1>6
<1>8. ASSUME NEW k \in 0..(L - 1), k \in S PROVE k + 1 \in S
  <2>1. k + 1 \in 0..L /\ k + 1 \in 1..L /\ Flat(parts, k + 1) = Flat(parts, k) \o parts[k + 1]
    BY <1>1, <1>6
  <2>2. CASE k + 1 <= m
    <3>1. Flat(parts, k) = <<>> /\ parts[k + 1] = <<>>
      BY <1>1, <1>5, <1>8, <2>2
    <3>2. <<>> \o <<>> = <<>>
      OBVIOUS
    <3> QED
      BY <2>1, <2>2, <3>1, <3>2
  <2>3. CASE k >= m
    <3> DEFINE j == k - m
    <3>1. j \in 0..(Len(ops) - 1) /\ j + 1 \in 1..Len(ops) /\ k + 1 = m + (j + 1) /\ ~(k + 1 <= m)
          /\ (k + 1) - m = j + 1
      BY <1>1, <2>3
    <3>2. Flat(parts, k) = SubSeq(ops, 1, j)
      <4>1. CASE k = m
        <5>1. Flat(parts, k) = <<>> /\ j = 0
          BY <1>1, <1>8, <4>1
        <5>2. SubSeq(ops, 1, 0) = <<>>
          BY SubSeqEmpty
        <5> HIDE DEF j
        <5> QED
          BY <5>1, <5>2
      <4>2. CASE k > m
        BY <1>1, <1>8, <4>2
      <4> QED
        BY <1>1, <2>3, <4>1, <4>2
    <3>3. parts[k + 1] = <<ops[j + 1]>>
      BY <1>5, <3>1
    <3>4. SubSeq(ops, 1, j + 1) = SubSeq(ops, 1, j) \o <<ops[j + 1]>>
      BY <3>1
    <3> HIDE DEF j
    <3>5. Flat(parts, k + 1) = SubSeq(ops, 1, (k + 1) - m)
      BY <2>1, <3>1, <3>2, <3>3, <3>4
    <3> QED
      BY <2>1, <3>1, <3>5
  <2> QED
    BY <1>1, <2>2, <2>3
<1>9. L \in S
  <2>1. L \in 0..L
    BY <1>1
  <2> HIDE DEF S, L
  <2>2. 0..L \subseteq S
    BY <1>1, <1>7, <1>8, InductionUpTo
  <2> QED
    BY <2>1, <2>2
<1>10. Flat(parts, L) = ops
  <2>1. SubSeq(ops, 1, Len(ops)) = ops
    BY SubSeqFull
  <2>2. Len(ops) = 0 => ops = <<>>
    BY EmptySeq
  <2>3. L - m = Len(ops) /\ (L <= m <=> Len(ops) = 0)
    BY <1>1
  <2> QED
    BY <1>9, <2>1, <2>2, <2>3
<1> QED
  BY <1>3, <1>6, <1>10 DEF args

(* What the helper is told behind the flags *)
Call == <<<<"cleanup">>, <<"uninstaller">>, <<"root">>>>

(* A sequence of one element has one member. *)
LEMMA Single == \A e : ToSet(<<e>>) = {e}
BY DEF ToSet

(* An empty sequence has no members. *)
LEMMA NoMember == ToSet(<<>>) = {}
BY DEF ToSet

(* The flags of the helper are none of the words of its command. *)
LEMMA NoFlag ==
  /\ <<"cleanup">> \notin Flags
  /\ <<"uninstaller">> \notin Flags
  /\ <<"root">> \notin Flags
  /\ \A f \in Flag : <<f>> \in Flags
  /\ \A f \in Flag, g \in Flag : <<f>> = <<g>> => f = g
BY DEF Flags, Flag

(* The helper is given flags, its command behind them, and no flag its    *)
(* uninstaller did not have or choose.                                    *)
LEMMA HelperFlags ==
  ASSUME NEW args, NEW mode \in {"none", "tui", "gui"}
  PROVE  \E fs \in Seq(Flags) :
           /\ HelperArgs(args, mode) = fs \o Call
           /\ ToSet(fs) = (IF Has(args, "--json") THEN {<<"--json">>} ELSE {})
                          \cup (IF mode = "tui" THEN {<<"--headless">>} ELSE {})
                          \cup (IF mode = "gui" THEN {<<"--headed">>} ELSE {})
                          \cup (IF Has(args, "--automation") THEN {<<"--automation">>} ELSE {})
<1> DEFINE j == <<"--json">>
           t == <<"--headless">>
           g == <<"--headed">>
           a == <<"--automation">>
           A == IF Has(args, "--json") THEN <<j>> ELSE <<>>
           B == CASE mode = "tui" -> <<t>> [] mode = "gui" -> <<g>> [] OTHER -> <<>>
           C == IF Has(args, "--automation") THEN <<a>> ELSE <<>>
<1>1. HelperArgs(args, mode) = A \o B \o C \o Call
  BY DEF HelperArgs, Call
<1>2. j \in Flags /\ t \in Flags /\ g \in Flags /\ a \in Flags
  BY NoFlag DEF Flag
<1> HIDE DEF j, t, g, a
<1>3. \A e \in Flags : <<e>> \in Seq(Flags)
  OBVIOUS
<1>4. <<>> \in Seq(Flags)
  OBVIOUS
<1>5. A \in Seq(Flags) /\ B \in Seq(Flags) /\ C \in Seq(Flags)
  BY <1>2, <1>3, <1>4
<1>6. /\ ToSet(A) = IF Has(args, "--json") THEN {j} ELSE {}
      /\ ToSet(B) = (IF mode = "tui" THEN {t} ELSE {}) \cup (IF mode = "gui" THEN {g} ELSE {})
      /\ ToSet(C) = IF Has(args, "--automation") THEN {a} ELSE {}
  BY Single, NoMember
<1> HIDE DEF A, B, C
<1>7. A \o B \in Seq(Flags) /\ (A \o B) \o C \in Seq(Flags)
  BY <1>5, ConcatProperties
<1>8. ToSet((A \o B) \o C) = (ToSet(A) \cup ToSet(B)) \cup ToSet(C)
  <2> DEFINE u == A \o B
  <2>1. u \in Seq(Flags) /\ ToSet(u) = ToSet(A) \cup ToSet(B)
    BY <1>5, <1>7, Members
  <2> HIDE DEF u
  <2>2. ToSet(u \o C) = ToSet(u) \cup ToSet(C)
    BY <1>5, <2>1, Members
  <2> QED
    BY <2>1, <2>2 DEF u
<1> QED
  BY <1>1, <1>6, <1>7, <1>8 DEF j, t, g, a

(* The helper understands what it is told, and answers as its uninstaller, *)
(* or on the terminal where it has no window and the uninstaller had one.  *)
THEOREM HelperAnswers ==
  ASSUME NEW args, NEW available, NEW mode, mode = SelectUi(args, available),
         mode # "error", NEW own \in BOOLEAN
  PROVE  /\ Understood(HelperArgs(args, mode))
         /\ Command(HelperArgs(args, mode)) = "cleanup"
         /\ SelectUi(HelperArgs(args, mode), own) =
              IF mode = "gui" /\ ~own THEN "tui" ELSE mode
         /\ Has(HelperArgs(args, mode), "--automation") = Has(args, "--automation")
<1> DEFINE given == HelperArgs(args, mode)
<1>1. mode \in {"none", "tui", "gui"}
  BY DEF SelectUi
<1>2. PICK fs \in Seq(Flags) :
        /\ given = fs \o Call
        /\ ToSet(fs) = (IF Has(args, "--json") THEN {<<"--json">>} ELSE {})
                       \cup (IF mode = "tui" THEN {<<"--headless">>} ELSE {})
                       \cup (IF mode = "gui" THEN {<<"--headed">>} ELSE {})
                       \cup (IF Has(args, "--automation") THEN {<<"--automation">>} ELSE {})
  BY <1>1, HelperFlags
<1> DEFINE T == Flags \cup {<<"cleanup">>, <<"uninstaller">>, <<"root">>}
<1>3. /\ Call \in Seq(T) /\ Len(Call) = 3 /\ Call # <<>>
      /\ Call[1] = <<"cleanup">> /\ Call[2] = <<"uninstaller">> /\ Call[3] = <<"root">>
      /\ DOMAIN Call = 1..3
  BY DEF Call
<1>4. fs \in Seq(T) /\ \A i \in 1..Len(fs) : fs[i] \in Flags
  OBVIOUS
<1>5. ToSet(Call) = {<<"cleanup">>, <<"uninstaller">>, <<"root">>}
  <2>1. ToSet(Call) = {Call[i] : i \in 1..3}
    BY <1>3 DEF ToSet
  <2>2. {Call[i] : i \in 1..3} = {Call[1], Call[2], Call[3]}
    OBVIOUS
  <2> QED
    BY <1>3, <2>1, <2>2
<1>6. \A i \in 1..3 : Call[i] \notin Flags /\ Call[i] # <<>>
  <2>1. \A i \in 1..3 : i = 1 \/ i = 2 \/ i = 3
    OBVIOUS
  <2>2. <<"cleanup">> # <<>> /\ <<"uninstaller">> # <<>> /\ <<"root">> # <<>>
    OBVIOUS
  <2> QED
    BY <1>3, <2>1, <2>2, NoFlag
<1> HIDE DEF T
<1>7. Operands(given) = Call
  BY <1>2, <1>3, <1>4, <1>6, OperandsBehind
<1>8. ToSet(given) = ToSet(fs) \cup ToSet(Call)
  BY <1>2, <1>3, <1>4, Members
<1>9. \A f \in Flag : Has(given, f) <=> <<f>> \in ToSet(fs)
  BY <1>5, <1>8, NoFlag DEF Has
<1>10. /\ Has(given, "--json") <=> Has(args, "--json")
       /\ Has(given, "--headless") <=> mode = "tui"
       /\ Has(given, "--headed") <=> mode = "gui"
       /\ Has(given, "--automation") <=> Has(args, "--automation")
  <2>1. \A f \in Flag : <<f>> \in ToSet(fs) <=>
          \/ f = "--json" /\ Has(args, "--json")
          \/ f = "--headless" /\ mode = "tui"
          \/ f = "--headed" /\ mode = "gui"
          \/ f = "--automation" /\ Has(args, "--automation")
    <3> SUFFICES ASSUME NEW f \in Flag
                 PROVE  <<f>> \in ToSet(fs) <=>
                          \/ f = "--json" /\ Has(args, "--json")
                          \/ f = "--headless" /\ mode = "tui"
                          \/ f = "--headed" /\ mode = "gui"
                          \/ f = "--automation" /\ Has(args, "--automation")
      OBVIOUS
    <3>1. \A h \in Flag : <<f>> = <<h>> <=> f = h
      BY NoFlag
    <3>2. {"--json", "--headless", "--headed", "--automation"} \subseteq Flag
      BY DEF Flag
    <3> QED
      BY <1>2, <3>1, <3>2
  <2> QED
    BY <1>9, <2>1 DEF Flag
<1> HIDE DEF given
<1>11. Understood(given)
  BY <1>1, <1>3, <1>6, <1>7, <1>10 DEF Understood
<1>12. Command(given) = "cleanup"
  BY <1>3, <1>7 DEF Command
<1>13. SelectUi(given, own) = IF mode = "gui" /\ ~own THEN "tui" ELSE mode
  BY <1>1, <1>10 DEF SelectUi
<1>14. Has(given, "--automation") = Has(args, "--automation")
  BY <1>10 DEF Has
<1> QED
  BY <1>11, <1>12, <1>13, <1>14 DEF given

-----------------------------------------------------------------------------
(* Packages *)

(* A nonempty set of positions has a last one. *)
LEMMA Latest ==
  ASSUME NEW n \in Nat, NEW S \in SUBSET (1..n), S # {}
  PROVE  \E m \in S : \A j \in S : j <= m
<1> DEFINE D == {n - i : i \in S}
<1>1. D \in SUBSET Nat /\ D # {}
  <2>1. \A i \in S : n - i \in Nat
    OBVIOUS
  <2>2. \A d \in D : d \in Nat
    BY <2>1
  <2>3. PICK i \in S : TRUE
    OBVIOUS
  <2>4. n - i \in D
    BY <2>3
  <2> HIDE DEF D
  <2> QED
    BY <2>2, <2>4
<1> HIDE DEF D
<1>2. PICK d \in D : \A e \in D : ~(e < d)
  BY <1>1, Least
<1>3. PICK m \in S : d = n - m
  BY <1>2 DEF D
<1>4. ASSUME NEW j \in S PROVE j <= m
  <2>1. n - j \in D
    BY DEF D
  <2>2. ~(n - j < n - m)
    BY <1>2, <1>3, <2>1
  <2> QED
    BY <2>2
<1> QED
  BY <1>4

(* The members of a flattened sequence are those of the sequences it was  *)
(* made of.                                                               *)
LEMMA FlatMembers ==
  ASSUME NEW T, NEW seqs \in Seq(Seq(T))
  PROVE  \A e : e \in ToSet(FlattenSeq(seqs)) <=> \E i \in 1..Len(seqs) : e \in ToSet(seqs[i])
<1> DEFINE L == Len(seqs)
           S == {k \in 0..L : ToSet(Flat(seqs, k)) = UNION {ToSet(seqs[i]) : i \in 1..k}}
<1>1. L \in Nat /\ \A i \in 1..L : seqs[i] \in Seq(T)
  OBVIOUS
<1>2. /\ Flat(seqs, 0) = <<>> /\ Flat(seqs, L) = FlattenSeq(seqs)
      /\ \A k \in 0..L : Flat(seqs, k) \in Seq(T)
      /\ \A k \in 0..(L - 1) : Flat(seqs, k + 1) = Flat(seqs, k) \o seqs[k + 1]
  BY Flats
<1>3. 0 \in S
  <2>1. ToSet(<<>>) = {}
    BY DEF ToSet
  <2>2. 1..0 = {}
    OBVIOUS
  <2>3. UNION {ToSet(seqs[i]) : i \in 1..0} = {}
    BY <2>2
  <2> QED
    BY <1>1, <1>2, <2>1, <2>3
<1>4. ASSUME NEW k \in 0..(L - 1), k \in S PROVE k + 1 \in S
  <2> DEFINE a == Flat(seqs, k)
             b == seqs[k + 1]
  <2>1. /\ k + 1 \in 0..L /\ k \in 0..L /\ k + 1 \in 1..L
        /\ \A i : i \in 1..(k + 1) <=> i \in 1..k \/ i = k + 1
    BY <1>1
  <2>2. a \in Seq(T) /\ b \in Seq(T) /\ Flat(seqs, k + 1) = a \o b
    BY <1>1, <1>2, <2>1
  <2>3. ToSet(a) = UNION {ToSet(seqs[i]) : i \in 1..k}
    BY <1>4
  <2> HIDE DEF a
  <2>4. ToSet(a \o b) = ToSet(a) \cup ToSet(b)
    <3> HIDE DEF b
    <3> QED
      BY <2>2, Members
  <2>5. UNION {ToSet(seqs[i]) : i \in 1..(k + 1)} = (UNION {ToSet(seqs[i]) : i \in 1..k}) \cup ToSet(b)
    <3> DEFINE U(i) == ToSet(seqs[i])
    <3> HIDE DEF U
    <3>1. UNION {U(i) : i \in 1..(k + 1)} = (UNION {U(i) : i \in 1..k}) \cup U(k + 1)
      BY <2>1
    <3> QED
      BY <3>1 DEF U
  <2> QED
    BY <2>1, <2>2, <2>3, <2>4, <2>5
<1>5. L \in S
  <2>1. L \in 0..L
    BY <1>1
  <2> HIDE DEF S, L
  <2>2. 0..L \subseteq S
    BY <1>1, <1>3, <1>4, InductionUpTo
  <2> QED
    BY <2>1, <2>2
<1>6. ToSet(FlattenSeq(seqs)) = UNION {ToSet(seqs[i]) : i \in 1..L}
  BY <1>2, <1>5
<1> QED
  BY <1>6

(* Each sequence lies in the flattened one behind all that come before    *)
(* it.                                                                    *)
LEMMA FlatPlaces ==
  ASSUME NEW T, NEW seqs \in Seq(Seq(T))
  PROVE  \A i \in 1..Len(seqs) :
           /\ Len(Flat(seqs, i)) = Len(Flat(seqs, i - 1)) + Len(seqs[i])
           /\ Len(Flat(seqs, i)) <= Len(FlattenSeq(seqs))
           /\ \A j \in 1..Len(seqs[i]) :
                FlattenSeq(seqs)[Len(Flat(seqs, i - 1)) + j] = seqs[i][j]
<1> DEFINE L == Len(seqs)
           at(k) == Len(Flat(seqs, k))
           S == {k \in 0..L : \A i \in 1..k :
                   /\ at(i) <= at(k)
                   /\ \A j \in 1..Len(seqs[i]) : Flat(seqs, k)[at(i - 1) + j] = seqs[i][j]}
<1>1. L \in Nat /\ \A i \in 1..L : seqs[i] \in Seq(T) /\ Len(seqs[i]) \in Nat
  OBVIOUS
<1>2. /\ Flat(seqs, 0) = <<>> /\ Flat(seqs, L) = FlattenSeq(seqs)
      /\ \A k \in 0..L : Flat(seqs, k) \in Seq(T)
      /\ \A k \in 0..(L - 1) : Flat(seqs, k + 1) = Flat(seqs, k) \o seqs[k + 1]
  BY Flats
<1>3. \A k \in 0..L : at(k) \in Nat
  BY <1>2
<1>4. \A k \in 0..(L - 1) :
        /\ at(k + 1) = at(k) + Len(seqs[k + 1])
        /\ \A j \in 1..at(k) : Flat(seqs, k + 1)[j] = Flat(seqs, k)[j]
        /\ \A j \in 1..Len(seqs[k + 1]) : Flat(seqs, k + 1)[at(k) + j] = seqs[k + 1][j]
  <2> SUFFICES ASSUME NEW k \in 0..(L - 1)
               PROVE  /\ at(k + 1) = at(k) + Len(seqs[k + 1])
                      /\ \A j \in 1..at(k) : Flat(seqs, k + 1)[j] = Flat(seqs, k)[j]
                      /\ \A j \in 1..Len(seqs[k + 1]) :
                           Flat(seqs, k + 1)[at(k) + j] = seqs[k + 1][j]
    OBVIOUS
  <2> DEFINE a == Flat(seqs, k)
             b == seqs[k + 1]
  <2>1. k \in 0..L /\ k + 1 \in 1..L
    BY <1>1
  <2>2. a \in Seq(T) /\ b \in Seq(T) /\ Flat(seqs, k + 1) = a \o b
    BY <1>1, <1>2, <2>1
  <2> HIDE DEF a, b
  <2>3. /\ Len(a \o b) = Len(a) + Len(b)
        /\ \A j \in 1..Len(a) : (a \o b)[j] = a[j]
        /\ \A j \in 1..Len(b) : (a \o b)[Len(a) + j] = b[j]
    BY <2>2, ConcatProperties
  <2> QED
    BY <2>2, <2>3 DEF a, b
<1> HIDE DEF at
<1>5. 0 \in S
  BY <1>1
<1>6. ASSUME NEW k \in 0..(L - 1), k \in S PROVE k + 1 \in S
  <2>1. /\ k + 1 \in 0..L /\ k \in 0..L /\ k + 1 \in 1..L /\ (k + 1) - 1 = k
        /\ \A i \in 1..k : i \in 1..L /\ i \in 0..L /\ i - 1 \in 0..(L - 1) /\ (i - 1) + 1 = i
    BY <1>1
  <2>2. at(k) <= at(k + 1) /\ at(k + 1) \in Nat /\ at(k) \in Nat
    <3>1. at(k + 1) = at(k) + Len(seqs[k + 1])
      BY <1>4
    <3>2. at(k) \in Nat /\ at(k + 1) \in Nat /\ Len(seqs[k + 1]) \in Nat
      BY <1>1, <1>3, <2>1
    <3> QED
      BY <3>1, <3>2
  <2>3. ASSUME NEW i \in 1..k
        PROVE  /\ at(i) <= at(k + 1)
               /\ \A j \in 1..Len(seqs[i]) : Flat(seqs, k + 1)[at(i - 1) + j] = seqs[i][j]
    <3>1. at(i) \in Nat /\ at(i - 1) \in Nat /\ at(i) = at(i - 1) + Len(seqs[i]) /\ at(i) <= at(k)
      <4>1. i - 1 \in 0..L
        BY <1>1, <2>1
      <4>2. at(i) = at(i - 1) + Len(seqs[i])
        BY <1>4, <2>1
      <4> QED
        BY <1>3, <1>6, <2>1, <4>1, <4>2
    <3>2. ASSUME NEW j \in 1..Len(seqs[i])
          PROVE  Flat(seqs, k + 1)[at(i - 1) + j] = seqs[i][j]
      <4>1. at(i - 1) + j \in 1..at(k)
        BY <1>1, <2>1, <2>2, <3>1
      <4>2. Flat(seqs, k + 1)[at(i - 1) + j] = Flat(seqs, k)[at(i - 1) + j]
        BY <1>4, <4>1
      <4> QED
        BY <1>6, <4>2
    <3> QED
      BY <2>2, <3>1, <3>2
  <2>4. ASSUME NEW i \in 1..(k + 1), i = k + 1
        PROVE  /\ at(i) <= at(k + 1)
               /\ \A j \in 1..Len(seqs[i]) : Flat(seqs, k + 1)[at(i - 1) + j] = seqs[i][j]
    BY <1>4, <2>1, <2>2, <2>4
  <2>5. \A i \in 1..(k + 1) : i \in 1..k \/ i = k + 1
    OBVIOUS
  <2> QED
    BY <2>1, <2>3, <2>4, <2>5
<1>7. L \in S
  <2>1. L \in 0..L
    BY <1>1
  <2> HIDE DEF S, L
  <2>2. 0..L \subseteq S
    BY <1>1, <1>5, <1>6, InductionUpTo
  <2> QED
    BY <2>1, <2>2
<1>8. ASSUME NEW i \in 1..L PROVE at(i) = at(i - 1) + Len(seqs[i])
  <2>1. i - 1 \in 0..(L - 1) /\ (i - 1) + 1 = i
    BY <1>1
  <2> QED
    BY <1>4, <2>1
<1> QED
  BY <1>2, <1>7, <1>8 DEF at

(* a file under the name it gets in the package *)
Renamed(source, e) ==
  [e EXCEPT !.path = IF e.path = source.manifest THEN ManifestName ELSE e.path]

(* the files that are packaged *)
KeptEntries(source) == {i \in DOMAIN source.entries : ~Excluded(source.entries[i].path)}

(* Renaming changes the path alone. *)
LEMMA RenamedIs ==
  ASSUME NEW source \in Sources, NEW e \in File
  PROVE  /\ Renamed(source, e) \in File
         /\ Renamed(source, e).data = e.data
         /\ Renamed(source, e).path = IF e.path = source.manifest THEN ManifestName ELSE e.path
BY BundleAssumption DEF Renamed, File

(* A package has the files whose names are not generated. *)
LEMMA Collected ==
  ASSUME NEW source \in Sources
  PROVE  /\ Collect(source) \in Seq(File)
         /\ \A f : f \in ToSet(Collect(source)) <=>
              \E i \in KeptEntries(source) : f = Renamed(source, source.entries[i])
<1> DEFINE entries == source.entries
           L == Len(entries)
           part(i) == IF Excluded(entries[i].path) THEN <<>>
                      ELSE <<Renamed(source, entries[i])>>
           parts == [i \in DOMAIN entries |-> part(i)]
<1>1. entries \in Seq(File) /\ DOMAIN entries = 1..L /\ L \in Nat /\ \A i \in 1..L : entries[i] \in File
  BY BundleAssumption
<1>2. Collect(source) = FlattenSeq(parts)
  BY DEF Collect, Renamed
<1>3. \A i \in 1..L : Renamed(source, entries[i]) \in File
  BY <1>1, RenamedIs
<1>4. KeptEntries(source) = {i \in 1..L : ~Excluded(entries[i].path)}
  BY <1>1 DEF KeptEntries
<1> HIDE DEF entries, L
<1>5. \A f : ToSet(<<f>>) = {f}
  BY DEF ToSet
<1>6. ToSet(<<>>) = {}
  BY DEF ToSet
<1>7. \A f \in File : <<f>> \in Seq(File)
  OBVIOUS
<1>8. <<>> \in Seq(File)
  OBVIOUS
<1>9. \A i \in 1..L : /\ part(i) \in Seq(File)
                      /\ ToSet(part(i)) = IF i \in KeptEntries(source)
                                          THEN {Renamed(source, entries[i])} ELSE {}
  BY <1>3, <1>4, <1>5, <1>6, <1>7, <1>8
<1>10. DOMAIN parts = 1..L /\ \A i \in 1..L : parts[i] = part(i)
  BY <1>1
<1> HIDE DEF part
<1>11. parts \in [1..L -> Seq(File)]
  BY <1>1, <1>9, <1>10
<1> HIDE DEF parts
<1>12. parts \in Seq(Seq(File)) /\ Len(parts) = L
  BY <1>1, <1>11
<1>13. FlattenSeq(parts) \in Seq(File)
  <2>1. Flat(parts, Len(parts)) \in Seq(File) /\ Flat(parts, Len(parts)) = FlattenSeq(parts)
    BY <1>1, <1>12, Flats
  <2> QED
    BY <2>1
<1>14. \A f : f \in ToSet(FlattenSeq(parts)) <=> \E i \in 1..L : f \in ToSet(parts[i])
  BY <1>12, FlatMembers
<1> QED
  BY <1>2, <1>4, <1>9, <1>10, <1>13, <1>14 DEF entries

(* what files are put together from *)
Datas(files) == [i \in DOMAIN files |-> files[i].data]
(* and the index of them *)
Entries(files) == [i \in DOMAIN files |-> <<files[i].path, Len(files[i].data)>>]

(* The index has a path and a length for every file that is packaged. *)
LEMMA DatasAre ==
  ASSUME NEW files \in Seq(File)
  PROVE  /\ Datas(files) \in Seq(Seq(AnyCell)) /\ Len(Datas(files)) = Len(files)
         /\ \A i \in 1..Len(files) : Datas(files)[i] = files[i].data
         /\ Entries(files) \in Seq(Path \X Nat) /\ Len(Entries(files)) = Len(files)
         /\ \A i \in 1..Len(files) : /\ Entries(files)[i][1] = files[i].path
                                     /\ Entries(files)[i][2] = Len(files[i].data)
<1> DEFINE L == Len(files)
           d(i) == files[i].data
           e(i) == <<files[i].path, Len(files[i].data)>>
<1>1. L \in Nat /\ DOMAIN files = 1..L
  OBVIOUS
<1>2. \A i \in 1..L : d(i) \in Seq(AnyCell) /\ files[i].path \in Path
  <2>1. \A f \in File : f.data \in Seq(AnyCell) /\ f.path \in Path
    BY DEF File
  <2>2. \A i \in 1..L : files[i] \in File
    OBVIOUS
  <2> QED
    BY <2>1, <2>2
<1>3. \A i \in 1..L : Len(files[i].data) \in Nat
  BY <1>2
<1>4. \A i \in 1..L : e(i) \in Path \X Nat /\ e(i)[1] = files[i].path /\ e(i)[2] = Len(files[i].data)
  BY <1>2, <1>3
<1>5. Datas(files) = [i \in 1..L |-> d(i)] /\ Entries(files) = [i \in 1..L |-> e(i)]
  BY <1>1 DEF Datas, Entries
<1> HIDE DEF L, d, e
<1>6. Datas(files) \in [1..L -> Seq(AnyCell)] /\ Entries(files) \in [1..L -> Path \X Nat]
  BY <1>2, <1>4, <1>5
<1>7. Datas(files) \in Seq(Seq(AnyCell)) /\ Len(Datas(files)) = L
  BY <1>1, <1>6
<1>8. Entries(files) \in Seq(Path \X Nat) /\ Len(Entries(files)) = L
  BY <1>1, <1>6
<1>9. \A i \in 1..L : Datas(files)[i] = d(i) /\ Entries(files)[i] = e(i)
  BY <1>5
<1> QED
  BY <1>4, <1>7, <1>8, <1>9 DEF L, d

(* A number, the index and the magic can be told apart. *)
LEMMA CellsAre ==
  /\ \A n \in Nat : Number(n) \in AnyCell /\ Number(n).n = n /\ Number(n) # Magic
  /\ \A x \in Seq(Path \X Nat) : Index(x) \in AnyCell /\ Index(x).index = x
                                   /\ Index(x).is = "index" /\ Index(x) # Magic
  /\ Magic \in AnyCell /\ Code \in AnyCell
BY DEF Number, Index, Magic, Code, Cell, AnyCell

(* A payload is the length of its index, the index, and the data of the   *)
(* files.                                                                 *)
LEMMA PayloadIs ==
  ASSUME NEW files \in Seq(File)
  PROVE  LET d == FlattenSeq(Datas(files)) IN
         /\ d \in Seq(AnyCell)
         /\ Payload(files) \in Seq(AnyCell)
         /\ Len(Payload(files)) = 2 + Len(d)
         /\ Payload(files)[1] = Number(1)
         /\ Payload(files)[2] = Index(Entries(files))
         /\ \A j \in 1..Len(d) : Payload(files)[2 + j] = d[j]
<1> DEFINE d == FlattenSeq(Datas(files))
           a == Number(1)
           b == Index(Entries(files))
           h == <<a, b>>
<1>1. d \in Seq(AnyCell)
  <2>1. Flat(Datas(files), Len(Datas(files))) \in Seq(AnyCell)
    <3>1. Len(Datas(files)) \in Nat /\ Datas(files) \in Seq(Seq(AnyCell))
      BY DatasAre
    <3> QED
      BY <3>1, Flats
  <2> QED
    BY <2>1, DatasAre, Flats
<1>2. Payload(files) = h \o d
  BY DEF Payload, Datas, Entries
<1>3. a \in AnyCell /\ b \in AnyCell
  BY CellsAre, DatasAre
<1> HIDE DEF a, b
<1>4. h \in Seq(AnyCell) /\ Len(h) = 2 /\ h[1] = a /\ h[2] = b
  BY <1>3
<1> HIDE DEF h, d
<1>5. /\ h \o d \in Seq(AnyCell) /\ Len(h \o d) = Len(h) + Len(d)
      /\ \A i \in 1..Len(h) : (h \o d)[i] = h[i]
      /\ \A i \in 1..Len(d) : (h \o d)[Len(h) + i] = d[i]
  <2>1. h \in Seq(AnyCell) /\ d \in Seq(AnyCell)
    BY <1>1, <1>4
  <2> QED
    BY <2>1, ConcatProperties
<1>6. (h \o d)[1] = a /\ (h \o d)[2] = b
  BY <1>4, <1>5
<1> QED
  BY <1>1, <1>2, <1>4, <1>5, <1>6 DEF a, b, d

(* A package is the executable, the payload, its length, and the magic. *)
LEMMA PackagedIs ==
  ASSUME NEW stub \in Seq(AnyCell), NEW files \in Seq(File), NEW bytes,
         bytes = stub \o Appended(files)
  PROVE  LET p == Payload(files)
             s == Len(stub)
             n == Len(p)
         IN  /\ bytes \in Seq(AnyCell) /\ Len(bytes) = s + n + 2
             /\ \A i \in 1..s : bytes[i] = stub[i]
             /\ \A i \in 1..n : bytes[s + i] = p[i]
             /\ bytes[s + n + 1] = Number(n)
             /\ bytes[s + n + 2] = Magic
<1> DEFINE p == Payload(files)
           s == Len(stub)
           n == Len(p)
           a == Number(n)
           b == Magic
           e == <<a, b>>
<1>1. p \in Seq(AnyCell) /\ n \in Nat /\ s \in Nat
  BY PayloadIs
<1>2. bytes = stub \o (p \o e)
  BY DEF Appended
<1>3. a \in AnyCell /\ b \in AnyCell
  BY <1>1, CellsAre
<1> HIDE DEF p, a, b
<1>4. e \in Seq(AnyCell) /\ Len(e) = 2 /\ e[1] = a /\ e[2] = b
  BY <1>3
<1> HIDE DEF e
<1> DEFINE t == p \o e
<1>5. /\ t \in Seq(AnyCell) /\ Len(t) = n + 2
      /\ \A i \in 1..n : t[i] = p[i]
      /\ \A i \in 1..2 : t[n + i] = e[i]
  <2>1. p \in Seq(AnyCell) /\ e \in Seq(AnyCell)
    BY <1>1, <1>4
  <2>2. /\ p \o e \in Seq(AnyCell) /\ Len(p \o e) = Len(p) + Len(e)
        /\ \A i \in 1..Len(p) : (p \o e)[i] = p[i]
        /\ \A i \in 1..Len(e) : (p \o e)[Len(p) + i] = e[i]
    BY <2>1, ConcatProperties
  <2> QED
    BY <1>4, <2>2
<1>6. t[n + 1] = a /\ t[n + 2] = b
  BY <1>4, <1>5
<1>7. bytes = stub \o t
  BY <1>2
<1> HIDE DEF t
<1>8. /\ stub \o t \in Seq(AnyCell) /\ Len(stub \o t) = Len(stub) + Len(t)
      /\ \A i \in 1..Len(stub) : (stub \o t)[i] = stub[i]
      /\ \A i \in 1..Len(t) : (stub \o t)[Len(stub) + i] = t[i]
  <2>1. t \in Seq(AnyCell)
    BY <1>5
  <2> QED
    BY <2>1, ConcatProperties
<1> HIDE DEF n
<1>9. /\ Len(bytes) = s + n + 2
      /\ \A i \in 1..n : bytes[s + i] = p[i]
      /\ bytes[s + (n + 1)] = a /\ bytes[s + (n + 2)] = b
  BY <1>1, <1>5, <1>6, <1>7, <1>8
<1>10. s + (n + 1) = s + n + 1 /\ s + (n + 2) = s + n + 2
  BY <1>1
<1> QED
  BY <1>7, <1>8, <1>9, <1>10 DEF a, b, p, n

(* The lengths in an index add up to the lengths of what was put together. *)
LEMMA Sums ==
  ASSUME NEW files \in Seq(File), NEW n \in 0..Len(files)
  PROVE  Length(Entries(files), n) = Len(Flat(Datas(files), n))
<1> DEFINE L == Len(files)
           index == Entries(files)
           datas == Datas(files)
           g == [k \in 0..n |-> Len(Flat(datas, k))]
           Up(f) == f = [k \in 0..n |-> IF k = 0 THEN 0 ELSE f[k - 1] + index[k][2]]
<1>1. L \in Nat /\ n \in Nat /\ n <= L
  OBVIOUS
<1>2. /\ datas \in Seq(Seq(AnyCell)) /\ Len(datas) = L
      /\ \A k \in 1..L : index[k][2] = Len(datas[k])
  BY DatasAre
<1> HIDE DEF index, datas
<1>3. /\ Flat(datas, 0) = <<>>
      /\ \A k \in 1..L : Len(Flat(datas, k)) = Len(Flat(datas, k - 1)) + Len(datas[k])
  BY <1>2, Flats, FlatPlaces
<1>4. Len(Flat(datas, 0)) = 0
  BY <1>3
<1>5. \A k \in 1..n : k \in 1..L /\ k - 1 \in 0..n /\ k \in 0..n
  BY <1>1
<1>6. \A k \in 0..n : g[k] = IF k = 0 THEN 0 ELSE g[k - 1] + index[k][2]
  <2>1. \A k \in 0..n : g[k] = Len(Flat(datas, k))
    OBVIOUS
  <2> HIDE DEF g
  <2>2. \A k \in 0..n : k = 0 \/ k \in 1..n
    BY <1>1
  <2>3. g[0] = 0
    BY <1>1, <1>4, <2>1
  <2>4. \A k \in 1..n : g[k] = g[k - 1] + index[k][2]
    BY <1>2, <1>3, <1>5, <2>1
  <2>5. \A k \in 1..n : k # 0
    OBVIOUS
  <2> QED
    BY <2>2, <2>3, <2>4, <2>5
<1>7. g = [k \in 0..n |-> g[k]]
  OBVIOUS
<1> HIDE DEF g
<1>8. Up(g)
  BY <1>6, <1>7
<1> DEFINE sum == CHOOSE f : Up(f)
<1>9. Up(sum)
  <2> HIDE DEF Up
  <2> QED
    BY <1>8
<1>10. Length(index, n) = sum[n]
  BY DEF Length
<1> HIDE DEF sum
<1>11. \A k \in 0..n : sum[k] = IF k = 0 THEN 0 ELSE sum[k - 1] + index[k][2]
  BY <1>9
<1> HIDE DEF Up
<1> DEFINE S == {k \in 0..n : sum[k] = g[k]}
<1>12. 0 \in S
  BY <1>1, <1>6, <1>11
<1>13. ASSUME NEW k \in 0..(n - 1), k \in S PROVE k + 1 \in S
  <2>1. k + 1 \in 0..n /\ k + 1 # 0 /\ (k + 1) - 1 = k
    BY <1>1
  <2>2. sum[k + 1] = sum[k] + index[k + 1][2] /\ g[k + 1] = g[k] + index[k + 1][2]
    BY <1>6, <1>11, <2>1
  <2> QED
    BY <1>13, <2>1, <2>2
<1>14. n \in S
  <2>1. n \in 0..n
    BY <1>1
  <2> HIDE DEF S
  <2>2. 0..n \subseteq S
    BY <1>1, <1>12, <1>13, InductionUpTo
  <2> QED
    BY <2>1, <2>2
<1>15. g[n] = Len(Flat(datas, n))
  BY <1>1 DEF g
<1> QED
  BY <1>10, <1>14, <1>15 DEF index, datas

(* A payload is read as the files it was made of. *)
LEMMA ReadPayloadIs ==
  ASSUME NEW files \in Seq(File)
  PROVE  ReadPayload(Payload(files)) = [kind |-> "bundle", files |-> files]
<1> DEFINE p == Payload(files)
           index == Entries(files)
           datas == Datas(files)
           d == FlattenSeq(datas)
           L == Len(files)
<1>1. /\ d \in Seq(AnyCell) /\ p \in Seq(AnyCell) /\ Len(p) = 2 + Len(d)
      /\ p[1] = Number(1) /\ p[2] = Index(index)
      /\ \A j \in 1..Len(d) : p[2 + j] = d[j]
  BY PayloadIs
<1>2. /\ datas \in Seq(Seq(AnyCell)) /\ Len(datas) = L
      /\ \A i \in 1..L : datas[i] = files[i].data
      /\ index \in Seq(Path \X Nat) /\ Len(index) = L
      /\ \A i \in 1..L : index[i][1] = files[i].path /\ index[i][2] = Len(files[i].data)
  BY DatasAre
<1>3. L \in Nat /\ Len(d) \in Nat
  BY <1>1
<1>4. p[1].n = 1 /\ p[2].is = "index" /\ p[2].index = index
  BY <1>1, <1>2, CellsAre
<1>5. Length(index, Len(index)) = Len(d)
  <2>1. L \in 0..Len(files)
    BY <1>3
  <2>2. Length(index, L) = Len(Flat(datas, L))
    BY <2>1, Sums
  <2>3. Flat(datas, L) = d
    <3>1. Flat(datas, Len(datas)) = d
      <4> HIDE DEF datas
      <4> QED
        BY <1>2, Flats
    <3> QED
      BY <1>2, <3>1
  <2> QED
    BY <1>2, <2>2, <2>3
<1> DEFINE got(i) == SubSeq(p, StartOf(index, i), StartOf(index, i) + index[i][2] - 1)
           read == [i \in DOMAIN index |-> [path |-> index[i][1], data |-> got(i)]]
<1>6. ReadPayload(p) = [kind |-> "bundle", files |-> read]
  <2>1. p # <<>> /\ ~(1 + p[1].n > Len(p))
    BY <1>1, <1>3, <1>4
  <2>2. 2 + Length(index, Len(index)) = Len(p)
    BY <1>1, <1>5
  <2> HIDE DEF p, index
  <2> QED
    BY <1>4, <2>1, <2>2 DEF ReadPayload
<1>7. ASSUME NEW i \in 1..L PROVE got(i) = files[i].data
  <2> DEFINE a == Len(Flat(datas, i - 1))
             m == Len(datas[i])
  <2>1. i - 1 \in 0..Len(files) /\ i \in 0..Len(files) /\ datas[i] \in Seq(AnyCell) /\ m \in Nat
    BY <1>2, <1>3
  <2>2. StartOf(index, i) = 3 + a
    BY <2>1, Sums DEF StartOf
  <2>3. index[i][2] = m /\ datas[i] = files[i].data
    BY <1>2
  <2>4. a \in Nat
    <3>1. Flat(datas, i - 1) \in Seq(AnyCell)
      <4>1. i - 1 \in 0..Len(datas)
        BY <1>2, <2>1
      <4> HIDE DEF datas
      <4> QED
        BY <1>2, <4>1, Flats
    <3> QED
      BY <3>1
  <2>5. a + m <= Len(d) /\ \A j \in 1..m : d[a + j] = datas[i][j]
    <3>1. i \in 1..Len(datas)
      BY <1>2
    <3>2. Flat(datas, i) \in Seq(AnyCell)
      <4>1. i \in 0..Len(datas)
        BY <1>2, <2>1
      <4> HIDE DEF datas
      <4> QED
        BY <1>2, <4>1, Flats
    <3> HIDE DEF datas
    <3>3. datas \in Seq(Seq(AnyCell))
      BY <1>2 DEF datas
    <3>4. \A k \in 1..Len(datas) :
            /\ Len(Flat(datas, k)) = Len(Flat(datas, k - 1)) + Len(datas[k])
            /\ Len(Flat(datas, k)) <= Len(FlattenSeq(datas))
            /\ \A j \in 1..Len(datas[k]) :
                 FlattenSeq(datas)[Len(Flat(datas, k - 1)) + j] = datas[k][j]
      BY <3>3, FlatPlaces
    <3>5. Len(Flat(datas, i)) = a + m /\ Len(Flat(datas, i)) <= Len(d)
      BY <3>1, <3>4
    <3>6. \A j \in 1..m : d[a + j] = datas[i][j]
      BY <3>1, <3>4
    <3> QED
      BY <3>5, <3>6
  <2> HIDE DEF a, m, index, datas, d, L, p
  <2>6. got(i) = SubSeq(p, 3 + a, 3 + a + m - 1)
    BY <2>2, <2>3
  <2> DEFINE q == SubSeq(p, 3 + a, 3 + a + m - 1)
  <2>7. q \in Seq(AnyCell) /\ Len(q) = m /\ \A j \in 1..m : q[j] = p[3 + a + j - 1]
    BY <1>1, <1>3, <2>1, <2>4, <2>5
  <2>8. \A j \in 1..m : q[j] = datas[i][j]
    <3> SUFFICES ASSUME NEW j \in 1..m PROVE q[j] = datas[i][j]
      OBVIOUS
    <3>1. a + j \in 1..Len(d) /\ 3 + a + j - 1 = 2 + (a + j)
      BY <1>3, <2>1, <2>4, <2>5
    <3>2. q[j] = p[2 + (a + j)]
      BY <2>7, <3>1
    <3> HIDE DEF q
    <3> QED
      BY <1>1, <2>5, <3>1, <3>2
  <2> HIDE DEF q
  <2>9. q = datas[i]
    BY <2>1, <2>7, <2>8, SeqEqual DEF m
  <2> QED
    BY <2>3, <2>6, <2>9 DEF q
<1>8. read = files
  <2>1. DOMAIN read = 1..L /\ DOMAIN files = 1..L
    BY <1>2
  <2>2. ASSUME NEW i \in 1..L PROVE read[i] = files[i]
    <3>1. read[i] = [path |-> index[i][1], data |-> got(i)]
      BY <2>1
    <3>2. read[i] = [path |-> files[i].path, data |-> files[i].data]
      <4> HIDE DEF got
      <4> QED
        BY <1>2, <1>7, <3>1
    <3>3. files[i] \in File
      OBVIOUS
    <3>4. files[i] = [path |-> files[i].path, data |-> files[i].data]
      BY <3>3 DEF File
    <3> QED
      BY <3>2, <3>4
  <2>3. read = [i \in 1..L |-> read[i]] /\ files = [i \in 1..L |-> files[i]]
    BY <1>2, <2>1
  <2> HIDE DEF read, L
  <2> QED
    BY <2>2, <2>3
<1> QED
  BY <1>6, <1>8

(* A package is read as the files that were put into it, whatever         *)
(* executable is in front of them.  (append_embedded_bundle,              *)
(* read_embedded_bundle)                                                  *)
THEOREM ReadPackaged ==
  ASSUME NEW stub \in Seq(AnyCell), NEW source \in Sources
  PROVE  ReadBundle(Packaged(stub, source)) = [kind |-> "bundle", files |-> Collect(source)]
<1> DEFINE files == Collect(source)
           bytes == Packaged(stub, source)
           p == Payload(files)
           s == Len(stub)
           n == Len(p)
<1>1. files \in Seq(File)
  BY Collected
<1> HIDE DEF files
<1>2. bytes = stub \o Appended(files)
  BY DEF Packaged, files
<1> HIDE DEF bytes
<1>3. /\ bytes \in Seq(AnyCell) /\ Len(bytes) = s + n + 2
      /\ \A i \in 1..n : bytes[s + i] = p[i]
      /\ bytes[s + n + 1] = Number(n)
      /\ bytes[s + n + 2] = Magic
  BY <1>1, <1>2, PackagedIs
<1>4. p \in Seq(AnyCell) /\ n \in Nat /\ s \in Nat
  BY <1>1, PayloadIs
<1>5. ReadPayload(p) = [kind |-> "bundle", files |-> files]
  BY <1>1, ReadPayloadIs
<1> HIDE DEF p
<1>6. Number(n).n = n
  BY <1>4, CellsAre
<1> DEFINE q == SubSeq(bytes, s + 1, s + n)
<1>7. q = p
  <2>1. q \in Seq(AnyCell) /\ Len(q) = n /\ \A j \in 1..n : q[j] = bytes[s + 1 + j - 1]
    <3> HIDE DEF s, n
    <3> QED
      BY <1>3, <1>4
  <2>2. \A j \in 1..n : s + 1 + j - 1 = s + j
    BY <1>4
  <2>3. \A j \in 1..n : q[j] = p[j]
    BY <1>3, <2>1, <2>2
  <2> HIDE DEF q
  <2> QED
    BY <1>4, <2>1, <2>3, SeqEqual
<1> HIDE DEF n, s
<1>8. ReadBundle(bytes) = ReadPayload(q)
  <2>1. /\ Len(bytes) - 1 = s + n + 1 /\ ~(Len(bytes) < 2) /\ ~(Len(bytes) - 2 < n)
        /\ Len(bytes) - 1 - n = s + 1 /\ Len(bytes) - 2 = s + n
    BY <1>3, <1>4
  <2>2. bytes[Len(bytes)] = Magic /\ bytes[Len(bytes) - 1].n = n
    BY <1>3, <1>6, <2>1
  <2> QED
    BY <2>1, <2>2 DEF ReadBundle
<1> QED
  BY <1>5, <1>7, <1>8 DEF bytes, files

(* What was never packaged has no bundle. *)
LEMMA NotPackaged == ~HasBundle(<<>>) /\ ~HasBundle(<<Code>>)
<1>1. Len(<<>>) = 0 /\ Len(<<Code>>) = 1
  OBVIOUS
<1>2. ReadBundle(<<>>) = NoBundle /\ ReadBundle(<<Code>>) = NoBundle
  BY <1>1 DEF ReadBundle
<1> QED
  BY <1>2 DEF HasBundle, NoBundle

(* The magic is the last cell of a package, if neither the executable nor *)
(* the files have one.                                                    *)
LEMMA MagicIsLast ==
  ASSUME NEW stub \in Seq(AnyCell), NEW source \in Sources,
         \A i \in DOMAIN stub : stub[i] # Magic,
         \A i \in DOMAIN source.entries : Magic \notin ToSet(source.entries[i].data),
         NEW k \in 1..(Len(Packaged(stub, source)) - 1)
  PROVE  Packaged(stub, source)[k] # Magic
<1> DEFINE files == Collect(source)
           bytes == Packaged(stub, source)
           p == Payload(files)
           d == FlattenSeq(Datas(files))
           s == Len(stub)
           n == Len(p)
<1>1. files \in Seq(File)
  BY Collected
<1>2. \A i \in 1..Len(files) : Magic \notin ToSet(files[i].data)
  <2> SUFFICES ASSUME NEW i \in 1..Len(files) PROVE Magic \notin ToSet(files[i].data)
    OBVIOUS
  <2>1. files[i] \in ToSet(files)
    <3> HIDE DEF files
    <3> QED
      BY <1>1 DEF ToSet
  <2>2. PICK j \in KeptEntries(source) : files[i] = Renamed(source, source.entries[j])
    BY <2>1, Collected
  <2>3. j \in DOMAIN source.entries /\ source.entries[j] \in File
    BY BundleAssumption DEF KeptEntries
  <2>4. files[i].data = source.entries[j].data
    <3> HIDE DEF files
    <3> QED
      BY <2>2, <2>3, RenamedIs
  <2> QED
    BY <2>3, <2>4
<1> HIDE DEF files
<1>3. Magic \notin ToSet(d)
  <2>1. /\ Datas(files) \in Seq(Seq(AnyCell)) /\ Len(Datas(files)) = Len(files)
        /\ \A i \in 1..Len(files) : Datas(files)[i] = files[i].data
    BY <1>1, DatasAre
  <2>2. Magic \in ToSet(d) <=> \E i \in 1..Len(Datas(files)) : Magic \in ToSet(Datas(files)[i])
    BY <2>1, FlatMembers
  <2> QED
    BY <1>2, <2>1, <2>2
<1>4. bytes = stub \o Appended(files)
  BY DEF Packaged, files
<1> HIDE DEF bytes
<1>5. /\ Len(bytes) = s + n + 2
      /\ \A i \in 1..s : bytes[i] = stub[i]
      /\ \A i \in 1..n : bytes[s + i] = p[i]
      /\ bytes[s + n + 1] = Number(n)
  <2>1. Len(bytes) = s + n + 2
    BY <1>1, <1>4, PackagedIs
  <2>4. bytes[s + n + 1] = Number(n)
    BY <1>1, <1>4, PackagedIs
  <2>2. \A i \in 1..n : bytes[s + i] = p[i]
    BY <1>1, <1>4, PackagedIs
  <2>3. \A i \in 1..s : bytes[i] = stub[i]
    BY <1>1, <1>4, PackagedIs
  <2> QED
    BY <2>1, <2>2, <2>3, <2>4
<1>6. /\ d \in Seq(AnyCell) /\ p \in Seq(AnyCell) /\ n = 2 + Len(d)
      /\ p[1] = Number(1) /\ p[2] = Index(Entries(files))
      /\ \A j \in 1..Len(d) : p[2 + j] = d[j]
  BY <1>1, PayloadIs
<1>7. Len(d) \in Nat /\ n \in Nat /\ s \in Nat
  BY <1>6
<1>8. Number(1) # Magic /\ Number(n) # Magic /\ Index(Entries(files)) # Magic
  BY <1>1, <1>7, CellsAre, DatasAre
<1>9. \A j \in 1..Len(d) : d[j] # Magic
  <2> HIDE DEF d
  <2> QED
    BY <1>3, <1>6 DEF ToSet
<1>10. k \in 1..(s + n + 1)
  BY <1>5, <1>7 DEF bytes
<1> HIDE DEF p, d
<1>11. CASE k <= s
  <2>1. k \in 1..s /\ k \in DOMAIN stub
    BY <1>7, <1>10, <1>11
  <2> QED
    BY <1>5, <2>1 DEF bytes
<1>12. CASE k = s + n + 1
  BY <1>5, <1>8, <1>12 DEF bytes
<1>13. CASE s < k /\ k < s + n + 1
  <2> DEFINE j == k - s
  <2>1. j \in 1..n /\ k = s + j
    BY <1>7, <1>10, <1>13
  <2>2. bytes[k] = p[j]
    BY <1>5, <2>1
  <2>3. CASE j = 1 \/ j = 2
    BY <1>6, <1>8, <2>2, <2>3 DEF bytes
  <2>4. CASE j > 2
    <3>1. j - 2 \in 1..Len(d) /\ 2 + (j - 2) = j
      BY <1>6, <1>7, <2>1, <2>4
    <3>2. p[j] = d[j - 2]
      BY <1>6, <3>1
    <3>3. d[j - 2] # Magic
      BY <1>9, <3>1
    <3>4. bytes[k] # Magic
      BY <2>2, <3>2, <3>3
    <3> QED
      BY <3>4 DEF bytes
  <2>5. j = 1 \/ j = 2 \/ j > 2
    BY <1>7, <2>1
  <2> HIDE DEF j
  <2> QED
    BY <2>3, <2>4, <2>5
<1> HIDE DEF s, n
<1> QED
  BY <1>7, <1>10, <1>11, <1>12, <1>13

(* A package that was cut off has no bundle. *)
LEMMA CutOffHasNone ==
  ASSUME NEW stub \in Seq(AnyCell), NEW source \in Sources,
         \A i \in DOMAIN stub : stub[i] # Magic,
         \A i \in DOMAIN source.entries : Magic \notin ToSet(source.entries[i].data),
         NEW k \in 1..(Len(Packaged(stub, source)) - 1)
  PROVE  ~HasBundle(SubSeq(Packaged(stub, source), 1, k))
<1> DEFINE bytes == Packaged(stub, source)
           cut == SubSeq(bytes, 1, k)
<1>1. bytes[k] # Magic
  BY MagicIsLast
<1>2. bytes \in Seq(AnyCell)
  <2>1. bytes = stub \o Appended(Collect(source)) /\ Collect(source) \in Seq(File)
    BY Collected DEF Packaged
  <2> QED
    BY <2>1, PackagedIs
<1>3. k \in 1..(Len(bytes) - 1)
  OBVIOUS
<1> HIDE DEF bytes
<1>4. Len(cut) = k /\ cut[k] = bytes[k]
  BY <1>2, <1>3
<1> HIDE DEF cut
<1>5. ReadBundle(cut) = NoBundle
  BY <1>1, <1>4 DEF ReadBundle
<1> QED
  BY <1>5 DEF HasBundle, NoBundle, cut, bytes

(* A file whose name no other file has is unpacked. *)
LEMMA UnpackedIs ==
  ASSUME NEW files \in Seq(File), NEW f \in ToSet(files),
         \A g \in ToSet(files) : g.path = f.path => g.data = f.data
  PROVE  f.path \in DOMAIN Unpacked(files) /\ Unpacked(files)[f.path] = f.data
<1> DEFINE L == Len(files)
           S == {i \in 1..L : files[i].path = f.path}
           Wins(i) == /\ i \in DOMAIN files /\ files[i].path = f.path
                      /\ \A j \in DOMAIN files : files[j].path = f.path => j <= i
           last == CHOOSE i : Wins(i)
<1>1. L \in Nat /\ DOMAIN files = 1..L
  OBVIOUS
<1>2. PICK k \in 1..L : f = files[k]
  BY <1>1 DEF ToSet
<1> HIDE DEF L
<1>3. PICK m \in S : \A j \in S : j <= m
  <2>1. S \in SUBSET (1..L) /\ S # {}
    BY <1>2
  <2> HIDE DEF S
  <2> QED
    BY <1>1, <2>1, Latest
<1>4. Wins(m)
  BY <1>1, <1>3
<1>5. Wins(last)
  <2> HIDE DEF Wins
  <2> QED
    BY <1>4
<1>6. Unpacked(files)[f.path] = files[last].data /\ f.path \in DOMAIN Unpacked(files)
  <2>1. f.path \in {files[i].path : i \in DOMAIN files}
    BY <1>1, <1>2
  <2>2. last = CHOOSE i \in DOMAIN files :
                 /\ files[i].path = f.path
                 /\ \A j \in DOMAIN files : files[j].path = f.path => j <= i
    OBVIOUS
  <2> HIDE DEF last
  <2> QED
    BY <2>1, <2>2 DEF Unpacked
<1>7. files[last] \in ToSet(files) /\ files[last].path = f.path
  <2> HIDE DEF last
  <2> QED
    BY <1>5 DEF ToSet
<1> HIDE DEF last
<1> QED
  BY <1>6, <1>7

(* Nothing else is unpacked. *)
LEMMA UnpackedNames ==
  ASSUME NEW files
  PROVE  DOMAIN Unpacked(files) = {f.path : f \in ToSet(files)}
BY DEF Unpacked, ToSet

(* The manifest's new name is no other file's. *)
LEMMA DistinctNames ==
  ASSUME NEW source \in Sources,
         \A i \in DOMAIN source.entries :
           source.entries[i].path = ManifestName => source.manifest = ManifestName,
         NEW i \in DOMAIN source.entries, NEW j \in DOMAIN source.entries,
         Renamed(source, source.entries[i]).path = Renamed(source, source.entries[j]).path
  PROVE  i = j
<1> DEFINE a == source.entries[i]
           b == source.entries[j]
<1>1. /\ a \in File /\ b \in File
      /\ a.path = b.path => i = j
      /\ a.path = ManifestName => source.manifest = ManifestName
      /\ b.path = ManifestName => source.manifest = ManifestName
  BY BundleAssumption
<1>2. Renamed(source, a).path = Renamed(source, b).path
  OBVIOUS
<1> HIDE DEF a, b
<1>3. /\ Renamed(source, a).path = IF a.path = source.manifest THEN ManifestName ELSE a.path
      /\ Renamed(source, b).path = IF b.path = source.manifest THEN ManifestName ELSE b.path
  BY <1>1, RenamedIs
<1> QED
  BY <1>1, <1>2, <1>3

(* What is unpacked from a package is what was packaged: every file that  *)
(* is not generated, under its own name, the manifest under its new one.  *)
THEOREM PackageUnpacks ==
  ASSUME NEW source \in Sources,
         \A i \in DOMAIN source.entries :
           source.entries[i].path = ManifestName => source.manifest = ManifestName
  PROVE  LET u == Unpacked(Collect(source))
             Name(i) == Renamed(source, source.entries[i]).path
         IN  /\ DOMAIN u = {Name(i) : i \in KeptEntries(source)}
             /\ \A i \in KeptEntries(source) : u[Name(i)] = source.entries[i].data
<1> DEFINE files == Collect(source)
           new(i) == Renamed(source, source.entries[i])
<1>1. /\ files \in Seq(File)
      /\ \A f : f \in ToSet(files) <=> \E i \in KeptEntries(source) : f = new(i)
  BY Collected
<1>2. \A i \in KeptEntries(source) : new(i).data = source.entries[i].data
  <2>1. \A i \in KeptEntries(source) : source.entries[i] \in File
    BY BundleAssumption DEF KeptEntries
  <2> QED
    BY <2>1, RenamedIs
<1>3. \A i, j \in KeptEntries(source) : new(i).path = new(j).path => i = j
  BY DistinctNames DEF KeptEntries
<1> HIDE DEF new, files
<1>4. DOMAIN Unpacked(files) = {new(i).path : i \in KeptEntries(source)}
  <2>1. DOMAIN Unpacked(files) = {f.path : f \in ToSet(files)}
    BY UnpackedNames
  <2>2. ASSUME NEW f \in ToSet(files) PROVE \E i \in KeptEntries(source) : f.path = new(i).path
    BY <1>1
  <2>3. ASSUME NEW i \in KeptEntries(source) PROVE \E f \in ToSet(files) : f.path = new(i).path
    <3>1. new(i) \in ToSet(files)
      BY <1>1
    <3> QED
      BY <3>1
  <2> QED
    BY <2>1, <2>2, <2>3
<1>5. ASSUME NEW i \in KeptEntries(source)
      PROVE  Unpacked(files)[new(i).path] = source.entries[i].data
  <2> DEFINE f == new(i)
  <2>1. f \in ToSet(files) /\ f.data = source.entries[i].data
    BY <1>1, <1>2
  <2>2. \A g \in ToSet(files) : g.path = f.path => g.data = f.data
    BY <1>1, <1>3
  <2> HIDE DEF f
  <2>3. Unpacked(files)[f.path] = f.data
    BY <1>1, <2>1, <2>2, UnpackedIs
  <2> QED
    BY <2>1, <2>3 DEF f
<1> QED
  BY <1>4, <1>5 DEF new, files
=============================================================================
