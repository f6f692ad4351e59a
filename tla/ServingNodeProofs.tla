-------------------------- MODULE ServingNodeProofs --------------------------
(***************************************************************************)
(* What ServingNode promises, for all lists of engines, weights and        *)
(* answers: the cache lists known engines, a query is billed at a weight   *)
(* of the engine that served it, and what is answered is every whole line  *)
(* of what that engine sent, with nothing replaced but the characters that *)
(* a chunk cut.  The bill is the token count of each content, and a cut    *)
(* never adds to it.                                                       *)
(*                                                                         *)
(* The reference for the text is a reader that takes one byte at a time,   *)
(* a recursive function; that there is such a function, and what it has    *)
(* read of a piece of a body, is shown by induction over the bytes.        *)
(***************************************************************************)
EXTENDS ServingNode, FiniteSetTheorems, SequenceTheorems, NaturalsInduction, WellFoundedInduction, TLAPS

\* Every number is in G if 0 is, and G is closed under successors.  G is a set, not
\* a predicate: the provers can take a set as the instance of a lemma.
LEMMA NatInductionOnSet ==
    ASSUME NEW G, 0 \in G, \A n \in Nat : n \in G => n + 1 \in G
    PROVE  Nat \subseteq G
  <1> DEFINE bad == {n \in Nat : n \notin G}
             less == {ss \in Nat \X Nat : ss[1] < ss[2]}
  <1>1. SUFFICES ASSUME bad # {} PROVE FALSE
    OBVIOUS
  <1>2. IsWellFoundedOn(less, Nat)
    BY NatLessThanWellFounded DEF OpToRel
  <1>3. PICK n \in bad : \A m \in bad : ~(<<m, n>> \in less)
    <2>1. bad \subseteq Nat
      OBVIOUS
    <2> HIDE DEF bad, less
    <2> QED BY <1>1, <1>2, <2>1, WFMin
  <1>4. n \in Nat \ {0} /\ n - 1 \in Nat
    OBVIOUS
  <1>5. <<n - 1, n>> \in less
    BY <1>4
  <1>6. n - 1 \in G
    <2> HIDE DEF less
    <2> QED BY <1>3, <1>4, <1>5
  <1> QED BY <1>4, <1>6

\* A set of numbers that is not empty has a smallest one.
LEMMA Smallest ==
    ASSUME NEW S, S \subseteq Nat, S # {}
    PROVE  \E m \in S : \A y \in S : m =< y
  <1> DEFINE less == {ss \in Nat \X Nat : ss[1] < ss[2]}
  <1>1. IsWellFoundedOn(less, Nat)
    BY NatLessThanWellFounded DEF OpToRel
  <1>2. PICK m \in S : \A y \in S : ~(<<y, m>> \in less)
    <2> HIDE DEF less
    <2> QED BY <1>1, WFMin
  <1>3. ASSUME NEW y \in S PROVE m =< y
    <2>1. y < m => <<y, m>> \in less
      OBVIOUS
    <2> HIDE DEF less
    <2> QED BY <1>2, <2>1
  <1> QED BY <1>3

\* step leads h from v0 through 1, 2 ... N.
Recurses(h, N, V, v0, step) ==
    h \in [0..N -> V] /\ h[0] = v0 /\ \A k \in 1..N : h[k] = step[<<k, h[k - 1]>>]

\* There is such a function.
LEMMA Recursion ==
    ASSUME NEW N \in Nat, NEW V, NEW v0 \in V, NEW step \in [(1..N) \X V -> V]
    PROVE  \E h : Recurses(h, N, V, v0, step)
  <1> DEFINE G == {n \in Nat : n =< N =>
                      \E h \in [0..n -> V] : h[0] = v0 /\ \A k \in 1..n : h[k] = step[<<k, h[k - 1]>>]}
  <1>1. 0 \in G
    <2>1. PICK h : h = [k \in 0..0 |-> v0]
      OBVIOUS
    <2>2. h \in [0..0 -> V] /\ h[0] = v0 /\ 1..0 = {}
      BY <2>1
    <2> QED BY <2>2
  <1>2. ASSUME NEW n \in Nat, n \in G PROVE n + 1 \in G
    <2> SUFFICES ASSUME n + 1 =< N
                 PROVE  \E h \in [0..(n + 1) -> V] :
                           h[0] = v0 /\ \A k \in 1..(n + 1) : h[k] = step[<<k, h[k - 1]>>]
      OBVIOUS
    <2>1. PICK h \in [0..n -> V] : h[0] = v0 /\ \A k \in 1..n : h[k] = step[<<k, h[k - 1]>>]
      BY <1>2
    <2>2. PICK v \in V : v = step[<<n + 1, h[n]>>]
      BY <2>1
    <2> DEFINE g == [k \in 0..(n + 1) |-> IF k =< n THEN h[k] ELSE v]
    <2>3. g \in [0..(n + 1) -> V] /\ g[0] = v0
      BY <2>1
    <2>4. ASSUME NEW k \in 1..(n + 1) PROVE g[k] = step[<<k, g[k - 1]>>]
      <3>1. k - 1 \in 0..n /\ g[k - 1] = h[k - 1]
        OBVIOUS
      <3>2. CASE k =< n
        BY <2>1, <3>1, <3>2
      <3>3. CASE k = n + 1
        <4>1. g[k] = v /\ k - 1 = n
          BY <3>3
        <4> QED BY <2>2, <3>1, <3>3, <4>1
      <3> QED BY <3>2, <3>3
    <2> QED BY <2>3, <2>4
  <1>3. Nat \subseteq G
    <2> HIDE DEF G
    <2> QED BY <1>1, <1>2, NatInductionOnSet
  <1> QED BY <1>3 DEF Recurses

-----------------------------------------------------------------------------
(* The byte reader.                                                        *)

Lines  == Seq(Text)
Reader == [line : Lines, found : Seq(Lines)]

IsRead(g, body) ==
    g = [i \in 0..Len(body) |->
            IF i = 0 THEN [line |-> << >>, found |-> << >>] ELSE ReadByte(g[i - 1], body[i])]

\* A content of a line is a piece of it.
LEMMA ContentType == ASSUME NEW line \in Lines PROVE Content(line) \in Lines
  BY DEF Content, Lines

\* A byte leads the reader to a reader.
LEMMA ReadByteType ==
    ASSUME NEW was \in Reader, NEW c \in Text
    PROVE  ReadByte(was, c) \in Reader
  <1>1. was.line \in Lines /\ was.found \in Seq(Lines) /\ << >> \in Lines
    BY DEF Reader, Lines
  <1>2. CASE c # "nl"
    <2>1. Append(was.line, c) \in Lines
      BY <1>1 DEF Lines
    <2> QED BY <1>1, <1>2, <2>1 DEF ReadByte, Reader
  <1>3. CASE c = "nl"
    <2>1. Append(was.found, Content(was.line)) \in Seq(Lines)
      BY <1>1, ContentType
    <2> QED BY <1>1, <1>3, <2>1 DEF ReadByte, Reader
  <1> QED BY <1>2, <1>3

\* The reader is what its recursion says.
LEMMA ReadDef ==
    ASSUME NEW body \in Seq(Text)
    PROVE  /\ Read(body)[0] = [line |-> << >>, found |-> << >>]
           /\ \A i \in 1..Len(body) : Read(body)[i] = ReadByte(Read(body)[i - 1], body[i])
           /\ \A i \in 0..Len(body) : Read(body)[i] \in Reader
  <1> DEFINE v0 == [line |-> << >>, found |-> << >>]
             step == [kv \in (1..Len(body)) \X Reader |-> ReadByte(kv[2], body[kv[1]])]
  <1>0. Len(body) \in Nat /\ \A i \in 1..Len(body) : body[i] \in Text
    OBVIOUS
  <1>1. v0 \in Reader
    BY DEF Reader, Lines
  <1>2. step \in [(1..Len(body)) \X Reader -> Reader]
    BY <1>0, ReadByteType
  <1>3. PICK h \in [0..Len(body) -> Reader] :
            h[0] = v0 /\ \A k \in 1..Len(body) : h[k] = step[<<k, h[k - 1]>>]
    <2> HIDE DEF v0, step
    <2>1. \E h : Recurses(h, Len(body), Reader, v0, step)
      BY <1>0, <1>1, <1>2, Recursion
    <2> QED BY <2>1 DEF Recurses
  <1>4. ASSUME NEW k \in 1..Len(body) PROVE h[k] = ReadByte(h[k - 1], body[k])
    <2>1. PICK was \in Reader : was = h[k - 1]
      BY <1>0, <1>3
    <2>2. step[<<k, was>>] = ReadByte(was, body[k])
      OBVIOUS
    <2> QED BY <1>3, <2>1, <2>2
  <1>5. IsRead(h, body)
    <2> DEFINE f == [i \in 0..Len(body) |->
                        IF i = 0 THEN [line |-> << >>, found |-> << >>]
                        ELSE ReadByte(h[i - 1], body[i])]
    <2>1. ASSUME NEW i \in 0..Len(body) PROVE h[i] = f[i]
      <3>1. i = 0 \/ i \in 1..Len(body)
        BY <1>0
      <3> QED BY <1>3, <1>4, <3>1
    <2>2. h = f
      BY <2>1
    <2> QED BY <2>2 DEF IsRead
  <1>6. PICK g : g = Read(body) /\ IsRead(g, body)
    <2>1. Read(body) = CHOOSE g : IsRead(g, body)
      BY DEF Read, IsRead
    <2> QED BY <1>5, <2>1
  <1>7. g[0] = v0 /\ \A i \in 1..Len(body) : g[i] = ReadByte(g[i - 1], body[i])
    BY <1>0, <1>6 DEF IsRead
  <1> DEFINE G == {i \in Nat : i =< Len(body) => g[i] \in Reader}
  <1>8. 0 \in G /\ \A i \in Nat : i \in G => i + 1 \in G
    <2>1. 0 \in G
      BY <1>1, <1>7
    <2>2. ASSUME NEW i \in Nat, i \in G, i + 1 =< Len(body) PROVE g[i + 1] \in Reader
      <3>1. g[i] \in Reader /\ i + 1 \in 1..Len(body) /\ (i + 1) - 1 = i /\ body[i + 1] \in Text
        BY <1>0, <2>2
      <3>2. g[i + 1] = ReadByte(g[i], body[i + 1])
        BY <1>7, <3>1
      <3> QED BY <3>1, <3>2, ReadByteType
    <2> QED BY <2>1, <2>2
  <1>9. Nat \subseteq G
    <2> HIDE DEF G
    <2> QED BY <1>8, NatInductionOnSet
  <1> QED BY <1>6, <1>7, <1>9

\* One byte more.
LEMMA ReadNext ==
    ASSUME NEW body \in Seq(Text), NEW i \in Nat, i < Len(body)
    PROVE  /\ Read(body)[i] \in Reader /\ Read(body)[i + 1] \in Reader
           /\ body[i + 1] \in Text
           /\ body[i + 1] # "nl" => /\ Read(body)[i + 1].found = Read(body)[i].found
                                    /\ Read(body)[i + 1].line = Append(Read(body)[i].line, body[i + 1])
           /\ body[i + 1] = "nl" =>
                /\ Read(body)[i + 1].line = << >>
                /\ Read(body)[i + 1].found = IF Content(Read(body)[i].line) \in {<< >>, <<"done">>}
                                             THEN Read(body)[i].found
                                             ELSE Append(Read(body)[i].found, Content(Read(body)[i].line))
  <1>1. PICK r : r = Read(body)
    OBVIOUS
  <1>2. Len(body) \in Nat /\ i \in 0..Len(body) /\ i + 1 \in 1..Len(body) /\ i + 1 \in 0..Len(body)
    OBVIOUS
  <1>3. body[i + 1] \in Text
    BY <1>2
  <1>4. PICK was \in Reader : was = r[i]
    BY <1>1, <1>2, ReadDef
  <1>5. r[i + 1] \in Reader /\ r[i + 1] = ReadByte(was, body[i + 1])
    <2>1. r[i + 1] = ReadByte(r[(i + 1) - 1], body[i + 1]) /\ r[i + 1] \in Reader
      BY <1>1, <1>2, ReadDef
    <2>2. (i + 1) - 1 = i
      OBVIOUS
    <2> QED BY <1>4, <2>1, <2>2
  <1>6. was = [line |-> was.line, found |-> was.found]
    BY <1>4 DEF Reader
  <1>7. CASE body[i + 1] # "nl"
    <2>1. r[i + 1] = [line |-> Append(was.line, body[i + 1]), found |-> was.found]
      BY <1>5, <1>6, <1>7 DEF ReadByte
    <2> QED BY <1>1, <1>3, <1>4, <1>5, <1>7, <2>1
  <1>8. CASE body[i + 1] = "nl"
    <2>1. PICK f : f = IF Content(was.line) \in {<< >>, <<"done">>} THEN was.found
                       ELSE Append(was.found, Content(was.line))
      OBVIOUS
    <2>2. r[i + 1] = [line |-> << >>, found |-> f]
      BY <1>5, <1>8, <2>1 DEF ReadByte
    <2>3. r[i + 1].line = << >> /\ r[i + 1].found = f
      BY <2>2
    <2> QED BY <1>1, <1>3, <1>4, <1>5, <1>8, <2>1, <2>3, Zenon
  <1> QED BY <1>7, <1>8

\* From the end of a line on, while there is no newline, the reader gathers a line.
LEMMA ReadLine ==
    ASSUME NEW body \in Seq(Text), NEW d \in Nat, Read(body)[d].line = << >>,
           NEW n \in Nat, d + n =< Len(body), \A k \in 1..n : body[d + k] # "nl"
    PROVE  /\ Read(body)[d + n].found = Read(body)[d].found
           /\ Read(body)[d + n].line \in Lines
           /\ Len(Read(body)[d + n].line) = n
           /\ \A k \in 1..n : Read(body)[d + n].line[k] = body[d + k]
  <1>1. PICK r : r = Read(body)
    OBVIOUS
  <1> DEFINE G == {j \in Nat : j =< n =>
                      /\ r[d + j].found = r[d].found
                      /\ r[d + j].line \in Lines
                      /\ Len(r[d + j].line) = j
                      /\ \A k \in 1..j : r[d + j].line[k] = body[d + k]}
  <1>2. 0 \in G
    <2>1. d + 0 = d /\ << >> \in Lines /\ Len(<< >>) = 0 /\ 1..0 = {}
      BY DEF Lines
    <2>2. r[d + 0].line = << >>
      BY <1>1, <2>1
    <2> QED BY <2>1, <2>2
  <1>3. ASSUME NEW j \in Nat, j \in G PROVE j + 1 \in G
    <2> SUFFICES ASSUME j + 1 =< n
                 PROVE  /\ r[d + (j + 1)].found = r[d].found
                        /\ r[d + (j + 1)].line \in Lines
                        /\ Len(r[d + (j + 1)].line) = j + 1
                        /\ \A k \in 1..(j + 1) : r[d + (j + 1)].line[k] = body[d + k]
      OBVIOUS
    <2>1. PICK i \in Nat : i = d + j /\ d + (j + 1) = i + 1 /\ i < Len(body)
      OBVIOUS
    <2>2. PICK c : c = body[i + 1] /\ c # "nl"
      <3>1. j + 1 \in 1..n /\ d + (j + 1) = i + 1
        BY <2>1
      <3> QED BY <3>1
    <2>3. c \in Text /\ r[i + 1].found = r[i].found /\ r[i + 1].line = Append(r[i].line, c)
      BY <1>1, <2>1, <2>2, ReadNext
    <2>4. PICK line \in Lines : /\ line = r[i].line /\ Len(line) = j
                                /\ \A k \in 1..j : line[k] = body[d + k]
      BY <1>3, <2>1
    <2>5. /\ Append(line, c) \in Lines /\ Len(Append(line, c)) = j + 1
          /\ \A k \in 1..j : Append(line, c)[k] = line[k]
          /\ Append(line, c)[j + 1] = c
      <3>1. PICK len : len = Len(line) /\ len = j
        BY <2>4
      <3>2. /\ Append(line, c) \in Seq(Text) /\ Len(Append(line, c)) = len + 1
            /\ \A k \in 1..len : Append(line, c)[k] = line[k]
            /\ Append(line, c)[len + 1] = c
        <4>1. line \in Seq(Text) /\ c \in Text
          BY <2>3, <2>4 DEF Lines
        <4>2. /\ Append(line, c) \in Seq(Text) /\ Len(Append(line, c)) = Len(line) + 1
              /\ \A k \in 1..Len(line) : Append(line, c)[k] = line[k]
              /\ Append(line, c)[Len(line) + 1] = c
          BY <4>1, AppendProperties
        <4> QED BY <3>1, <4>2
      <3> QED BY <3>1, <3>2 DEF Lines
    <2>6. r[i].found = r[d].found
      BY <1>3, <2>1
    <2>7. r[d + (j + 1)].line = Append(line, c) /\ r[d + (j + 1)].found = r[d].found
      BY <2>1, <2>3, <2>4, <2>6
    <2>8. ASSUME NEW k \in 1..(j + 1) PROVE Append(line, c)[k] = body[d + k]
      <3>1. CASE k # j + 1
        <4>1. k \in 1..j
          BY <3>1
        <4> QED BY <2>4, <2>5, <4>1
      <3>2. CASE k = j + 1
        BY <2>1, <2>2, <2>5, <3>2
      <3> QED BY <3>1, <3>2
    <2> QED BY <2>5, <2>7, <2>8
  <1>4. Nat \subseteq G
    <2> HIDE DEF G
    <2> QED BY <1>2, <1>3, NatInductionOnSet
  <1>5. /\ r[d + n].found = r[d].found /\ r[d + n].line \in Lines /\ Len(r[d + n].line) = n
        /\ \A k \in 1..n : r[d + n].line[k] = body[d + k]
    <2>1. n \in G
      <3> HIDE DEF G
      <3> QED BY <1>4
    <2> QED BY <2>1
  <1> QED BY <1>1, <1>5

\* Blank lines bring nothing.
LEMMA ReadBlank ==
    ASSUME NEW body \in Seq(Text), NEW d \in Nat, Read(body)[d].line = << >>,
           NEW n \in Nat, d + n =< Len(body), \A k \in 1..n : body[d + k] = "nl"
    PROVE  Read(body)[d + n].found = Read(body)[d].found /\ Read(body)[d + n].line = << >>
  <1>1. PICK r : r = Read(body)
    OBVIOUS
  <1> DEFINE G == {j \in Nat : j =< n => r[d + j].found = r[d].found /\ r[d + j].line = << >>}
  <1>2. 0 \in G
    BY <1>1
  <1>3. ASSUME NEW j \in Nat, j \in G PROVE j + 1 \in G
    <2> SUFFICES ASSUME j + 1 =< n
                 PROVE  r[d + (j + 1)].found = r[d].found /\ r[d + (j + 1)].line = << >>
      OBVIOUS
    <2>1. PICK i \in Nat : i = d + j /\ d + (j + 1) = i + 1 /\ i < Len(body)
      OBVIOUS
    <2>2. body[i + 1] = "nl"
      <3>1. j + 1 \in 1..n /\ d + (j + 1) = i + 1
        BY <2>1
      <3> QED BY <3>1
    <2>3. r[i].found = r[d].found /\ r[i].line = << >>
      BY <1>3, <2>1
    <2>4. Content(<< >>) = << >>
      BY DEF Content
    <2>5. r[i + 1].line = << >> /\ r[i + 1].found = r[i].found
      <3>1. /\ r[i + 1].line = << >>
            /\ r[i + 1].found = IF Content(r[i].line) \in {<< >>, <<"done">>} THEN r[i].found
                                ELSE Append(r[i].found, Content(r[i].line))
        BY <1>1, <2>1, <2>2, ReadNext
      <3>2. Content(r[i].line) = << >>
        BY <2>3, <2>4
      <3> QED BY <3>1, <3>2
    <2> QED BY <2>1, <2>3, <2>5
  <1>4. Nat \subseteq G
    <2> HIDE DEF G
    <2> QED BY <1>2, <1>3, NatInductionOnSet
  <1> QED BY <1>1, <1>4

\* What has been found stays found.
LEMMA FoundGrows ==
    ASSUME NEW body \in Seq(Text), NEW d \in Nat, NEW n \in Nat, d + n =< Len(body)
    PROVE  /\ Read(body)[d].found \in Seq(Lines) /\ Read(body)[d + n].found \in Seq(Lines)
           /\ Len(Read(body)[d].found) =< Len(Read(body)[d + n].found)
           /\ \A k \in 1..Len(Read(body)[d].found) :
                 Read(body)[d + n].found[k] = Read(body)[d].found[k]
  <1>1. PICK r : r = Read(body)
    OBVIOUS
  <1>2. PICK f \in Seq(Lines) : f = r[d].found
    <2>1. r[d] \in Reader
      BY <1>1, ReadDef
    <2> QED BY <2>1 DEF Reader
  <1> DEFINE G == {j \in Nat : j =< n => /\ r[d + j].found \in Seq(Lines)
                                         /\ Len(f) =< Len(r[d + j].found)
                                         /\ \A k \in 1..Len(f) : r[d + j].found[k] = f[k]}
  <1>3. 0 \in G
    BY <1>2
  <1>4. ASSUME NEW j \in Nat, j \in G PROVE j + 1 \in G
    <2> SUFFICES ASSUME j + 1 =< n
                 PROVE  /\ r[d + (j + 1)].found \in Seq(Lines)
                        /\ Len(f) =< Len(r[d + (j + 1)].found)
                        /\ \A k \in 1..Len(f) : r[d + (j + 1)].found[k] = f[k]
      OBVIOUS
    <2>1. PICK i \in Nat : i = d + j /\ d + (j + 1) = i + 1 /\ i < Len(body)
      OBVIOUS
    <2>2. PICK g \in Seq(Lines) : g = r[i].found /\ Len(f) =< Len(g) /\ \A k \in 1..Len(f) : g[k] = f[k]
      BY <1>4, <2>1
    <2>3. r[i + 1].found = g \/ \E c \in Lines : r[i + 1].found = Append(g, c)
      <3>1. r[i] \in Reader /\ Content(r[i].line) \in Lines
        <4>1. r[i] \in Reader
          BY <1>1, <2>1, ReadNext
        <4> QED BY <4>1, ContentType DEF Reader
      <3> QED BY <1>1, <2>1, <2>2, <3>1, ReadNext
    <2>4. CASE r[i + 1].found = g
      BY <2>1, <2>2, <2>4
    <2>5. ASSUME NEW c \in Lines, r[i + 1].found = Append(g, c)
          PROVE  /\ r[i + 1].found \in Seq(Lines)
                 /\ Len(f) =< Len(r[i + 1].found)
                 /\ \A k \in 1..Len(f) : r[i + 1].found[k] = f[k]
      <3>1. /\ Append(g, c) \in Seq(Lines) /\ Len(Append(g, c)) = Len(g) + 1
            /\ \A k \in 1..Len(g) : Append(g, c)[k] = g[k]
        OBVIOUS
      <3>2. Len(f) \in Nat /\ Len(g) \in Nat
        OBVIOUS
      <3> QED BY <2>2, <2>5, <3>1, <3>2
    <2> QED BY <2>1, <2>3, <2>4, <2>5
  <1>5. Nat \subseteq G
    <2> HIDE DEF G
    <2> QED BY <1>3, <1>4, NatInductionOnSet
  <1>6. n \in G
    BY <1>5
  <1> QED BY <1>1, <1>2, <1>6

\* A reader has read the same of two sequences as far as they are the same.
LEMMA ReadPrefix ==
    ASSUME NEW s \in Seq(Text), NEW t \in Seq(Text), NEW n \in Nat, n =< Len(s), n =< Len(t),
           \A i \in 1..n : s[i] = t[i]
    PROVE  \A i \in 0..n : Read(s)[i] = Read(t)[i]
  <1>1. PICK r, u : r = Read(s) /\ u = Read(t)
    OBVIOUS
  <1> DEFINE G == {i \in Nat : i =< n => r[i] = u[i]}
  <1>2. 0 \in G
    BY <1>1, ReadDef
  <1>3. ASSUME NEW i \in Nat, i \in G PROVE i + 1 \in G
    <2> SUFFICES ASSUME i + 1 =< n PROVE r[i + 1] = u[i + 1]
      OBVIOUS
    <2>1. i + 1 \in 1..n /\ i + 1 \in 1..Len(s) /\ i + 1 \in 1..Len(t) /\ (i + 1) - 1 = i
      OBVIOUS
    <2>2. s[i + 1] = t[i + 1] /\ r[i] = u[i]
      BY <1>3, <2>1
    <2>3. r[i + 1] = ReadByte(r[i], s[i + 1]) /\ u[i + 1] = ReadByte(u[i], t[i + 1])
      <3>1. r[i + 1] = ReadByte(r[(i + 1) - 1], s[i + 1])
        BY <1>1, <2>1, ReadDef
      <3>2. u[i + 1] = ReadByte(u[(i + 1) - 1], t[i + 1])
        BY <1>1, <2>1, ReadDef
      <3> QED BY <2>1, <3>1, <3>2
    <2> QED BY <2>2, <2>3
  <1>4. Nat \subseteq G
    <2> HIDE DEF G
    <2> QED BY <1>2, <1>3, NatInductionOnSet
  <1> QED BY <1>1, <1>4

-----------------------------------------------------------------------------
(* The bill.                                                               *)

\* The count of a text is a number, and a content has one.
LEMMA CountType ==
    ASSUME NEW text \in Seq(Text)
    PROVE  /\ IsFiniteSet(Counted(text)) /\ IsFiniteSet(TrailingPunct(text))
           /\ estimate_token_count(text) \in Nat
  <1>1. IsFiniteSet(DOMAIN text)
    <2>1. DOMAIN text = 1..Len(text) /\ Len(text) \in Nat
      OBVIOUS
    <2> QED BY <2>1, FS_Interval
  <1>2. Counted(text) \subseteq DOMAIN text /\ TrailingPunct(text) \subseteq DOMAIN text
    BY DEF Counted, TrailingPunct
  <1>3. IsFiniteSet(Counted(text)) /\ IsFiniteSet(TrailingPunct(text))
    BY <1>1, <1>2, FS_Subset
  <1>4. Cardinality(Counted(text)) \in Nat /\ Cardinality(TrailingPunct(text)) \in Nat
    BY <1>3, FS_CardinalityType
  <1> QED BY <1>3, <1>4 DEF estimate_token_count

IsBill(bill, contents) ==
    bill = [k \in 0..Len(contents) |->
               IF k = 0 THEN 0 ELSE bill[k - 1] + estimate_token_count(contents[k])]

\* The bill is what its recursion says.
LEMMA BillDef ==
    ASSUME NEW contents \in Seq(Lines)
    PROVE  \E bill \in [0..Len(contents) -> Nat] :
              /\ bill[0] = 0
              /\ \A k \in 1..Len(contents) : bill[k] = bill[k - 1] + estimate_token_count(contents[k])
              /\ Bill(contents) = bill[Len(contents)]
  <1> DEFINE step == [kv \in (1..Len(contents)) \X Nat |-> kv[2] + estimate_token_count(contents[kv[1]])]
  <1>0. Len(contents) \in Nat
    OBVIOUS
  <1>1. \A k \in 1..Len(contents) : estimate_token_count(contents[k]) \in Nat
    <2>1. \A k \in 1..Len(contents) : contents[k] \in Seq(Text)
      BY DEF Lines
    <2> QED BY <2>1, CountType
  <1>2. step \in [(1..Len(contents)) \X Nat -> Nat]
    BY <1>1
  <1>3. PICK h \in [0..Len(contents) -> Nat] :
            h[0] = 0 /\ \A k \in 1..Len(contents) : h[k] = step[<<k, h[k - 1]>>]
    <2> HIDE DEF step
    <2>1. \E h : Recurses(h, Len(contents), Nat, 0, step)
      BY <1>0, <1>2, Recursion
    <2> QED BY <2>1 DEF Recurses
  <1>4. ASSUME NEW k \in 1..Len(contents) PROVE h[k] = h[k - 1] + estimate_token_count(contents[k])
    <2>1. PICK was \in Nat : was = h[k - 1]
      BY <1>0, <1>3
    <2>2. step[<<k, was>>] = was + estimate_token_count(contents[k])
      OBVIOUS
    <2> QED BY <1>3, <2>1, <2>2
  <1>5. IsBill(h, contents)
    <2> DEFINE f == [k \in 0..Len(contents) |->
                        IF k = 0 THEN 0 ELSE h[k - 1] + estimate_token_count(contents[k])]
    <2>1. ASSUME NEW k \in 0..Len(contents) PROVE h[k] = f[k]
      <3>1. k = 0 \/ k \in 1..Len(contents)
        BY <1>0
      <3> QED BY <1>3, <1>4, <3>1
    <2>2. h = f
      BY <1>3, <2>1
    <2> QED BY <2>2 DEF IsBill
  <1>6. PICK g : g = (CHOOSE bill : IsBill(bill, contents)) /\ IsBill(g, contents)
    BY <1>5
  <1>7. Bill(contents) = g[Len(contents)]
    BY <1>6 DEF Bill, IsBill
  <1>8. g[0] = 0 /\ \A k \in 1..Len(contents) : g[k] = g[k - 1] + estimate_token_count(contents[k])
    <2>1. PICK n \in Nat : n = Len(contents)
      BY <1>0
    <2>2. g = [k \in 0..n |-> IF k = 0 THEN 0 ELSE g[k - 1] + estimate_token_count(contents[k])]
      BY <1>6, <2>1 DEF IsBill
    <2>3. 0 \in 0..n /\ \A k \in 1..n : k \in 0..n /\ k # 0
      OBVIOUS
    <2>4. g[0] = 0
      BY <2>2, <2>3
    <2>5. ASSUME NEW k \in 1..n PROVE g[k] = g[k - 1] + estimate_token_count(contents[k])
      BY <2>2, <2>3
    <2> QED BY <2>1, <2>4, <2>5
  <1> DEFINE G == {k \in Nat : k =< Len(contents) => g[k] \in Nat}
  <1>9. 0 \in G
    BY <1>8
  <1>10. ASSUME NEW k \in Nat, k \in G PROVE k + 1 \in G
    <2> SUFFICES ASSUME k + 1 =< Len(contents) PROVE g[k + 1] \in Nat
      OBVIOUS
    <2>1. k + 1 \in 1..Len(contents) /\ (k + 1) - 1 = k /\ g[k] \in Nat
      BY <1>0, <1>10
    <2>2. g[k + 1] = g[(k + 1) - 1] + estimate_token_count(contents[k + 1])
      BY <1>8, <2>1
    <2> QED BY <1>1, <2>1, <2>2
  <1>11. Nat \subseteq G
    <2> HIDE DEF G
    <2> QED BY <1>9, <1>10, NatInductionOnSet
  <1>12. g \in [0..Len(contents) -> Nat]
    <2>1. g = [k \in 0..Len(contents) |-> g[k]]
      <3>1. g = [k \in 0..Len(contents) |->
                    IF k = 0 THEN 0 ELSE g[k - 1] + estimate_token_count(contents[k])]
        BY <1>6 DEF IsBill
      <3>2. PICK F : F = [k \in 0..Len(contents) |->
                    IF k = 0 THEN 0 ELSE g[k - 1] + estimate_token_count(contents[k])]
        OBVIOUS
      <3>3. F = [k \in 0..Len(contents) |-> F[k]]
        BY <3>2
      <3> QED BY <3>1, <3>2, <3>3
    <2>2. \A k \in 0..Len(contents) : g[k] \in Nat
      BY <1>0, <1>11
    <2> QED BY <2>1, <2>2
  <1> QED BY <1>7, <1>8, <1>12

\* One content more.
LEMMA BillAppend ==
    ASSUME NEW contents \in Seq(Lines), NEW content \in Lines
    PROVE  /\ Bill(Append(contents, content)) = Bill(contents) + estimate_token_count(content)
           /\ Bill(contents) \in Nat
  <1>1. PICK n \in Nat : n = Len(contents)
    OBVIOUS
  <1>2. PICK all \in Seq(Lines) : /\ all = Append(contents, content) /\ Len(all) = n + 1
                                  /\ all[n + 1] = content /\ \A k \in 1..n : all[k] = contents[k]
    <2>1. /\ Append(contents, content) \in Seq(Lines)
          /\ Len(Append(contents, content)) = Len(contents) + 1
          /\ Append(contents, content)[Len(contents) + 1] = content
          /\ \A k \in 1..Len(contents) : Append(contents, content)[k] = contents[k]
      BY AppendProperties
    <2> QED BY <1>1, <2>1
  <1>3. PICK b \in [0..n -> Nat] :
              /\ b[0] = 0
              /\ \A k \in 1..n : b[k] = b[k - 1] + estimate_token_count(contents[k])
              /\ Bill(contents) = b[n]
    BY <1>1, BillDef
  <1>4. PICK c \in [0..(n + 1) -> Nat] :
              /\ c[0] = 0
              /\ \A k \in 1..(n + 1) : c[k] = c[k - 1] + estimate_token_count(all[k])
              /\ Bill(all) = c[n + 1]
    BY <1>2, BillDef
  <1> DEFINE G == {k \in Nat : k =< n => b[k] = c[k]}
  <1>5. 0 \in G
    BY <1>3, <1>4
  <1>6. ASSUME NEW k \in Nat, k \in G PROVE k + 1 \in G
    <2> SUFFICES ASSUME k + 1 =< n PROVE b[k + 1] = c[k + 1]
      OBVIOUS
    <2>1. k + 1 \in 1..n /\ k + 1 \in 1..(n + 1) /\ (k + 1) - 1 = k /\ b[k] = c[k]
      BY <1>6
    <2>2. b[k + 1] = b[k] + estimate_token_count(contents[k + 1])
      BY <1>3, <2>1
    <2>3. c[k + 1] = c[k] + estimate_token_count(all[k + 1])
      BY <1>4, <2>1
    <2>4. all[k + 1] = contents[k + 1]
      BY <1>2, <2>1
    <2> QED BY <2>1, <2>2, <2>3, <2>4
  <1>7. Nat \subseteq G
    <2> HIDE DEF G
    <2> QED BY <1>5, <1>6, NatInductionOnSet
  <1>8. b[n] = c[n]
    BY <1>7
  <1>9. c[n + 1] = c[n] + estimate_token_count(content)
    <2>1. n + 1 \in 1..(n + 1) /\ (n + 1) - 1 = n
      OBVIOUS
    <2>2. c[n + 1] = c[n] + estimate_token_count(all[n + 1])
      BY <1>4, <2>1
    <2> QED BY <1>2, <2>2
  <1>10. b[n] \in Nat
    BY <1>3
  <1> QED BY <1>2, <1>3, <1>4, <1>8, <1>9, <1>10

\* Nothing is billed for nothing.
LEMMA BillNothing == Bill(<< >>) = 0
  <1>1. << >> \in Seq(Lines) /\ Len(<< >>) = 0
    OBVIOUS
  <1>2. PICK b : b[0] = 0 /\ Bill(<< >>) = b[Len(<< >>)]
    BY <1>1, BillDef
  <1> QED BY <1>1, <1>2

\* A list of contents is billed no more than one that counts as much in each place.
LEMMA BillAtMost ==
    ASSUME NEW few \in Seq(Lines), NEW many \in Seq(Lines), Len(few) = Len(many),
           \A k \in 1..Len(few) : estimate_token_count(few[k]) =< estimate_token_count(many[k])
    PROVE  Bill(few) =< Bill(many)
  <1>1. PICK n \in Nat : n = Len(few) /\ n = Len(many)
    OBVIOUS
  <1>2. PICK b \in [0..n -> Nat] :
              /\ b[0] = 0
              /\ \A k \in 1..n : b[k] = b[k - 1] + estimate_token_count(few[k])
              /\ Bill(few) = b[n]
    BY <1>1, BillDef
  <1>3. PICK c \in [0..n -> Nat] :
              /\ c[0] = 0
              /\ \A k \in 1..n : c[k] = c[k - 1] + estimate_token_count(many[k])
              /\ Bill(many) = c[n]
    BY <1>1, BillDef
  <1>4. \A k \in 1..n : estimate_token_count(few[k]) \in Nat /\ estimate_token_count(many[k]) \in Nat
    <2>1. \A k \in 1..n : few[k] \in Seq(Text) /\ many[k] \in Seq(Text)
      BY <1>1 DEF Lines
    <2> QED BY <2>1, CountType
  <1> DEFINE G == {k \in Nat : k =< n => b[k] =< c[k]}
  <1>5. 0 \in G
    BY <1>2, <1>3
  <1>6. ASSUME NEW k \in Nat, k \in G PROVE k + 1 \in G
    <2> SUFFICES ASSUME k + 1 =< n PROVE b[k + 1] =< c[k + 1]
      OBVIOUS
    <2>1. k + 1 \in 1..n /\ (k + 1) - 1 = k /\ b[k] =< c[k] /\ b[k] \in Nat /\ c[k] \in Nat
      BY <1>2, <1>3, <1>6
    <2>2. b[k + 1] = b[k] + estimate_token_count(few[k + 1])
      BY <1>2, <2>1
    <2>3. c[k + 1] = c[k] + estimate_token_count(many[k + 1])
      BY <1>3, <2>1
    <2>4. PICK x \in Nat, y \in Nat : /\ x = estimate_token_count(few[k + 1])
                                      /\ y = estimate_token_count(many[k + 1]) /\ x =< y
      BY <1>1, <1>4, <2>1
    <2> QED BY <2>1, <2>2, <2>3, <2>4
  <1>7. Nat \subseteq G
    <2> HIDE DEF G
    <2> QED BY <1>5, <1>6, NatInductionOnSet
  <1> QED BY <1>2, <1>3, <1>7

-----------------------------------------------------------------------------
(* The parser.                                                             *)

\* The first line of a buffer, and what leaves the buffer with it.
LEMMA FirstLineEnds ==
    ASSUME NEW buffer \in Seq(Text), "nl" \in ToSet(buffer)
    PROVE  \E m \in 1..Len(buffer) :
              /\ buffer[m] = "nl"
              /\ \A k \in 1..(m - 1) : buffer[k] # "nl"
              /\ FirstLine(buffer) = SubSeq(buffer, 1, m - 1)
  <1> DEFINE I == {i \in 1..Len(buffer) : buffer[i] = "nl"}
  <1>1. I # {} /\ I \subseteq Nat
    BY DEF ToSet
  <1>2. PICK m \in I : \A y \in I : m =< y
    <2> HIDE DEF I
    <2> QED BY <1>1, Smallest
  <1>3. Min(I) \in I /\ \A y \in I : Min(I) =< y
    <2> HIDE DEF I
    <2> QED BY <1>2 DEF Min
  <1>4. Min(I) = m
    <2>1. m \in Nat /\ Min(I) \in Nat /\ m =< Min(I) /\ Min(I) =< m
      <3> HIDE DEF I
      <3> QED BY <1>1, <1>2, <1>3
    <2> QED BY <2>1
  <1>5. SelectInSeq(buffer, LAMBDA c : c = "nl") = m
    <2>1. SelectInSeq(buffer, LAMBDA c : c = "nl") = IF I # {} THEN Min(I) ELSE 0
      BY DEF SelectInSeq
    <2> HIDE DEF I
    <2> QED BY <1>1, <1>4, <2>1
  <1>6. FirstLine(buffer) = SubSeq(buffer, 1, m - 1)
    BY <1>5, Zenon DEF FirstLine
  <1>7. ASSUME NEW k \in 1..(m - 1) PROVE buffer[k] # "nl"
    <2>1. k \in 1..Len(buffer) /\ ~(m =< k)
      OBVIOUS
    <2> QED BY <1>2, <2>1
  <1> QED BY <1>6, <1>7

\* Nothing but blank lines follows [DONE].
DoneEnds(s) == \A i, j \in DOMAIN s : i < j /\ s[i] = "done" => s[j] = "nl"

\* An answer is a sequence of symbols, in which characters are whole.
LEMMA BodyIsSeq ==
    ASSUME NEW body \in Bodies
    PROVE  /\ body \in Seq(Symbols) /\ Len(body) \in Nat /\ DOMAIN body = 1..Len(body)
           /\ \A i \in 1..Len(body) : body[i] = "lo" <=> i # 1 /\ body[i - 1] = "hi"
           /\ DoneEnds(body)
  <1>1. body \in Seq(Symbols)
    BY BodiesAssumption
  <1>2. Len(body) \in Nat /\ DOMAIN body = 1..Len(body)
    BY <1>1, LenProperties
  <1>3. DoneEnds(body)
    BY BodiesAssumption DEF DoneEnds
  <1>4. \A i \in 1..Len(body) : body[i] = "lo" <=> Before(body, i) = "hi"
    BY <1>2, BodiesAssumption
  <1> QED BY <1>1, <1>2, <1>3, <1>4 DEF Before

\* The answer as it is decoded: as long, and the same but for the characters cut.
LEMMA DecodedIs ==
    ASSUME NEW body \in Bodies, NEW split
    PROVE  /\ Decoded(body, split) \in Seq(Text)
           /\ Len(Decoded(body, split)) = Len(body)
           /\ \A i \in 1..Len(body) :
                 Decoded(body, split)[i] = IF i \in split \/ i - 1 \in split THEN "?" ELSE body[i]
  <1>1. PICK n \in Nat : n = Len(body) /\ DOMAIN body = 1..n /\ \A i \in 1..n : body[i] \in Text
    <2>1. body \in Seq(Symbols) /\ Len(body) \in Nat /\ DOMAIN body = 1..Len(body)
      BY BodyIsSeq
    <2>2. \A i \in 1..Len(body) : body[i] \in Symbols
      BY <2>1
    <2>3. Symbols \subseteq Text
      BY DEF Text
    <2> QED BY <2>1, <2>2, <2>3
  <1>2. PICK s : s = Decoded(body, split)
    OBVIOUS
  <1>3. s = [i \in 1..n |-> IF i \in split \/ i - 1 \in split THEN "?" ELSE body[i]]
    BY <1>1, <1>2 DEF Decoded
  <1>4. "?" \in Text
    BY DEF Text
  <1>5. s \in [1..n -> Text]
    BY <1>1, <1>3, <1>4
  <1>6. s \in Seq(Text) /\ Len(s) = n
    BY <1>5
  <1> QED BY <1>1, <1>2, <1>3, <1>6

\* Only characters are cut, so that nothing but blank lines follows [DONE] as before.
LEMMA DecodedEnds ==
    ASSUME NEW body \in Bodies, NEW n \in 0..Len(body), NEW split, IsSplit(body, n, split)
    PROVE  DoneEnds(Decoded(body, split))
  <1>1. PICK l \in Nat : l = Len(body) /\ DOMAIN body = 1..l
    BY BodyIsSeq
  <1>2. PICK s \in Seq(Text) : /\ s = Decoded(body, split) /\ Len(s) = l
                               /\ \A i \in 1..l : s[i] = IF i \in split \/ i - 1 \in split THEN "?" ELSE body[i]
    BY <1>1, DecodedIs
  <1>3. \A i \in split : i \in 1..l /\ body[i] = "hi"
    BY <1>1 DEF IsSplit
  <1> SUFFICES ASSUME NEW i \in 1..l, NEW j \in 1..l, i < j, s[i] = "done" PROVE s[j] = "nl"
    <2>1. DOMAIN s = 1..l
      BY <1>2, LenProperties
    <2> QED BY <1>2, <2>1 DEF DoneEnds
  <1>4. body[i] = "done"
    BY <1>2
  <1>5. body[j] = "nl"
    BY <1>1, <1>4, BodyIsSeq DEF DoneEnds
  <1>6. j \notin split
    BY <1>3, <1>5
  <1>7. j - 1 \notin split
    <2> SUFFICES ASSUME j - 1 \in split PROVE FALSE
      OBVIOUS
    <2>1. body[j - 1] = "hi" /\ j # 1
      BY <1>3
    <2>2. body[j] = "lo"
      BY <1>1, <2>1, BodyIsSeq
    <2> QED BY <1>5, <2>2
  <1> QED BY <1>2, <1>5, <1>6, <1>7

\* Parsed, byte by byte: the text is what is found in the first d symbols of what is
\* seen, where a line ends, and the buffer holds those from there to the last received.
IsParsed(seen, received, buffer, text, d) ==
    /\ seen \in Seq(Text) /\ DoneEnds(seen)
    /\ d \in Nat /\ received = d + Len(buffer) /\ received =< Len(seen)
    /\ buffer \in Seq(Text)
    /\ text \in Seq(Lines)
    /\ Read(seen)[d].line = << >>
    /\ \A k \in 1..Len(buffer) : buffer[k] = seen[d + k]
    /\ text = Read(seen)[d].found

\* A piece of a sequence: what is behind the first d elements, up to the n-th.
LEMMA Piece ==
    ASSUME NEW S, NEW s, NEW d \in Nat, NEW n \in Nat, d =< n, \A i \in 1..n : s[i] \in S
    PROVE  /\ SubSeq(s, d + 1, n) \in Seq(S)
           /\ Len(SubSeq(s, d + 1, n)) = n - d
           /\ \A i \in 1..(n - d) : SubSeq(s, d + 1, n)[i] = s[d + i]
  <1>1. PICK a \in Int : a = d + 1
    OBVIOUS
  <1>2. \A i \in a..n : s[i] \in S
    BY <1>1
  <1>3. /\ SubSeq(s, a, n) \in Seq(S)
        /\ Len(SubSeq(s, a, n)) = IF a =< n THEN n - a + 1 ELSE 0
        /\ \A i \in 1..(n - a + 1) : SubSeq(s, a, n)[i] = s[a + i - 1]
    <2>1. n \in Int
      OBVIOUS
    <2> QED BY <1>2, <2>1, SubSeqProperties
  <1>4. PICK piece : piece = SubSeq(s, a, n)
    OBVIOUS
  <1>5. /\ piece \in Seq(S) /\ Len(piece) = IF a =< n THEN n - a + 1 ELSE 0
        /\ \A i \in 1..(n - a + 1) : piece[i] = s[a + i - 1]
    BY <1>3, <1>4
  <1>6. n - a + 1 = n - d /\ \A i \in 1..(n - d) : a + i - 1 = d + i
    BY <1>1
  <1>7. Len(piece) = n - d
    BY <1>1, <1>5
  <1>8. \A i \in 1..(n - d) : piece[i] = s[d + i]
    BY <1>5, <1>6
  <1> QED BY <1>1, <1>4, <1>5, <1>7, <1>8

\* A sequence is the piece that it is symbol by symbol.
LEMMA SeqIsPiece ==
    ASSUME NEW seen \in Seq(Text), NEW d \in Nat, NEW n \in Nat, d =< n, n =< Len(seen),
           NEW buffer \in Seq(Text), Len(buffer) = n - d,
           \A k \in 1..Len(buffer) : buffer[k] = seen[d + k]
    PROVE  buffer = SubSeq(seen, d + 1, n)
  <1>1. PICK s : s = SubSeq(seen, d + 1, n)
    OBVIOUS
  <1>2. s \in Seq(Text) /\ Len(s) = n - d /\ \A i \in 1..(n - d) : s[i] = seen[d + i]
    <2>1. \A i \in 1..n : seen[i] \in Text
      OBVIOUS
    <2> QED BY <1>1, <2>1, Piece
  <1>3. buffer = s
    BY <1>2, SeqEqual
  <1> QED BY <1>1, <1>3

Shape(q) ==
    q = [phase |-> q.phase, engine |-> q.engine, body |-> q.body, received |-> q.received,
         split |-> q.split, buffer |-> q.buffer, text |-> q.text, tokens |-> q.tokens]

\* What the parts of a parsed query are.
IsQuery(body, received, split, buffer, text, tokens, d) ==
    /\ body \in Bodies
    /\ received \in 0..Len(body)
    /\ IsSplit(body, received, split)
    /\ tokens = Bill(text)
    /\ IsParsed(Decoded(body, split), received, buffer, text, d)

\* Parsed(q) is what IsQuery says of the parts of q.
LEMMA ParsedIs ==
    ASSUME NEW q
    PROVE  Parsed(q) <=>
             /\ Shape(q)
             /\ IsQuery(q.body, q.received, q.split, q.buffer, q.text, q.tokens, q.received - Len(q.buffer))
  <1>1. PICK s : s = Decoded(q.body, q.split)
    OBVIOUS
  <1>2. ASSUME Parsed(q)
        PROVE  /\ Shape(q)
               /\ IsQuery(q.body, q.received, q.split, q.buffer, q.text, q.tokens, q.received - Len(q.buffer))
    <2>1. /\ q.body \in Bodies /\ q.received \in 0..Len(q.body)
          /\ IsSplit(q.body, q.received, q.split)
          /\ q.received - Len(q.buffer) \in 0..q.received
          /\ Read(s)[q.received - Len(q.buffer)].line = << >>
          /\ q.buffer = SubSeq(s, q.received - Len(q.buffer) + 1, q.received)
          /\ q.text = Read(s)[q.received - Len(q.buffer)].found
          /\ q.tokens = Bill(q.text)
      BY <1>1, <1>2 DEF Parsed
    <2>2. s \in Seq(Text) /\ Len(s) = Len(q.body) /\ Len(q.body) \in Nat /\ DoneEnds(s)
      BY <1>1, <2>1, BodyIsSeq, DecodedIs, DecodedEnds
    <2>3. PICK n \in Nat, d \in Nat : n = q.received /\ d = q.received - Len(q.buffer) /\ d =< n /\ n =< Len(s)
      BY <2>1, <2>2
    <2>4. q.buffer = SubSeq(s, d + 1, n)
      BY <2>1, <2>3
    <2>a. PICK buffer : buffer = q.buffer /\ buffer = SubSeq(s, d + 1, n)
      BY <2>4
    <2>b. buffer \in Seq(Text) /\ Len(buffer) = n - d /\ \A i \in 1..(n - d) : buffer[i] = s[d + i]
      <3>1. \A i \in 1..n : s[i] \in Text
        BY <2>2, <2>3
      <3>2. PICK p : p = SubSeq(s, d + 1, n)
        OBVIOUS
      <3>3. p \in Seq(Text) /\ Len(p) = n - d /\ \A i \in 1..(n - d) : p[i] = s[d + i]
        <4>1. d \in Nat /\ n \in Nat /\ d =< n
          BY <2>3
        <4>2. /\ SubSeq(s, d + 1, n) \in Seq(Text) /\ Len(SubSeq(s, d + 1, n)) = n - d
              /\ \A i \in 1..(n - d) : SubSeq(s, d + 1, n)[i] = s[d + i]
          BY <3>1, <4>1, Piece
        <4> QED BY <3>2, <4>2, Zenon
      <3> QED BY <2>a, <3>2, <3>3
    <2>5. q.buffer \in Seq(Text) /\ Len(q.buffer) = n - d
      BY <2>a, <2>b
    <2>6. \A k \in 1..Len(q.buffer) : q.buffer[k] = s[d + k]
      BY <2>a, <2>b
    <2>7. q.text \in Seq(Lines)
      <3>1. Read(s)[d] \in Reader
        BY <2>2, <2>3, ReadDef
      <3> QED BY <2>1, <2>3, <3>1 DEF Reader
    <2>8. IsParsed(s, n, q.buffer, q.text, d)
      BY <2>1, <2>2, <2>3, <2>5, <2>6, <2>7 DEF IsParsed
    <2>9. Shape(q)
      BY <1>2 DEF Parsed, Shape
    <2> QED BY <1>1, <2>1, <2>3, <2>8, <2>9 DEF IsQuery
  <1>3. ASSUME Shape(q),
               IsQuery(q.body, q.received, q.split, q.buffer, q.text, q.tokens, q.received - Len(q.buffer))
        PROVE  Parsed(q)
    <2>1. /\ q.body \in Bodies /\ q.received \in 0..Len(q.body)
          /\ IsSplit(q.body, q.received, q.split) /\ q.tokens = Bill(q.text)
          /\ IsParsed(s, q.received, q.buffer, q.text, q.received - Len(q.buffer))
      BY <1>1, <1>3 DEF IsQuery
    <2>2. PICK n \in Nat, d \in Nat : /\ n = q.received /\ d = q.received - Len(q.buffer)
                                      /\ d =< n /\ n =< Len(s) /\ Len(q.buffer) = n - d
      <3>1. /\ q.received - Len(q.buffer) \in Nat /\ q.received =< Len(s)
            /\ q.received = q.received - Len(q.buffer) + Len(q.buffer) /\ Len(q.buffer) \in Nat
        BY <2>1 DEF IsParsed
      <3>2. q.received \in Nat
        BY <2>1, BodyIsSeq
      <3> QED BY <3>1, <3>2
    <2>3. /\ s \in Seq(Text) /\ q.buffer \in Seq(Text) /\ Read(s)[d].line = << >>
          /\ q.text = Read(s)[d].found
          /\ \A k \in 1..Len(q.buffer) : q.buffer[k] = s[d + k]
      BY <2>1, <2>2 DEF IsParsed
    <2>4. q.buffer = SubSeq(s, d + 1, n)
      <3>1. PICK buffer \in Seq(Text) : buffer = q.buffer
        BY <2>3
      <3>2. Len(buffer) = n - d /\ \A k \in 1..Len(buffer) : buffer[k] = s[d + k]
        BY <2>2, <2>3, <3>1
      <3>3. buffer = SubSeq(s, d + 1, n)
        BY <2>2, <2>3, <3>2, SeqIsPiece
      <3> QED BY <3>1, <3>3
    <2>5. d \in 0..n
      BY <2>2
    <2> QED BY <1>1, <1>3, <2>1, <2>2, <2>3, <2>4, <2>5 DEF Parsed, Shape
  <1> QED BY <1>2, <1>3

\* What is left of a buffer when its first line has been drained.
Rest(buffer) == SubSeq(buffer, Len(FirstLine(buffer)) + 2, Len(buffer))

\* The first line of a buffer of b symbols is j long, and the rest follows its newline.
CutAt(buffer, line, rest, b, j) ==
    /\ j + 1 =< b
    /\ buffer[j + 1] = "nl"
    /\ \A k \in 1..j : buffer[k] # "nl"
    /\ line \in Seq(Text) /\ Len(line) = j
    /\ \A k \in 1..j : line[k] = buffer[k]
    /\ rest \in Seq(Text) /\ Len(rest) = b - (j + 1)
    /\ \A k \in 1..(b - (j + 1)) : rest[k] = buffer[(j + 1) + k]

\* A buffer with a newline is a line, the newline, and the rest.
LEMMA LineAndRest ==
    ASSUME NEW buffer \in Seq(Text), "nl" \in ToSet(buffer), NEW b \in Nat, b = Len(buffer)
    PROVE  \E j \in Nat : CutAt(buffer, FirstLine(buffer), Rest(buffer), b, j)
  <1>1. PICK m \in 1..Len(buffer) : /\ buffer[m] = "nl"
                                    /\ \A k \in 1..(m - 1) : buffer[k] # "nl"
                                    /\ FirstLine(buffer) = SubSeq(buffer, 1, m - 1)
    BY FirstLineEnds
  <1>2. PICK j \in Nat : j = m - 1 /\ m = j + 1 /\ j + 1 =< b
    OBVIOUS
  <1>3. \A i \in 1..b : buffer[i] \in Text
    OBVIOUS
  <1>4. PICK line : line = FirstLine(buffer) /\ line = SubSeq(buffer, 1, j)
    BY <1>1, <1>2
  <1>5. line \in Seq(Text) /\ Len(line) = j /\ \A k \in 1..j : line[k] = buffer[k]
    <2>1. line = SubSeq(buffer, 0 + 1, j) /\ 0 \in Nat /\ 0 =< j
      BY <1>4
    <2>2. \A i \in 1..j : buffer[i] \in Text
      BY <1>2, <1>3
    <2>3. /\ line \in Seq(Text) /\ Len(line) = j - 0
          /\ \A i \in 1..(j - 0) : line[i] = buffer[0 + i]
      BY <2>1, <2>2, Piece
    <2> QED BY <2>3
  <1>6. PICK rest : rest = Rest(buffer) /\ rest = SubSeq(buffer, j + 2, b)
    BY <1>4, <1>5 DEF Rest
  <1>7. /\ rest \in Seq(Text) /\ Len(rest) = b - (j + 1)
        /\ \A k \in 1..(b - (j + 1)) : rest[k] = buffer[(j + 1) + k]
    <2>1. PICK d \in Nat : d = j + 1 /\ d + 1 = j + 2 /\ d =< b
      BY <1>2
    <2>2. rest = SubSeq(buffer, d + 1, b)
      BY <1>6, <2>1
    <2>3. rest \in Seq(Text) /\ Len(rest) = b - d /\ \A i \in 1..(b - d) : rest[i] = buffer[d + i]
      BY <1>3, <2>1, <2>2, Piece
    <2> QED BY <2>1, <2>3
  <1>8. buffer[j + 1] = "nl" /\ \A k \in 1..j : buffer[k] # "nl"
    BY <1>1, <1>2
  <1>9. CutAt(buffer, line, rest, b, j)
    BY <1>2, <1>5, <1>7, <1>8, Zenon DEF CutAt
  <1> QED BY <1>4, <1>6, <1>9, Zenon

\* The j bytes after the first d, and a newline, are a line that was sent.
LineAt(body, d, j) ==
    /\ Read(body)[d].line = << >>
    /\ d + j < Len(body)
    /\ \A k \in 1..j : body[d + k] # "nl"
    /\ body[d + j + 1] = "nl"

\* What the reader has found at its end.
FoundAt(body, d, j, e) ==
    /\ Read(body)[d].found \in Seq(Lines)
    /\ Read(body)[e].line = << >>
    /\ \E sent \in Lines :
          /\ Len(sent) = j /\ \A k \in 1..j : sent[k] = body[d + k]
          /\ Read(body)[e].found =
                IF Content(sent) \in {<< >>, <<"done">>} THEN Read(body)[d].found
                ELSE Append(Read(body)[d].found, Content(sent))

\* What a line and its newline add to what the reader has found: the content of the line.
LEMMA LineIsRead ==
    ASSUME NEW body \in Seq(Text), NEW d \in Nat, NEW j \in Nat, LineAt(body, d, j)
    PROVE  FoundAt(body, d, j, d + j + 1)
  <1>0. /\ Read(body)[d].line = << >> /\ d + j < Len(body)
        /\ \A k \in 1..j : body[d + k] # "nl"
        /\ body[d + j + 1] = "nl"
    BY DEF LineAt
  <1>1. d + j =< Len(body) /\ d \in 0..Len(body)
    BY <1>0
  <1>2. /\ Read(body)[d + j].found = Read(body)[d].found
        /\ Read(body)[d + j].line \in Lines
        /\ Len(Read(body)[d + j].line) = j
        /\ \A k \in 1..j : Read(body)[d + j].line[k] = body[d + k]
    BY <1>0, <1>1, ReadLine
  <1>3. PICK e \in Nat : e = d + j /\ e < Len(body) /\ body[e + 1] = "nl"
    BY <1>0
  <1>4. /\ Read(body)[e + 1].line = << >>
        /\ Read(body)[e + 1].found = IF Content(Read(body)[e].line) \in {<< >>, <<"done">>}
                                     THEN Read(body)[e].found
                                     ELSE Append(Read(body)[e].found, Content(Read(body)[e].line))
    BY <1>3, ReadNext
  <1>5. Read(body)[d].found \in Seq(Lines)
    <2>1. Read(body)[d] \in Reader
      BY <1>1, ReadDef
    <2> QED BY <2>1 DEF Reader
  <1> QED BY <1>2, <1>3, <1>4, <1>5, Zenon DEF FoundAt

\* After [DONE] the buffer has blank lines only.
LEMMA BlankAfterDone ==
    ASSUME NEW seen \in Seq(Text), DoneEnds(seen),
           NEW d \in Nat, NEW sent \in Lines, Content(sent) = <<"done">>,
           \A k \in 1..Len(sent) : sent[k] = seen[d + k],
           NEW i \in DOMAIN seen, d + Len(sent) < i
    PROVE  seen[i] = "nl"
  <1>1. sent # << >> /\ Tail(sent) = <<"done">> /\ sent \in Seq(Text)
    BY DEF Content, Lines
  <1>2. Len(sent) = 2 /\ sent[2] = "done"
    <2>1. Len(sent) \in Nat /\ Len(Tail(sent)) = Len(sent) - 1 /\ \A k \in 1..Len(Tail(sent)) : Tail(sent)[k] = sent[k + 1]
      BY <1>1, HeadTailProperties, LenProperties
    <2>2. Len(Tail(sent)) = 1 /\ Tail(sent)[1] = "done"
      <3>1. Len(<<"done">>) = 1 /\ <<"done">>[1] = "done"
        OBVIOUS
      <3> QED BY <1>1, <3>1, Zenon
    <2> QED BY <2>1, <2>2
  <1>3. seen[d + 2] = "done" /\ d + 2 \in DOMAIN seen /\ d + 2 < i
    <2>1. DOMAIN seen = 1..Len(seen) /\ Len(seen) \in Nat
      BY LenProperties
    <2> QED BY <1>2, <2>1
  <1> QED BY <1>3 DEF DoneEnds

\* A turn of the inner loop: the first line leaves the buffer, and its content, if it
\* has one, is what the reader finds on it.
LEMMA LineIsParsed ==
    ASSUME NEW seen, NEW n, NEW buffer, NEW text, NEW d, IsParsed(seen, n, buffer, text, d),
           "nl" \in ToSet(buffer), NEW content, content = Content(FirstLine(buffer))
    PROVE  LET rest == Rest(buffer) IN
           /\ content \in Lines
           /\ content \in {<< >>, <<"done">>} => IsParsed(seen, n, rest, text, n - Len(rest))
           /\ content \notin {<< >>, <<"done">>} =>
                 IsParsed(seen, n, rest, Append(text, content), n - Len(rest))
           /\ content = <<"done">> => ToSet(rest) \subseteq {"nl"}
  <1>1. PICK b \in Nat : b = Len(buffer) /\ n = d + b /\ d \in Nat /\ buffer \in Seq(Text)
    BY DEF IsParsed
  <1>2. PICK l \in Nat : /\ l = Len(seen) /\ n =< l
                         /\ seen \in Seq(Text) /\ DoneEnds(seen) /\ text \in Seq(Lines)
    BY <1>1 DEF IsParsed
  <1>3. Read(seen)[d].line = << >> /\ text = Read(seen)[d].found
    BY DEF IsParsed
  <1>4. \A k \in 1..b : buffer[k] = seen[d + k]
    BY <1>1 DEF IsParsed
  <1>5. PICK line, rest : line = FirstLine(buffer) /\ rest = Rest(buffer)
    OBVIOUS
  <1>6. PICK j \in Nat : CutAt(buffer, line, rest, b, j)
    BY <1>1, <1>5, LineAndRest
  <1>7. \A k \in 1..j : line[k] = seen[d + k] /\ seen[d + k] # "nl"
    <2> SUFFICES ASSUME NEW k \in 1..j PROVE line[k] = seen[d + k] /\ seen[d + k] # "nl"
      OBVIOUS
    <2>1. k \in 1..b
      BY <1>6 DEF CutAt
    <2> QED BY <1>4, <1>6, <2>1 DEF CutAt
  <1>8. PICK e \in Nat : e = d + j + 1 /\ e =< n /\ d + j < l
    BY <1>1, <1>2, <1>6 DEF CutAt
  <1>9. seen[d + j + 1] = "nl"
    <2>1. j + 1 \in 1..b /\ d + (j + 1) = d + j + 1 /\ buffer[j + 1] = "nl"
      BY <1>1, <1>6 DEF CutAt
    <2> QED BY <1>4, <2>1
  <1>a. LineAt(seen, d, j)
    BY <1>2, <1>3, <1>7, <1>8, <1>9 DEF LineAt
  <1>b. FoundAt(seen, d, j, e)
    BY <1>1, <1>2, <1>8, <1>a, LineIsRead
  <1>c. line \in Lines /\ Len(line) = j
    BY <1>6 DEF CutAt, Lines
  <1>10. Read(seen)[e].line = << >>
    BY <1>b, Zenon DEF FoundAt
  <1>11. Read(seen)[e].found = IF content \in {<< >>, <<"done">>} THEN text ELSE Append(text, content)
    <2>1. PICK sent \in Lines :
            /\ Len(sent) = j /\ \A k \in 1..j : sent[k] = seen[d + k]
            /\ Read(seen)[e].found = IF Content(sent) \in {<< >>, <<"done">>} THEN Read(seen)[d].found
                                     ELSE Append(Read(seen)[d].found, Content(sent))
      BY <1>b, Zenon DEF FoundAt
    <2>2. sent = line
      <3>1. sent \in Seq(Text) /\ line \in Seq(Text) /\ Len(sent) = Len(line)
        BY <1>c, <2>1 DEF Lines
      <3>2. \A k \in 1..Len(sent) : sent[k] = line[k]
        BY <1>7, <2>1
      <3> QED BY <3>1, <3>2, SeqEqual
    <2> QED BY <1>3, <1>5, <2>1, <2>2, Zenon
  <1>12. content \in Lines
    BY <1>5, <1>c, ContentType
  <1>14. PICK left \in Nat : left = Len(rest) /\ left = b - (j + 1) /\ rest \in Seq(Text)
    <2>1. j + 1 =< b /\ Len(rest) = b - (j + 1) /\ rest \in Seq(Text)
      BY <1>6, Zenon DEF CutAt
    <2>2. b - (j + 1) \in Nat
      BY <2>1
    <2> QED BY <2>1, <2>2, Zenon
  <1>15. n - left = e /\ n = e + left
    BY <1>1, <1>8, <1>14
  <1>16. \A k \in 1..left : rest[k] = seen[e + k]
    <2> SUFFICES ASSUME NEW k \in 1..left PROVE rest[k] = seen[e + k]
      OBVIOUS
    <2>1. (j + 1) + k \in 1..b /\ d + ((j + 1) + k) = e + k
      BY <1>1, <1>8, <1>14
    <2>2. rest[k] = buffer[(j + 1) + k]
      BY <1>6, <1>14 DEF CutAt
    <2> QED BY <1>4, <2>1, <2>2
  <1>17. CASE content \in {<< >>, <<"done">>}
    <2>1. text = Read(seen)[e].found
      BY <1>11, <1>17, Zenon
    <2>2. IsParsed(seen, n, rest, text, e)
      BY <1>2, <1>10, <1>14, <1>15, <1>16, <2>1 DEF IsParsed
    <2>3. ASSUME content = <<"done">> PROVE ToSet(rest) \subseteq {"nl"}
      <3>1. Content(line) = <<"done">>
        BY <1>5, <2>3
      <3>2. ASSUME NEW k \in 1..left PROVE rest[k] = "nl"
        <4>1. e + k \in DOMAIN seen /\ d + Len(line) < e + k
          BY <1>1, <1>2, <1>8, <1>c, <1>15
        <4>2. seen[e + k] = "nl"
          BY <1>1, <1>2, <1>7, <1>c, <3>1, <4>1, BlankAfterDone
        <4> QED BY <1>16, <4>2
      <3>3. DOMAIN rest = 1..left
        BY <1>14, LenProperties
      <3> QED BY <3>2, <3>3 DEF ToSet
    <2> QED BY <1>5, <1>12, <1>14, <1>15, <1>17, <2>2, <2>3, Zenon
  <1>18. CASE content \notin {<< >>, <<"done">>}
    <2>1. Append(text, content) = Read(seen)[e].found
      BY <1>11, <1>18, Zenon
    <2>2. Append(text, content) \in Seq(Lines)
      BY <1>2, <1>12
    <2>3. IsParsed(seen, n, rest, Append(text, content), e)
      BY <1>2, <1>10, <1>14, <1>15, <1>16, <2>1, <2>2 DEF IsParsed
    <2> QED BY <1>5, <1>12, <1>14, <1>15, <1>18, <2>3, Zenon
  <1> QED BY <1>17, <1>18

\* The chunk that is read as lossy ends with the byte at to and makes cut of the split
\* after n bytes.
IsChunk(body, n, to, split, cut, lossy) ==
    /\ body \in Bodies
    /\ n \in Nat /\ to \in Nat /\ n < to /\ to =< Len(body)
    /\ IsSplit(body, n, split)
    /\ cut = split \cup Cut(body, to)
    /\ lossy = Lossy(SubSeq(body, n + 1, to))

\* What a chunk is decoded to: what the whole answer is, there, cut where it ends.
LEMMA LossyIs ==
    ASSUME NEW body, NEW n, NEW to, NEW split, NEW cut, NEW lossy,
           IsChunk(body, n, to, split, cut, lossy),
           NEW s, s = Decoded(body, split), NEW t, t = Decoded(body, cut)
    PROVE  /\ IsSplit(body, to, cut)
           /\ \A i \in 1..n : t[i] = s[i]
           /\ lossy \in Seq(Text) /\ Len(lossy) = to - n
           /\ \A i \in 1..(to - n) : lossy[i] = t[n + i]
  <1>0. /\ body \in Bodies /\ n \in Nat /\ to \in Nat /\ n < to /\ to =< Len(body)
        /\ IsSplit(body, n, split) /\ cut = split \cup Cut(body, to)
        /\ lossy = Lossy(SubSeq(body, n + 1, to))
    BY DEF IsChunk
  <1>1. PICK l \in Nat : /\ l = Len(body) /\ \A i \in 1..l : body[i] \in Symbols
                         /\ \A i \in 1..l : body[i] = "lo" <=> i # 1 /\ body[i - 1] = "hi"
    <2>1. body \in Seq(Symbols) /\ Len(body) \in Nat
      BY <1>0, BodyIsSeq
    <2>2. \A i \in 1..Len(body) : body[i] \in Symbols
      BY <2>1
    <2> QED BY <1>0, <2>1, <2>2, BodyIsSeq
  <1>2. /\ \A i \in split : i \in 1..n /\ body[i] = "hi"
        /\ n \in split <=> n # 0 /\ body[n] = "hi"
    BY <1>0 DEF IsSplit
  <1>3. \A i : i \in cut <=> i \in split \/ (i = to /\ body[to] = "hi")
    BY <1>0 DEF Cut
  <1>4. IsSplit(body, to, cut)
    <2>1. \A i \in cut : i \in 1..to /\ body[i] = "hi"
      BY <1>0, <1>2, <1>3
    <2>2. to \in cut <=> to # 0 /\ body[to] = "hi"
      BY <1>0, <1>2, <1>3
    <2> QED BY <2>1, <2>2 DEF IsSplit
  <1>5. /\ \A i \in 1..l : s[i] = IF i \in split \/ i - 1 \in split THEN "?" ELSE body[i]
        /\ \A i \in 1..l : t[i] = IF i \in cut \/ i - 1 \in cut THEN "?" ELSE body[i]
    <2>1. \A x : \A i \in 1..Len(body) :
             Decoded(body, x)[i] = IF i \in x \/ i - 1 \in x THEN "?" ELSE body[i]
      BY <1>0, DecodedIs
    <2> QED BY <1>1, <2>1
  <1>6. ASSUME NEW i \in 1..n PROVE t[i] = s[i]
    <2>1. i \in 1..l /\ i # to /\ i - 1 # to
      BY <1>0, <1>1
    <2>2. (i \in cut <=> i \in split) /\ (i - 1 \in cut <=> i - 1 \in split)
      BY <1>3, <2>1
    <2> QED BY <1>5, <2>1, <2>2
  <1>7. PICK m \in Nat : m = to - n /\ to = n + m /\ 1 =< m
    BY <1>0
  <1>8. PICK chunk \in Seq(Symbols) : /\ chunk = SubSeq(body, n + 1, to) /\ Len(chunk) = m
                                      /\ DOMAIN chunk = 1..m
                                      /\ \A i \in 1..m : chunk[i] = body[n + i] /\ chunk[i] \in Symbols
    <2>1. n \in Nat /\ to \in Nat /\ n =< to /\ \A i \in 1..to : body[i] \in Symbols
      BY <1>0, <1>1
    <2>2. PICK chunk : chunk = SubSeq(body, n + 1, to)
      OBVIOUS
    <2>3. chunk \in Seq(Symbols) /\ Len(chunk) = to - n /\ \A i \in 1..(to - n) : chunk[i] = body[n + i]
      BY <2>1, <2>2, Piece
    <2>4. DOMAIN chunk = 1..m /\ \A i \in 1..m : chunk[i] \in Symbols
      BY <1>7, <2>3, LenProperties
    <2> QED BY <1>7, <2>2, <2>3, <2>4
  <1>9. lossy = Lossy(chunk)
    BY <1>0, <1>8
  <1>10. lossy = [i \in 1..m |-> IF \/ chunk[i] = "hi" /\ i = m
                                    \/ chunk[i] = "lo" /\ i = 1
                                 THEN "?" ELSE chunk[i]]
    BY <1>8, <1>9 DEF Lossy
  <1>11. lossy \in Seq(Text) /\ Len(lossy) = m
    <2>1. \A i \in 1..m : chunk[i] \in Text /\ "?" \in Text
      BY <1>8 DEF Text
    <2>2. lossy \in [1..m -> Text]
      BY <1>10, <2>1
    <2> QED BY <2>2
  <1>12. ASSUME NEW i \in 1..m PROVE lossy[i] = t[n + i]
    <2>1. n + i \in 1..l /\ chunk[i] = body[n + i] /\ (n + i = to <=> i = m)
      BY <1>0, <1>1, <1>7, <1>8
    <2>2. n + i \in cut <=> chunk[i] = "hi" /\ i = m
      <3>1. n + i \notin split
        BY <1>0, <1>2
      <3> QED BY <1>3, <2>1, <3>1
    <2>3. n + i - 1 \in cut <=> chunk[i] = "lo" /\ i = 1
      <3>1. n + i - 1 # to
        BY <1>0, <1>7
      <3>2. n + i - 1 \in cut <=> n + i - 1 \in split
        BY <1>3, <3>1
      <3>3. CASE i = 1
        <4>1. n + i - 1 = n
          BY <1>0, <3>3
        <4>2. body[n + i] = "lo" <=> n # 0 /\ body[n] = "hi"
          <5>1. PICK k \in 1..l : k = n + i /\ k - 1 = n /\ (k # 1 <=> n # 0)
            BY <1>0, <2>1, <3>3
          <5>2. body[k] = "lo" <=> k # 1 /\ body[k - 1] = "hi"
            BY <1>1
          <5> QED BY <5>1, <5>2
        <4> QED BY <1>2, <2>1, <3>2, <3>3, <4>1, <4>2
      <3>4. CASE i # 1
        <4>1. n + i - 1 \notin split
          <5>1. ~(n + i - 1 =< n)
            BY <1>0, <3>4
          <5> QED BY <1>2, <5>1
        <4> QED BY <3>2, <3>4, <4>1
      <3> QED BY <3>3, <3>4
    <2>4. t[n + i] = IF n + i \in cut \/ n + i - 1 \in cut THEN "?" ELSE body[n + i]
      <3>1. PICK k \in 1..l : k = n + i /\ k - 1 = n + i - 1
        BY <1>0, <2>1
      <3>2. t[k] = IF k \in cut \/ k - 1 \in cut THEN "?" ELSE body[k]
        BY <1>5
      <3> QED BY <3>1, <3>2, Zenon
    <2>5. lossy[i] = IF (chunk[i] = "hi" /\ i = m) \/ (chunk[i] = "lo" /\ i = 1) THEN "?" ELSE chunk[i]
      BY <1>10
    <2> QED BY <2>1, <2>2, <2>3, <2>4, <2>5
  <1> QED BY <1>4, <1>5, <1>6, <1>7, <1>8, <1>9, <1>11, <1>12

\* A chunk arrives: the buffer holds it as the whole answer is decoded.
LEMMA ChunkIsParsed ==
    ASSUME NEW body, NEW n, NEW split, NEW buffer, NEW text, NEW tokens, NEW d,
           IsQuery(body, n, split, buffer, text, tokens, d), NEW to \in (n + 1)..Len(body)
    PROVE  IsQuery(body, to, split \cup Cut(body, to), buffer \o Lossy(SubSeq(body, n + 1, to)),
                   text, tokens, d)
  <1>1. /\ body \in Bodies /\ n \in 0..Len(body) /\ IsSplit(body, n, split) /\ tokens = Bill(text)
        /\ IsParsed(Decoded(body, split), n, buffer, text, d)
    BY DEF IsQuery
  <1>2. PICK l \in Nat : l = Len(body) /\ n \in Nat /\ to \in Nat /\ n < to /\ to =< l
    <2>1. Len(body) \in Nat
      BY <1>1, BodyIsSeq
    <2> QED BY <1>1, <2>1
  <1>3. PICK cut : cut = split \cup Cut(body, to)
    OBVIOUS
  <1>4. PICK s, t : s = Decoded(body, split) /\ t = Decoded(body, cut)
    OBVIOUS
  <1>5. PICK lossy : lossy = Lossy(SubSeq(body, n + 1, to))
    OBVIOUS
  <1>6. /\ IsSplit(body, to, cut)
        /\ \A i \in 1..n : t[i] = s[i]
        /\ lossy \in Seq(Text) /\ Len(lossy) = to - n
        /\ \A i \in 1..(to - n) : lossy[i] = t[n + i]
    <2>1. IsChunk(body, n, to, split, cut, lossy)
      BY <1>1, <1>2, <1>3, <1>5 DEF IsChunk
    <2> QED BY <1>4, <2>1, LossyIs
  <1>7. s \in Seq(Text) /\ t \in Seq(Text) /\ Len(s) = l /\ Len(t) = l
    BY <1>1, <1>2, <1>4, DecodedIs
  <1>8. DoneEnds(t)
    <2>1. to \in 0..Len(body)
      BY <1>2
    <2> QED BY <1>1, <1>4, <1>6, <2>1, DecodedEnds
  <1>9. PICK b \in Nat : b = Len(buffer) /\ n = d + b /\ d \in Nat /\ buffer \in Seq(Text)
    BY <1>1 DEF IsParsed
  <1>10. /\ text \in Seq(Lines) /\ Read(s)[d].line = << >> /\ text = Read(s)[d].found
         /\ \A k \in 1..b : buffer[k] = s[d + k]
    BY <1>1, <1>4, <1>9 DEF IsParsed
  <1>11. Read(t)[d] = Read(s)[d]
    <2>1. \A i \in 0..n : Read(s)[i] = Read(t)[i]
      <3>1. n \in Nat /\ n =< Len(s) /\ n =< Len(t) /\ \A i \in 1..n : s[i] = t[i]
        BY <1>2, <1>6, <1>7
      <3> QED BY <1>7, <3>1, ReadPrefix
    <2>2. d \in 0..n
      BY <1>9
    <2> QED BY <2>1, <2>2
  <1>12. PICK m \in Nat : m = to - n /\ to = d + (b + m)
    <2>1. to - n \in Nat /\ to = n + (to - n)
      BY <1>2
    <2>2. PICK m \in Nat : m = to - n /\ to = n + m
      BY <2>1
    <2>3. d + (b + m) = (d + b) + m
      BY <1>9
    <2> QED BY <1>9, <2>2, <2>3
  <1>13. PICK all \in Seq(Text) : /\ all = buffer \o lossy /\ Len(all) = b + m
                                  /\ \A k \in 1..b : all[k] = buffer[k]
                                  /\ \A i \in 1..m : all[b + i] = lossy[i]
    <2>1. PICK all : all = buffer \o lossy
      OBVIOUS
    <2>2. /\ all \in Seq(Text) /\ Len(all) = Len(buffer) + Len(lossy)
          /\ \A k \in 1..Len(buffer) : all[k] = buffer[k]
          /\ \A i \in 1..Len(lossy) : all[Len(buffer) + i] = lossy[i]
      BY <1>6, <1>9, <2>1
    <2>3. Len(buffer) = b /\ Len(lossy) = m
      BY <1>6, <1>9, <1>12
    <2> QED BY <2>1, <2>2, <2>3
  <1>14. ASSUME NEW k \in 1..(b + m) PROVE all[k] = t[d + k]
    <2>1. CASE k =< b
      <3>1. k \in 1..b /\ d + k \in 1..n
        BY <1>9, <2>1
      <3> QED BY <1>6, <1>10, <1>13, <3>1
    <2>2. CASE b < k
      <3>1. PICK i \in 1..m : k = b + i /\ n + i = d + k
        <4>1. k - b \in 1..m /\ k = b + (k - b) /\ n + (k - b) = d + k
          BY <1>9, <2>2
        <4> QED BY <4>1
      <3> QED BY <1>6, <1>12, <1>13, <3>1
    <2> QED BY <2>1, <2>2
  <1>15. IsParsed(t, to, all, text, d)
    BY <1>2, <1>7, <1>8, <1>9, <1>10, <1>11, <1>12, <1>13, <1>14 DEF IsParsed
  <1>16. IsQuery(body, to, cut, all, text, tokens, d)
    <2>1. to \in 0..Len(body)
      BY <1>2
    <2> QED BY <1>1, <1>4, <1>6, <1>15, <2>1 DEF IsQuery
  <1> QED BY <1>3, <1>5, <1>13, <1>16

\* Before the first chunk.
LEMMA NothingIsParsed ==
    ASSUME NEW body \in Bodies
    PROVE  IsQuery(body, 0, {}, << >>, << >>, 0, 0)
  <1>1. PICK s : s = Decoded(body, {})
    OBVIOUS
  <1>2. Len(body) \in Nat /\ s \in Seq(Text) /\ Len(s) = Len(body)
    BY <1>1, BodyIsSeq, DecodedIs
  <1>3. IsSplit(body, 0, {}) /\ 0 \in 0..Len(body)
    BY <1>2 DEF IsSplit
  <1>4. DoneEnds(s)
    BY <1>1, <1>3, DecodedEnds
  <1>5. PICK r : r = Read(s)[0] /\ r = [line |-> << >>, found |-> << >>]
    BY <1>2, ReadDef
  <1>6. r.line = << >> /\ r.found = << >>
    BY <1>5
  <1>7. Len(<< >>) = 0 /\ << >> \in Seq(Text) /\ << >> \in Seq(Lines)
    OBVIOUS
  <1>8. IsParsed(s, 0, << >>, << >>, 0)
    BY <1>2, <1>4, <1>5, <1>6, <1>7 DEF IsParsed
  <1> QED BY <1>1, <1>3, <1>8, BillNothing DEF IsQuery

\* When no line is left in the buffer, or blank ones only, the text is all that was
\* found in what has been received.
LEMMA WholeIsParsed ==
    ASSUME NEW seen, NEW n, NEW buffer, NEW text, NEW d, IsParsed(seen, n, buffer, text, d),
           "nl" \notin ToSet(buffer) \/ ToSet(buffer) \subseteq {"nl"}
    PROVE  text = Read(seen)[n].found
  <1>1. PICK b \in Nat : b = Len(buffer) /\ n = d + b /\ d \in Nat /\ buffer \in Seq(Text)
    BY DEF IsParsed
  <1>2. seen \in Seq(Text) /\ n =< Len(seen) /\ Read(seen)[d].line = << >>
        /\ text = Read(seen)[d].found
    BY DEF IsParsed
  <1>3. \A k \in 1..b : buffer[k] \in ToSet(buffer) /\ buffer[k] = seen[d + k]
    <2>1. DOMAIN buffer = 1..b
      BY <1>1, LenProperties
    <2> QED BY <1>1, <2>1 DEF IsParsed, ToSet
  <1>4. d + b =< Len(seen)
    BY <1>1, <1>2
  <1>5. CASE "nl" \notin ToSet(buffer)
    <2>1. \A k \in 1..b : seen[d + k] # "nl"
      BY <1>3, <1>5
    <2>2. Read(seen)[d + b].found = Read(seen)[d].found
      BY <1>1, <1>2, <1>4, <2>1, ReadLine
    <2> QED BY <1>1, <1>2, <2>2
  <1>6. CASE ToSet(buffer) \subseteq {"nl"}
    <2>1. \A k \in 1..b : seen[d + k] = "nl"
      BY <1>3, <1>6
    <2>2. Read(seen)[d + b].found = Read(seen)[d].found
      BY <1>1, <1>2, <1>4, <2>1, ReadBlank
    <2> QED BY <1>1, <1>2, <2>2
  <1> QED BY <1>5, <1>6

\* Before that, it is the beginning of it.
LEMMA PrefixIsParsed ==
    ASSUME NEW seen, NEW n, NEW buffer, NEW text, NEW d, IsParsed(seen, n, buffer, text, d)
    PROVE  IsPrefix(text, Read(seen)[n].found)
  <1>1. PICK b \in Nat : b = Len(buffer) /\ n = d + b /\ d \in Nat
    BY DEF IsParsed
  <1>2. /\ seen \in Seq(Text) /\ n =< Len(seen) /\ text \in Seq(Lines)
        /\ text = Read(seen)[d].found
    BY DEF IsParsed
  <1>3. d + b =< Len(seen)
    BY <1>1, <1>2
  <1>4. PICK g \in Seq(Lines) :
            /\ g = Read(seen)[n].found
            /\ Len(text) =< Len(g) /\ \A k \in 1..Len(text) : g[k] = text[k]
    <2>1. /\ Read(seen)[d].found \in Seq(Lines) /\ Read(seen)[d + b].found \in Seq(Lines)
          /\ Len(Read(seen)[d].found) =< Len(Read(seen)[d + b].found)
          /\ \A k \in 1..Len(Read(seen)[d].found) :
                Read(seen)[d + b].found[k] = Read(seen)[d].found[k]
      BY <1>1, <1>2, <1>3, FoundGrows
    <2> QED BY <1>1, <1>2, <2>1, Zenon
  <1>5. PICK l \in Nat : l = Len(text)
    BY <1>2
  <1>6. PICK p, q : p = SubSeq(text, 0 + 1, l) /\ q = SubSeq(g, 0 + 1, l)
    OBVIOUS
  <1>7. /\ p \in Seq(Lines) /\ Len(p) = l - 0 /\ \A k \in 1..(l - 0) : p[k] = text[0 + k]
    <2>1. 0 \in Nat /\ 0 =< l /\ \A k \in 1..l : text[k] \in Lines
      BY <1>2, <1>5
    <2> QED BY <1>6, <2>1, Piece
  <1>8. /\ q \in Seq(Lines) /\ Len(q) = l - 0 /\ \A k \in 1..(l - 0) : q[k] = g[0 + k]
    <2>1. 0 \in Nat /\ 0 =< l /\ \A k \in 1..l : g[k] \in Lines
      BY <1>4, <1>5
    <2> QED BY <1>6, <2>1, Piece
  <1>9. p = q
    <2>1. \A k \in 1..l : p[k] = q[k]
      BY <1>4, <1>5, <1>7, <1>8
    <2> QED BY <1>7, <1>8, <2>1, SeqEqual
  <1>10. SubSeq(text, 1, l) = SubSeq(g, 1, l)
    BY <1>6, <1>9
  <1> QED BY <1>4, <1>5, <1>10 DEF IsPrefix

-----------------------------------------------------------------------------
(* What a cut costs.                                                       *)

\* new is old with some characters replaced, both halves of each.
Garbled(new, old) ==
    /\ new \in Seq(Text) /\ old \in Seq(Text) /\ Len(new) = Len(old)
    /\ \A i \in 1..Len(old) :
          /\ new[i] = old[i] \/ (new[i] = "?" /\ old[i] \in {"hi", "lo"})
          /\ old[i] = "lo" => i # 1 /\ old[i - 1] = "hi" /\ (new[i] = "?" => new[i - 1] = "?")

\* Where one set loses what another may gain at most, the sum does not grow.
LEMMA SumAtMost ==
    ASSUME NEW A, NEW A1, NEW B, NEW B1, IsFiniteSet(A), IsFiniteSet(B),
           A1 \subseteq A, B1 \subseteq B \cup (A \ A1)
    PROVE  /\ Cardinality(A1) + Cardinality(B1) =< Cardinality(A) + Cardinality(B)
           /\ Cardinality(A1) \in Nat /\ Cardinality(B1) \in Nat
           /\ Cardinality(A) \in Nat /\ Cardinality(B) \in Nat
  <1>1. IsFiniteSet(A1) /\ IsFiniteSet(A \ A1) /\ Cardinality(A \ A1) = Cardinality(A) - Cardinality(A1)
    <2>1. IsFiniteSet(A1) /\ IsFiniteSet(A \ A1)
      BY FS_Subset, FS_Difference
    <2>2. A \cap A1 = A1
      OBVIOUS
    <2>3. Cardinality(A \ A1) = Cardinality(A) - Cardinality(A \cap A1)
      BY <2>1, FS_Difference
    <2> QED BY <2>1, <2>2, <2>3
  <1>2. PICK D : D = A \ A1
    OBVIOUS
  <1>3. /\ IsFiniteSet(B \cup D) /\ IsFiniteSet(B \cap D)
        /\ Cardinality(B \cup D) = Cardinality(B) + Cardinality(D) - Cardinality(B \cap D)
    <2>1. IsFiniteSet(D)
      BY <1>1, <1>2
    <2>2. IsFiniteSet(B \cap D)
      <3>1. B \cap D \subseteq B
        OBVIOUS
      <3> QED BY <3>1, FS_Subset
    <2> QED BY <2>1, <2>2, FS_Union
  <1>4. IsFiniteSet(B1) /\ Cardinality(B1) =< Cardinality(B \cup D)
    <2>1. B1 \subseteq B \cup D
      BY <1>2
    <2> QED BY <1>3, <2>1, FS_Subset
  <1>5. /\ Cardinality(A) \in Nat /\ Cardinality(A1) \in Nat /\ Cardinality(B) \in Nat
        /\ Cardinality(B1) \in Nat /\ Cardinality(D) \in Nat /\ Cardinality(B \cap D) \in Nat
        /\ Cardinality(B \cup D) \in Nat
    BY <1>1, <1>2, <1>3, <1>4, FS_CardinalityType
  <1> QED BY <1>1, <1>2, <1>3, <1>4, <1>5

\* A text counts no more when characters of it are replaced.
LEMMA CountGarbled ==
    ASSUME NEW new, NEW old, Garbled(new, old)
    PROVE  estimate_token_count(new) =< estimate_token_count(old)
  <1>1. PICK n \in Nat : /\ n = Len(new) /\ n = Len(old) /\ DOMAIN new = 1..n /\ DOMAIN old = 1..n
                         /\ new \in Seq(Text) /\ old \in Seq(Text)
    BY DEF Garbled
  <1>2. \A i \in 1..n : /\ new[i] = old[i] \/ (new[i] = "?" /\ old[i] \in {"hi", "lo"})
                        /\ old[i] = "lo" => i # 1 /\ old[i - 1] = "hi" /\ (new[i] = "?" => new[i - 1] = "?")
    BY <1>1 DEF Garbled
  <1>3. \A i \in 1..n : /\ new[i] = "sp" <=> old[i] = "sp"
                        /\ new[i] = "!" <=> old[i] = "!"
                        /\ new[i] = "hi" => old[i] = "hi"
    BY <1>2
  <1>4. ASSUME NEW i \in 1..n, NEW j \in 1..n PROVE SameWord(new, i, j) <=> SameWord(old, i, j)
    <2>1. \A k \in (i..j) \cup (j..i) : k \in 1..n
      OBVIOUS
    <2> QED BY <1>3, <2>1 DEF SameWord
  <1>5. ASSUME NEW i \in 1..n, HasCJK(new, i) PROVE HasCJK(old, i)
    BY <1>1, <1>3, <1>4, <1>5 DEF HasCJK
  <1>6. ASSUME NEW i \in 1..n PROVE FirstOfWord(new, i) <=> FirstOfWord(old, i)
    <2>1. i = 1 \/ i - 1 \in 1..n
      OBVIOUS
    <2> QED BY <1>3, <2>1 DEF FirstOfWord
  <1>7. ASSUME NEW i \in 1..n, FirstOfRun(new, i) PROVE FirstOfRun(old, i) \/ old[i] = "hi"
    <2>1. /\ new[i] \notin {"sp", "!", "hi", "lo"}
          /\ i = 1 \/ new[i - 1] \in {"sp", "!", "lo"}
      BY <1>7 DEF FirstOfRun
    <2>2. i = 1 \/ (i - 1 \in 1..n /\ new[i - 1] = old[i - 1])
      <3>1. i = 1 \/ i - 1 \in 1..n
        OBVIOUS
      <3> QED BY <1>2, <2>1, <3>1
    <2>3. CASE new[i] = old[i]
      BY <2>1, <2>2, <2>3 DEF FirstOfRun
    <2>4. CASE new[i] = "?" /\ old[i] = "lo"
      BY <1>2, <2>1, <2>4
    <2> QED BY <1>2, <2>3, <2>4
  <1>8. Counted(new) \subseteq Counted(old)
    <2> SUFFICES ASSUME NEW i \in 1..n, i \in Counted(new) PROVE i \in Counted(old)
      BY <1>1 DEF Counted
    <2>1. IF HasCJK(new, i) THEN new[i] \in {"hi", "!"} \/ FirstOfRun(new, i) ELSE FirstOfWord(new, i)
      BY DEF Counted
    <2>2. IF HasCJK(old, i) THEN old[i] \in {"hi", "!"} \/ FirstOfRun(old, i) ELSE FirstOfWord(old, i)
      <3>1. CASE HasCJK(new, i)
        BY <1>3, <1>5, <1>7, <2>1, <3>1
      <3>2. CASE ~HasCJK(new, i) /\ HasCJK(old, i)
        <4>1. FirstOfWord(old, i)
          BY <1>6, <2>1, <3>2
        <4>2. old[i] # "sp" /\ (i = 1 \/ old[i - 1] = "sp")
          BY <4>1 DEF FirstOfWord
        <4>3. old[i] # "lo"
          BY <1>2, <4>2
        <4>4. old[i] \notin {"hi", "!"} => FirstOfRun(old, i)
          BY <4>2, <4>3 DEF FirstOfRun
        <4> QED BY <3>2, <4>4
      <3>3. CASE ~HasCJK(new, i) /\ ~HasCJK(old, i)
        BY <1>6, <2>1, <3>3
      <3> QED BY <3>1, <3>2, <3>3
    <2> QED BY <1>1, <2>2 DEF Counted
  <1>9. TrailingPunct(new) \subseteq TrailingPunct(old) \cup (Counted(old) \ Counted(new))
    <2> SUFFICES ASSUME NEW i \in 1..n, i \in TrailingPunct(new)
                 PROVE  i \in TrailingPunct(old) \/ (i \in Counted(old) /\ i \notin Counted(new))
      BY <1>1 DEF TrailingPunct
    <2>1. /\ ~HasCJK(new, i) /\ new[i] = "!" /\ old[i] = "!"
          /\ \A j \in 1..n : i < j /\ SameWord(new, i, j) => new[j] = "!"
      BY <1>1, <1>3 DEF TrailingPunct
    <2>2. \A j \in 1..n : i < j /\ SameWord(old, i, j) => old[j] = "!"
      BY <1>3, <1>4, <2>1
    <2>3. CASE ~HasCJK(old, i)
      BY <1>1, <2>1, <2>2, <2>3 DEF TrailingPunct
    <2>4. CASE HasCJK(old, i)
      <3>1. i \in Counted(old)
        BY <1>1, <2>1, <2>4 DEF Counted
      <3>2. ~FirstOfWord(old, i)
        <4>1. PICK j \in 1..n : old[j] = "hi" /\ SameWord(old, i, j)
          BY <1>1, <2>4 DEF HasCJK
        <4>2. j < i
          BY <2>1, <2>2, <4>1
        <4>3. i - 1 \in j..i /\ i # 1
          BY <4>2
        <4>4. old[i - 1] # "sp"
          BY <4>1, <4>3 DEF SameWord
        <4> QED BY <4>3, <4>4 DEF FirstOfWord
      <3>3. i \notin Counted(new)
        BY <1>6, <2>1, <3>2 DEF Counted
      <3> QED BY <3>1, <3>3
    <2> QED BY <2>3, <2>4
  <1>10. PICK x, y : /\ x = Cardinality(Counted(new)) + Cardinality(TrailingPunct(new))
                     /\ y = Cardinality(Counted(old)) + Cardinality(TrailingPunct(old))
    OBVIOUS
  <1>11. x \in Nat /\ y \in Nat /\ x =< y
    <2>1. IsFiniteSet(Counted(old)) /\ IsFiniteSet(TrailingPunct(old))
      BY <1>1, CountType
    <2>2. PICK A, A1, B, B1 : /\ A = Counted(old) /\ A1 = Counted(new)
                              /\ B = TrailingPunct(old) /\ B1 = TrailingPunct(new)
      OBVIOUS
    <2>3. /\ IsFiniteSet(A) /\ IsFiniteSet(B) /\ A1 \subseteq A /\ B1 \subseteq B \cup (A \ A1)
          /\ x = Cardinality(A1) + Cardinality(B1) /\ y = Cardinality(A) + Cardinality(B)
      BY <1>8, <1>9, <1>10, <2>1, <2>2
    <2>4. /\ Cardinality(A1) + Cardinality(B1) =< Cardinality(A) + Cardinality(B)
          /\ Cardinality(A1) \in Nat /\ Cardinality(B1) \in Nat
          /\ Cardinality(A) \in Nat /\ Cardinality(B) \in Nat
      BY <2>3, SumAtMost
    <2> QED BY <2>3, <2>4
  <1>12. new = << >> <=> old = << >>
    BY <1>1, EmptySeq
  <1>13. /\ estimate_token_count(new) = IF new # << >> /\ x = 0 THEN 1 ELSE x
         /\ estimate_token_count(old) = IF old # << >> /\ y = 0 THEN 1 ELSE y
    BY <1>10 DEF estimate_token_count
  <1> QED BY <1>11, <1>12, <1>13

\* The head of a sequence is its first element.
LEMMA FirstIs == ASSUME NEW s \in Seq(Text), s # << >> PROVE Head(s) = s[1]
  OBVIOUS

\* The content of a garbled line is the garbled content of the line.
LEMMA ContentGarbled ==
    ASSUME NEW new, NEW old, Garbled(new, old)
    PROVE  /\ Garbled(Content(new), Content(old))
           /\ Content(new) \in Lines /\ Content(old) \in Lines
           /\ Content(new) = << >> <=> Content(old) = << >>
           /\ Content(new) = <<"done">> <=> Content(old) = <<"done">>
  <1>1. PICK n \in Nat : n = Len(new) /\ n = Len(old) /\ new \in Seq(Text) /\ old \in Seq(Text)
    BY DEF Garbled
  <1>2. \A i \in 1..n : /\ new[i] = old[i] \/ (new[i] = "?" /\ old[i] \in {"hi", "lo"})
                        /\ old[i] = "lo" => i # 1 /\ old[i - 1] = "hi" /\ (new[i] = "?" => new[i - 1] = "?")
    BY <1>1 DEF Garbled
  <1>3. Garbled(<< >>, << >>)
    BY DEF Garbled
  <1>4. CASE n = 0
    <2>1. new = << >> /\ old = << >>
      BY <1>1, <1>4, EmptySeq
    <2> QED BY <1>3, <2>1 DEF Content, Lines
  <1>5. CASE n # 0
    <2>1. /\ new # << >> /\ old # << >> /\ Head(new) = new[1] /\ Head(old) = old[1] /\ 1 \in 1..n
      <3>1. ASSUME NEW s \in Seq(Text), Len(s) = n PROVE s # << >> /\ Head(s) = s[1]
        <4>1. s # << >>
          BY <1>5, <3>1
        <4> QED BY <4>1, FirstIs
      <3>2. new # << >> /\ Head(new) = new[1]
        BY <1>1, <3>1
      <3>3. old # << >> /\ Head(old) = old[1]
        BY <1>1, <3>1
      <3>4. 1 \in 1..n
        BY <1>5
      <3> QED BY <3>2, <3>3, <3>4
    <2>2. Head(new) = "data" <=> Head(old) = "data"
      BY <1>2, <2>1
    <2>3. CASE Head(new) # "data"
      <3>1. Content(new) = << >> /\ Content(old) = << >>
        BY <2>2, <2>3 DEF Content
      <3> QED BY <1>3, <3>1 DEF Lines
    <2>4. CASE Head(new) = "data"
      <3>1. PICK p \in Seq(Text), c \in Seq(Text) : p = Tail(new) /\ c = Tail(old)
        BY <1>1, <2>1, HeadTailProperties
      <3>2. Content(new) = p /\ Content(old) = c
        BY <2>1, <2>2, <2>4, <3>1 DEF Content
      <3>3. PICK m \in Nat : m = n - 1
        BY <1>5
      <3>4. /\ Len(p) = m /\ Len(c) = m
            /\ \A i \in 1..m : p[i] = new[i + 1] /\ c[i] = old[i + 1]
        <4>1. ASSUME NEW s \in Seq(Text), s # << >>, Len(s) = n
              PROVE  Len(Tail(s)) = m /\ \A i \in 1..m : Tail(s)[i] = s[i + 1]
          <5>1. Len(Tail(s)) = Len(s) - 1 /\ \A i \in 1..Len(Tail(s)) : Tail(s)[i] = s[i + 1]
            BY <4>1, HeadTailProperties
          <5> QED BY <3>3, <4>1, <5>1
        <4> QED BY <1>1, <2>1, <3>1, <4>1
      <3>5. ASSUME NEW i \in 1..m
            PROVE  /\ p[i] = c[i] \/ (p[i] = "?" /\ c[i] \in {"hi", "lo"})
                   /\ c[i] = "lo" => i # 1 /\ c[i - 1] = "hi" /\ (p[i] = "?" => p[i - 1] = "?")
        <4>1. i + 1 \in 1..n /\ (i + 1) - 1 = i
          BY <3>3
        <4>2. /\ new[i + 1] = old[i + 1] \/ (new[i + 1] = "?" /\ old[i + 1] \in {"hi", "lo"})
              /\ old[i + 1] = "lo" => old[i] = "hi" /\ (new[i + 1] = "?" => new[i] = "?")
          BY <1>2, <4>1
        <4>3. CASE c[i] = "lo"
          <5>1. i # 1
            BY <2>1, <2>2, <2>4, <3>4, <4>2, <4>3
          <5>2. i - 1 \in 1..m /\ (i - 1) + 1 = i
            BY <5>1
          <5>3. c[i - 1] = old[i] /\ p[i - 1] = new[i]
            BY <3>4, <5>2
          <5> QED BY <3>4, <4>2, <4>3, <5>1, <5>3
        <4>4. CASE c[i] # "lo"
          BY <3>4, <4>2, <4>4
        <4> QED BY <4>3, <4>4
      <3>6. Garbled(p, c)
        BY <3>4, <3>5 DEF Garbled
      <3>7. p = << >> <=> c = << >>
        BY <3>4
      <3>8. p = <<"done">> <=> c = <<"done">>
        <4>1. p = <<"done">> <=> Len(p) = 1 /\ p[1] = "done"
          OBVIOUS
        <4>2. c = <<"done">> <=> Len(c) = 1 /\ c[1] = "done"
          OBVIOUS
        <4>3. Len(c) = 1 => (p[1] = "done" <=> c[1] = "done")
          BY <3>4, <3>5
        <4> QED BY <3>4, <4>1, <4>2, <4>3
      <3> QED BY <3>2, <3>6, <3>7, <3>8 DEF Lines
    <2> QED BY <2>3, <2>4
  <1> QED BY <1>4, <1>5


\* One character more.
LEMMA GarbledAppend ==
    ASSUME NEW new, NEW old, Garbled(new, old), NEW b \in Text, NEW c \in Text,
           b = c \/ (b = "?" /\ c \in {"hi", "lo"}),
           c = "lo" => /\ old # << >> /\ old[Len(old)] = "hi"
                       /\ b = "?" => new[Len(new)] = "?"
    PROVE  Garbled(Append(new, b), Append(old, c))
  <1>1. PICK n \in Nat : /\ n = Len(new) /\ n = Len(old)
                         /\ new \in Seq(Text) /\ old \in Seq(Text)
    BY DEF Garbled
  <1>2. \A i \in 1..n : /\ new[i] = old[i] \/ (new[i] = "?" /\ old[i] \in {"hi", "lo"})
                        /\ old[i] = "lo" => i # 1 /\ old[i - 1] = "hi" /\ (new[i] = "?" => new[i - 1] = "?")
    BY <1>1 DEF Garbled
  <1>3. PICK p, q : p = Append(new, b) /\ q = Append(old, c)
    OBVIOUS
  <1>4. /\ p \in Seq(Text) /\ Len(p) = n + 1 /\ p[n + 1] = b /\ \A i \in 1..n : p[i] = new[i]
        /\ q \in Seq(Text) /\ Len(q) = n + 1 /\ q[n + 1] = c /\ \A i \in 1..n : q[i] = old[i]
    <2>1. ASSUME NEW s \in Seq(Text), Len(s) = n, NEW x \in Text
          PROVE  /\ Append(s, x) \in Seq(Text) /\ Len(Append(s, x)) = n + 1
                 /\ Append(s, x)[n + 1] = x /\ \A i \in 1..n : Append(s, x)[i] = s[i]
      BY <2>1, AppendProperties
    <2>2. p \in Seq(Text) /\ Len(p) = n + 1 /\ p[n + 1] = b /\ \A i \in 1..n : p[i] = new[i]
      BY <1>1, <1>3, <2>1
    <2>3. q \in Seq(Text) /\ Len(q) = n + 1 /\ q[n + 1] = c /\ \A i \in 1..n : q[i] = old[i]
      BY <1>1, <1>3, <2>1
    <2> QED BY <2>2, <2>3
  <1>5. ASSUME NEW i \in 1..(n + 1)
        PROVE  /\ p[i] = q[i] \/ (p[i] = "?" /\ q[i] \in {"hi", "lo"})
               /\ q[i] = "lo" => i # 1 /\ q[i - 1] = "hi" /\ (p[i] = "?" => p[i - 1] = "?")
    <2>1. CASE i # n + 1
      <3>1. i \in 1..n /\ (i # 1 => i - 1 \in 1..n)
        BY <2>1
      <3>2. p[i] = new[i] /\ q[i] = old[i] /\ (i # 1 => p[i - 1] = new[i - 1] /\ q[i - 1] = old[i - 1])
        BY <1>4, <3>1
      <3> QED BY <1>2, <3>1, <3>2
    <2>2. CASE i = n + 1
      <3>1. p[i] = b /\ q[i] = c /\ i - 1 = n
        BY <1>4, <2>2
      <3>2. ASSUME c = "lo" PROVE i # 1 /\ q[i - 1] = "hi" /\ (p[i] = "?" => p[i - 1] = "?")
        <4>1. old # << >> /\ old[n] = "hi" /\ (b = "?" => new[n] = "?")
          BY <1>1, <3>2
        <4>2. n # 0
          BY <1>1, <4>1, EmptySeq
        <4>3. n \in 1..n
          BY <4>2
        <4>4. p[n] = new[n] /\ q[n] = old[n]
          BY <1>4, <4>3
        <4> QED BY <2>2, <3>1, <4>1, <4>2, <4>4
      <3> QED BY <3>1, <3>2
    <2> QED BY <2>1, <2>2
  <1>6. Garbled(p, q)
    BY <1>4, <1>5 DEF Garbled
  <1> QED BY <1>3, <1>6

AllGarbled(few, many) ==
    /\ few \in Seq(Lines) /\ many \in Seq(Lines) /\ Len(few) = Len(many)
    /\ \A k \in 1..Len(many) : Garbled(few[k], many[k])

\* One content more.
LEMMA AllGarbledAppend ==
    ASSUME NEW few, NEW many, AllGarbled(few, many),
           NEW b \in Lines, NEW c \in Lines, Garbled(b, c)
    PROVE  AllGarbled(Append(few, b), Append(many, c))
  <1>1. PICK n \in Nat : /\ n = Len(few) /\ n = Len(many)
                         /\ few \in Seq(Lines) /\ many \in Seq(Lines)
    BY DEF AllGarbled
  <1>2. \A k \in 1..n : Garbled(few[k], many[k])
    BY <1>1 DEF AllGarbled
  <1>3. PICK p, q : p = Append(few, b) /\ q = Append(many, c)
    OBVIOUS
  <1>4. /\ p \in Seq(Lines) /\ Len(p) = n + 1 /\ p[n + 1] = b /\ \A i \in 1..n : p[i] = few[i]
        /\ q \in Seq(Lines) /\ Len(q) = n + 1 /\ q[n + 1] = c /\ \A i \in 1..n : q[i] = many[i]
    <2>1. ASSUME NEW s \in Seq(Lines), Len(s) = n, NEW x \in Lines
          PROVE  /\ Append(s, x) \in Seq(Lines) /\ Len(Append(s, x)) = n + 1
                 /\ Append(s, x)[n + 1] = x /\ \A i \in 1..n : Append(s, x)[i] = s[i]
      BY <2>1, AppendProperties
    <2>2. p \in Seq(Lines) /\ Len(p) = n + 1 /\ p[n + 1] = b /\ \A i \in 1..n : p[i] = few[i]
      BY <1>1, <1>3, <2>1
    <2>3. q \in Seq(Lines) /\ Len(q) = n + 1 /\ q[n + 1] = c /\ \A i \in 1..n : q[i] = many[i]
      BY <1>1, <1>3, <2>1
    <2> QED BY <2>2, <2>3
  <1>5. ASSUME NEW k \in 1..(n + 1) PROVE Garbled(p[k], q[k])
    <2>1. CASE k # n + 1
      <3>1. k \in 1..n
        BY <2>1
      <3> QED BY <1>2, <1>4, <3>1
    <2>2. CASE k = n + 1
      BY <1>4, <2>2
    <2> QED BY <2>1, <2>2
  <1>6. AllGarbled(p, q)
    BY <1>4, <1>5 DEF AllGarbled
  <1> QED BY <1>3, <1>6

\* What a line ends with, where a reader holds one: the symbol it has just read.
EndsWith(line, s, i) ==
    IF line = << >> THEN i = 0 \/ s[i] = "nl" ELSE i # 0 /\ line[Len(line)] = s[i]

\* A reader of a garbled text finds garbled contents, as many.
LEMMA ReadGarbled ==
    ASSUME NEW new, NEW old, Garbled(new, old), NEW n \in 0..Len(old)
    PROVE  AllGarbled(Read(new)[n].found, Read(old)[n].found)
  <1>1. PICK l \in Nat : l = Len(new) /\ l = Len(old) /\ new \in Seq(Text) /\ old \in Seq(Text)
    BY DEF Garbled
  <1>2. \A i \in 1..l : /\ new[i] = old[i] \/ (new[i] = "?" /\ old[i] \in {"hi", "lo"})
                        /\ old[i] = "lo" => i # 1 /\ old[i - 1] = "hi" /\ (new[i] = "?" => new[i - 1] = "?")
    BY <1>1 DEF Garbled
  <1>3. PICK r, u : r = Read(new) /\ u = Read(old)
    OBVIOUS
  <1> DEFINE G == {i \in Nat : i =< l => /\ Garbled(r[i].line, u[i].line)
                                         /\ AllGarbled(r[i].found, u[i].found)
                                         /\ EndsWith(r[i].line, new, i)
                                         /\ EndsWith(u[i].line, old, i)}
  <1>4. 0 \in G
    <2>1. r[0] = [line |-> << >>, found |-> << >>] /\ u[0] = [line |-> << >>, found |-> << >>]
      BY <1>1, <1>3, ReadDef
    <2>2. Garbled(<< >>, << >>) /\ AllGarbled(<< >>, << >>)
      BY DEF Garbled, AllGarbled
    <2> QED BY <2>1, <2>2 DEF EndsWith
  <1>5. ASSUME NEW i \in Nat, i \in G PROVE i + 1 \in G
    <2> SUFFICES ASSUME i + 1 =< l
                 PROVE  /\ Garbled(r[i + 1].line, u[i + 1].line)
                        /\ AllGarbled(r[i + 1].found, u[i + 1].found)
                        /\ EndsWith(r[i + 1].line, new, i + 1)
                        /\ EndsWith(u[i + 1].line, old, i + 1)
      OBVIOUS
    <2>0. new \in Seq(Text) /\ i < Len(new) /\ old \in Seq(Text) /\ i < Len(old)
      BY <1>1
    <2>1. /\ Garbled(r[i].line, u[i].line) /\ AllGarbled(r[i].found, u[i].found)
          /\ EndsWith(r[i].line, new, i) /\ EndsWith(u[i].line, old, i)
      BY <1>5
    <2>2. PICK b \in Text, c \in Text : /\ b = new[i + 1] /\ c = old[i + 1]
                                        /\ b = c \/ (b = "?" /\ c \in {"hi", "lo"})
                                        /\ c = "lo" => i # 0 /\ old[i] = "hi" /\ (b = "?" => new[i] = "?")
      <3>1. i + 1 \in 1..l /\ (i + 1) - 1 = i
        OBVIOUS
      <3>2. new[i + 1] \in Text /\ old[i + 1] \in Text
        BY <2>0, ReadNext
      <3> QED BY <1>2, <3>1, <3>2
    <2>3. PICK p, q : p = r[i].line /\ q = u[i].line
      OBVIOUS
    <2>4. p \in Seq(Text) /\ q \in Seq(Text) /\ Len(p) = Len(q) /\ (p = << >> <=> q = << >>)
      <3>1. p \in Seq(Text) /\ q \in Seq(Text) /\ Len(p) = Len(q)
        BY <2>1, <2>3 DEF Garbled
      <3> QED BY <3>1, EmptySeq
    <2>5. CASE c = "nl"
      <3>1. b = "nl"
        BY <2>2, <2>5
      <3>2. /\ r[i + 1].line = << >>
            /\ r[i + 1].found = IF Content(p) \in {<< >>, <<"done">>} THEN r[i].found
                                ELSE Append(r[i].found, Content(p))
        BY <1>3, <2>0, <2>2, <2>3, <3>1, ReadNext
      <3>3. /\ u[i + 1].line = << >>
            /\ u[i + 1].found = IF Content(q) \in {<< >>, <<"done">>} THEN u[i].found
                                ELSE Append(u[i].found, Content(q))
        BY <1>3, <2>0, <2>2, <2>3, <2>5, ReadNext
      <3>4. /\ Garbled(Content(p), Content(q)) /\ Content(p) \in Lines /\ Content(q) \in Lines
            /\ Content(p) \in {<< >>, <<"done">>} <=> Content(q) \in {<< >>, <<"done">>}
        BY <2>1, <2>3, ContentGarbled
      <3>5. AllGarbled(r[i + 1].found, u[i + 1].found)
        <4>1. CASE Content(p) \in {<< >>, <<"done">>}
          BY <2>1, <3>2, <3>3, <3>4, <4>1, Zenon
        <4>2. CASE Content(p) \notin {<< >>, <<"done">>}
          <5>1. AllGarbled(Append(r[i].found, Content(p)), Append(u[i].found, Content(q)))
            BY <2>1, <3>4, AllGarbledAppend
          <5> QED BY <3>2, <3>3, <3>4, <4>2, <5>1, Zenon
        <4> QED BY <4>1, <4>2
      <3>6. Garbled(r[i + 1].line, u[i + 1].line)
        <4>1. Garbled(<< >>, << >>)
          BY DEF Garbled
        <4> QED BY <3>2, <3>3, <4>1
      <3>7. EndsWith(r[i + 1].line, new, i + 1) /\ EndsWith(u[i + 1].line, old, i + 1)
        BY <2>2, <2>5, <3>1, <3>2, <3>3 DEF EndsWith
      <3> QED BY <3>5, <3>6, <3>7
    <2>6. CASE c # "nl"
      <3>1. b # "nl"
        BY <2>2, <2>6
      <3>2. r[i + 1].line = Append(p, b) /\ r[i + 1].found = r[i].found
        BY <1>3, <2>0, <2>2, <2>3, <3>1, ReadNext
      <3>3. u[i + 1].line = Append(q, c) /\ u[i + 1].found = u[i].found
        BY <1>3, <2>0, <2>2, <2>3, <2>6, ReadNext
      <3>4. c = "lo" => q # << >> /\ q[Len(q)] = "hi" /\ (b = "?" => p[Len(p)] = "?")
        <4> SUFFICES ASSUME c = "lo" PROVE q # << >> /\ q[Len(q)] = "hi" /\ (b = "?" => p[Len(p)] = "?")
          OBVIOUS
        <4>1. i # 0 /\ old[i] = "hi" /\ (b = "?" => new[i] = "?")
          BY <2>2
        <4>2. q # << >> /\ q[Len(q)] = "hi"
          BY <2>1, <2>3, <4>1 DEF EndsWith
        <4>3. p # << >>
          BY <2>4, <4>2
        <4>4. p[Len(p)] = new[i]
          BY <2>1, <2>3, <4>3 DEF EndsWith
        <4> QED BY <4>1, <4>2, <4>4
      <3>5. Garbled(Append(p, b), Append(q, c))
        BY <2>1, <2>2, <2>3, <3>4, GarbledAppend
      <3>6. ASSUME NEW s \in Seq(Text), NEW x \in Text
            PROVE  Append(s, x) # << >> /\ Append(s, x)[Len(Append(s, x))] = x
        <4>1. Len(Append(s, x)) = Len(s) + 1 /\ Append(s, x)[Len(s) + 1] = x /\ Len(s) \in Nat
          BY AppendProperties, LenProperties
        <4>2. Append(s, x) # << >>
          BY <4>1, EmptySeq
        <4> QED BY <4>1, <4>2
      <3>7. EndsWith(Append(p, b), new, i + 1) /\ EndsWith(Append(q, c), old, i + 1)
        <4>1. Append(p, b) # << >> /\ Append(p, b)[Len(Append(p, b))] = b
          BY <2>4, <3>6
        <4>2. Append(q, c) # << >> /\ Append(q, c)[Len(Append(q, c))] = c
          BY <2>4, <3>6
        <4> QED BY <2>2, <4>1, <4>2 DEF EndsWith
      <3> QED BY <2>1, <3>2, <3>3, <3>5, <3>7
    <2> QED BY <2>5, <2>6
  <1>6. Nat \subseteq G
    <2> HIDE DEF G
    <2> QED BY <1>4, <1>5, NatInductionOnSet
  <1>7. n \in Nat /\ n =< l
    BY <1>1
  <1>8. AllGarbled(r[n].found, u[n].found)
    <2>1. n \in G
      <3> HIDE DEF G
      <3> QED BY <1>6, <1>7
    <2> QED BY <1>7, <2>1
  <1> QED BY <1>3, <1>8

\* An answer in which characters were cut is the answer, garbled.
LEMMA DecodedGarbled ==
    ASSUME NEW body \in Bodies, NEW n \in 0..Len(body), NEW split, IsSplit(body, n, split)
    PROVE  Garbled(Decoded(body, split), body)
  <1>1. PICK l \in Nat : /\ l = Len(body) /\ n =< l
                         /\ \A i \in 1..l : body[i] = "lo" <=> i # 1 /\ body[i - 1] = "hi"
    BY BodyIsSeq
  <1>2. body \in Seq(Text)
    BY BodyIsSeq DEF Text
  <1>3. PICK s \in Seq(Text) : /\ s = Decoded(body, split) /\ Len(s) = l
                               /\ \A i \in 1..l : s[i] = IF i \in split \/ i - 1 \in split THEN "?" ELSE body[i]
    BY <1>1, DecodedIs
  <1>4. \A i \in split : i \in 1..n /\ body[i] = "hi"
    BY DEF IsSplit
  <1>5. ASSUME NEW i \in 1..l
        PROVE  /\ s[i] = body[i] \/ (s[i] = "?" /\ body[i] \in {"hi", "lo"})
               /\ body[i] = "lo" => i # 1 /\ body[i - 1] = "hi" /\ (s[i] = "?" => s[i - 1] = "?")
    <2>1. s[i] = IF i \in split \/ i - 1 \in split THEN "?" ELSE body[i]
      BY <1>3
    <2>2. i \in split => body[i] = "hi"
      BY <1>4
    <2>3. i - 1 \in split => i # 1 /\ body[i] = "lo"
      <3> SUFFICES ASSUME i - 1 \in split PROVE i # 1 /\ body[i] = "lo"
        OBVIOUS
      <3>1. i - 1 \in 1..n /\ body[i - 1] = "hi"
        BY <1>4
      <3>2. i # 1
        BY <3>1
      <3> QED BY <1>1, <3>1, <3>2
    <2>4. body[i] = "lo" => i # 1 /\ body[i - 1] = "hi"
      BY <1>1
    <2>5. ASSUME body[i] = "lo", s[i] = "?" PROVE s[i - 1] = "?"
      <3>1. PICK j \in 1..l : j = i - 1
        BY <2>4, <2>5
      <3>2. i \notin split
        BY <2>2, <2>5
      <3>3. body[i] \in Symbols /\ "?" \notin Symbols
        BY <2>5 DEF Symbols
      <3>4. j \in split
        BY <2>1, <2>5, <3>1, <3>2
      <3> QED BY <1>3, <3>1, <3>4
    <2> QED BY <2>1, <2>2, <2>3, <2>4, <2>5
  <1>6. Garbled(s, body)
    BY <1>1, <1>2, <1>3, <1>5 DEF Garbled
  <1> QED BY <1>3, <1>6

\* A cut never adds to a bill.
LEMMA CutCostsNothing ==
    ASSUME NEW body \in Bodies, NEW n \in 0..Len(body), NEW split, IsSplit(body, n, split)
    PROVE  Bill(Read(Decoded(body, split))[n].found) =< Bill(Read(body)[n].found)
  <1>1. PICK few, many : few = Read(Decoded(body, split))[n].found /\ many = Read(body)[n].found
    OBVIOUS
  <1>2. AllGarbled(few, many)
    BY <1>1, DecodedGarbled, ReadGarbled
  <1>3. few \in Seq(Lines) /\ many \in Seq(Lines) /\ Len(few) = Len(many)
        /\ \A k \in 1..Len(few) : Garbled(few[k], many[k])
    BY <1>2 DEF AllGarbled
  <1>4. \A k \in 1..Len(few) : estimate_token_count(few[k]) =< estimate_token_count(many[k])
    BY <1>3, CountGarbled
  <1> QED BY <1>1, <1>3, <1>4, BillAtMost
-----------------------------------------------------------------------------
(* The steps of a query.                                                   *)

\* The query that q becomes while its answer is read.
Progress(q, phase, received, split, buffer, text, tokens) ==
    [phase |-> phase, engine |-> q.engine, body |-> q.body, received |-> received,
     split |-> split, buffer |-> buffer, text |-> text, tokens |-> tokens]

\* What a chunk makes of a query.
LEMMA ChunkStep ==
    ASSUME NEW q, Shape(q), NEW n, NEW split, NEW buffer
    PROVE  [q EXCEPT !.phase = "parsing", !.received = n, !.split = split, !.buffer = buffer]
              = Progress(q, "parsing", n, split, buffer, q.text, q.tokens)
  <1> DEFINE Q(ph, r, s, buf, t, k) ==
                [phase |-> ph, engine |-> q.engine, body |-> q.body, received |-> r, split |-> s,
                 buffer |-> buf, text |-> t, tokens |-> k]
  <1>1. PICK ph, r, s, buf, t, k : /\ q.phase = ph /\ q.received = r /\ q.split = s
                                   /\ q.buffer = buf /\ q.text = t /\ q.tokens = k
    OBVIOUS
  <1>2. q = Q(ph, r, s, buf, t, k)
    BY <1>1 DEF Shape
  <1>3. PICK f : f = [q EXCEPT !.phase = "parsing"]
    OBVIOUS
  <1>4. f = Q("parsing", r, s, buf, t, k)
    BY <1>2, <1>3
  <1>5. PICK g : g = [f EXCEPT !.received = n]
    OBVIOUS
  <1>6. g = Q("parsing", n, s, buf, t, k)
    BY <1>4, <1>5
  <1>7. PICK h : h = [g EXCEPT !.split = split]
    OBVIOUS
  <1>8. h = Q("parsing", n, split, buf, t, k)
    BY <1>6, <1>7
  <1>9. [h EXCEPT !.buffer = buffer] = Q("parsing", n, split, buffer, t, k)
    BY <1>8
  <1> QED BY <1>1, <1>3, <1>5, <1>7, <1>9, Zenon DEF Progress

\* What a turn of the inner loop makes of a query.
LEMMA Steps ==
    ASSUME NEW q, Shape(q), NEW content
    PROVE  /\ [q EXCEPT !.phase = "reading"]
                = Progress(q, "reading", q.received, q.split, q.buffer, q.text, q.tokens)
           /\ [Drain(q) EXCEPT !.phase = "reading"]
                = Progress(q, "reading", q.received, q.split, Rest(q.buffer), q.text, q.tokens)
           /\ content = << >> =>
                Deliver(Drain(q), content)
                  = Progress(q, q.phase, q.received, q.split, Rest(q.buffer), q.text, q.tokens)
           /\ content # << >> =>
                Deliver(Drain(q), content)
                  = Progress(q, q.phase, q.received, q.split, Rest(q.buffer), Append(q.text, content),
                             q.tokens + estimate_token_count(content))
  <1> DEFINE Q(ph, r, s, buf, t, k) ==
                [phase |-> ph, engine |-> q.engine, body |-> q.body, received |-> r, split |-> s,
                 buffer |-> buf, text |-> t, tokens |-> k]
  <1>1. PICK ph, r, s, buf, t, k : /\ q.phase = ph /\ q.received = r /\ q.split = s
                                   /\ q.buffer = buf /\ q.text = t /\ q.tokens = k
    OBVIOUS
  <1>2. q = Q(ph, r, s, buf, t, k)
    BY <1>1 DEF Shape
  <1>3. PICK rest : rest = Rest(buf)
    OBVIOUS
  <1>4. Drain(q) = Q(ph, r, s, rest, t, k)
    <2>1. Drain(q) = [q EXCEPT !.buffer = rest]
      BY <1>1, <1>2, <1>3 DEF Drain, Rest
    <2> QED BY <1>2, <2>1
  <1>5. [q EXCEPT !.phase = "reading"] = Q("reading", r, s, buf, t, k)
    BY <1>2
  <1>6. [Drain(q) EXCEPT !.phase = "reading"] = Q("reading", r, s, rest, t, k)
    BY <1>4
  <1>7. ASSUME content # << >>
        PROVE  Deliver(Drain(q), content) = Q(ph, r, s, rest, Append(t, content), k + estimate_token_count(content))
    <2>1. PICK a, b : a = Append(t, content) /\ b = k + estimate_token_count(content)
      OBVIOUS
    <2>2. PICK d : d = Drain(q)
      OBVIOUS
    <2>3. d.text = t /\ d.tokens = k
      BY <1>4, <2>2
    <2>4. Deliver(d, content) = [d EXCEPT !.tokens = b, !.text = a]
      BY <1>7, <2>1, <2>3 DEF Deliver
    <2>5. PICK f : f = [d EXCEPT !.tokens = b]
      OBVIOUS
    <2>6. f = Q(ph, r, s, rest, t, b)
      BY <1>4, <2>2, <2>5
    <2>7. [f EXCEPT !.text = a] = Q(ph, r, s, rest, a, b)
      BY <2>6
    <2> QED BY <2>1, <2>2, <2>4, <2>5, <2>7, Zenon
  <1>8. ASSUME content = << >> PROVE Deliver(Drain(q), content) = Drain(q)
    BY <1>8 DEF Deliver
  <1>9. Rest(q.buffer) = rest
    BY <1>1, <1>3
  <1> QED BY <1>1, <1>4, <1>5, <1>6, <1>7, <1>8, <1>9, Zenon DEF Progress

\* A query made of parts that are parsed is parsed.
LEMMA ProgressParsed ==
    ASSUME NEW q, NEW phase, NEW n, NEW split, NEW buffer, NEW text, NEW tokens,
           IsQuery(q.body, n, split, buffer, text, tokens, n - Len(buffer))
    PROVE  Parsed(Progress(q, phase, n, split, buffer, text, tokens))
  <1>1. PICK p : p = Progress(q, phase, n, split, buffer, text, tokens)
    OBVIOUS
  <1>2. /\ p.body = q.body /\ p.received = n /\ p.split = split /\ p.buffer = buffer
        /\ p.text = text /\ p.tokens = tokens
    BY <1>1 DEF Progress
  <1>3. Shape(p)
    BY <1>1 DEF Progress, Shape
  <1>4. IsQuery(p.body, p.received, p.split, p.buffer, p.text, p.tokens, p.received - Len(p.buffer))
    BY <1>2
  <1> QED BY <1>1, <1>3, <1>4, ParsedIs

\* The end of the line before the buffer.
LEMMA ParsedAt ==
    ASSUME NEW body, NEW n, NEW split, NEW buffer, NEW text, NEW tokens, NEW d,
           IsQuery(body, n, split, buffer, text, tokens, d)
    PROVE  d = n - Len(buffer)
  <1>1. d \in Nat /\ Len(buffer) \in Nat /\ n = d + Len(buffer)
    BY DEF IsQuery, IsParsed
  <1> QED BY <1>1

\* An answer of which nothing has arrived is parsed.
LEMMA AcceptParsed ==
    ASSUME NEW body \in Bodies, Accept(body)
    PROVE  ParsedSoFar'
  <1>1. PICK q : q = query' /\ q = Progress([engine |-> query.engine, body |-> body], "reading", 0, {}, << >>, << >>, 0)
    BY DEF Accept, Becomes, Progress
  <1>2. Parsed(q)
    <2>1. PICK p : p = [engine |-> query.engine, body |-> body] /\ p.body = body
      <3>1. [engine |-> query.engine, body |-> body].body = body
        OBVIOUS
      <3> QED BY <3>1, Zenon
    <2>2. Len(<< >>) = 0 /\ 0 - 0 = 0
      OBVIOUS
    <2>3. IsQuery(p.body, 0, {}, << >>, << >>, 0, 0 - Len(<< >>))
      BY <2>1, <2>2, NothingIsParsed
    <2>4. Parsed(Progress(p, "reading", 0, {}, << >>, << >>, 0))
      BY <2>3, ProgressParsed
    <2> QED BY <1>1, <2>1, <2>4
  <1>3. q.phase = "reading" /\ "nl" \notin ToSet(q.buffer)
    BY <1>1 DEF Progress, ToSet
  <1> QED BY <1>1, <1>2, <1>3 DEF ParsedSoFar

\* A chunk adds to the buffer and leaves the end of the last line parsed where it is.
LEMMA ChunkParsed ==
    ASSUME NEW n, Chunk(n), ParsedSoFar
    PROVE  ParsedSoFar'
  <1>1. /\ query.phase = "reading" /\ n \in (query.received + 1)..Len(query.body)
        /\ query' = [query EXCEPT !.phase = "parsing", !.received = n,
                        !.split = @ \cup Cut(query.body, n),
                        !.buffer = @ \o Lossy(SubSeq(query.body, query.received + 1, n))]
    BY DEF Chunk, Becomes
  <1>2. PICK d : /\ Shape(query)
                 /\ IsQuery(query.body, query.received, query.split, query.buffer, query.text, query.tokens, d)
    BY <1>1, ParsedIs DEF ParsedSoFar
  <1>3. PICK buffer, split : /\ buffer = query.buffer \o Lossy(SubSeq(query.body, query.received + 1, n))
                             /\ split = query.split \cup Cut(query.body, n)
    OBVIOUS
  <1>4. IsQuery(query.body, n, split, buffer, query.text, query.tokens, d)
    BY <1>1, <1>2, <1>3, ChunkIsParsed
  <1>5. d = n - Len(buffer)
    BY <1>4, ParsedAt
  <1>6. query' = Progress(query, "parsing", n, split, buffer, query.text, query.tokens)
    <2>1. query' = [query EXCEPT !.phase = "parsing", !.received = n, !.split = split, !.buffer = buffer]
      BY <1>1, <1>3, Zenon
    <2>2. [query EXCEPT !.phase = "parsing", !.received = n, !.split = split, !.buffer = buffer]
            = Progress(query, "parsing", n, split, buffer, query.text, query.tokens)
      BY <1>2, ChunkStep
    <2> QED BY <2>1, <2>2, Zenon
  <1>7. Parsed(query')
    <2>1. Parsed(Progress(query, "parsing", n, split, buffer, query.text, query.tokens))
      BY <1>4, <1>5, ProgressParsed
    <2> QED BY <1>6, <2>1
  <1>8. query'.phase = "parsing"
    BY <1>6 DEF Progress
  <1>9. PICK q : q = query'
    OBVIOUS
  <1> QED BY <1>7, <1>8, <1>9 DEF ParsedSoFar

\* A turn of the inner loop parses one line more, as the reader does.
LEMMA ParseParsed ==
    ASSUME Parse, ParsedSoFar
    PROVE  ParsedSoFar'
  <1>1. query.phase = "parsing"
    BY DEF Parse
  <1>2. PICK d : /\ Shape(query)
                 /\ IsQuery(query.body, query.received, query.split, query.buffer, query.text, query.tokens, d)
    BY <1>1, ParsedIs DEF ParsedSoFar
  <1>3. CASE "nl" \notin ToSet(query.buffer)
    <2>1. query' = Progress(query, "reading", query.received, query.split, query.buffer, query.text, query.tokens)
      <3>1. query' = [query EXCEPT !.phase = "reading"]
        BY <1>3 DEF Parse, Becomes
      <3> QED BY <1>2, <3>1, Steps
    <2>2. Parsed(Progress(query, "reading", query.received, query.split, query.buffer, query.text, query.tokens))
      <3>1. d = query.received - Len(query.buffer)
        BY <1>2, ParsedAt
      <3> QED BY <1>2, <3>1, ProgressParsed
    <2>3. query'.phase = "reading" /\ query'.buffer = query.buffer
      BY <2>1 DEF Progress
    <2> QED BY <1>3, <2>1, <2>2, <2>3 DEF ParsedSoFar
  <1>4. CASE "nl" \in ToSet(query.buffer)
    <2>1. PICK content : /\ content = Content(FirstLine(query.buffer))
                         /\ query' = IF content = <<"done">> THEN [Drain(query) EXCEPT !.phase = "reading"]
                                     ELSE Deliver(Drain(query), content)
      BY <1>4, Zenon DEF Parse, Becomes
    <2>3. PICK rest : rest = Rest(query.buffer)
      OBVIOUS
    <2>4. /\ query.body \in Bodies /\ query.received \in 0..Len(query.body)
          /\ IsSplit(query.body, query.received, query.split)
          /\ query.tokens = Bill(query.text)
          /\ IsParsed(Decoded(query.body, query.split), query.received, query.buffer, query.text, d)
      BY <1>2 DEF IsQuery
    <2>a. PICK seen : seen = Decoded(query.body, query.split)
      OBVIOUS
    <2>b. query.text \in Seq(Lines)
      BY <2>4 DEF IsParsed
    <2>5. /\ content \in Lines
          /\ content \in {<< >>, <<"done">>} =>
               IsParsed(seen, query.received, rest, query.text, query.received - Len(rest))
          /\ content \notin {<< >>, <<"done">>} =>
               IsParsed(seen, query.received, rest, Append(query.text, content), query.received - Len(rest))
          /\ content = <<"done">> => ToSet(rest) \subseteq {"nl"}
      BY <1>4, <2>1, <2>3, <2>4, <2>a, LineIsParsed
    <2>6. CASE content \in {<< >>, <<"done">>}
      <3>1. IsQuery(query.body, query.received, query.split, rest, query.text, query.tokens,
                    query.received - Len(rest))
        BY <2>4, <2>5, <2>6, <2>a DEF IsQuery
      <3>2. \A phase : Parsed(Progress(query, phase, query.received, query.split, rest, query.text, query.tokens))
        BY <3>1, ProgressParsed
      <3>3. CASE content = <<"done">>
        <4>1. query' = Progress(query, "reading", query.received, query.split, rest, query.text, query.tokens)
          BY <1>2, <2>1, <2>3, <3>3, Steps
        <4>2. query'.phase = "reading" /\ query'.buffer = rest /\ Parsed(query')
          BY <3>2, <4>1 DEF Progress
        <4> QED BY <2>5, <3>3, <4>2 DEF ParsedSoFar
      <3>4. CASE content = << >>
        <4>1. query' = Progress(query, "parsing", query.received, query.split, rest, query.text, query.tokens)
          <5>1. content # <<"done">>
            BY <3>4
          <5> QED BY <1>1, <1>2, <2>1, <2>3, <3>4, <5>1, Steps
        <4>2. query'.phase = "parsing" /\ Parsed(query')
          BY <3>2, <4>1 DEF Progress
        <4> QED BY <4>2 DEF ParsedSoFar
      <3> QED BY <2>6, <3>3, <3>4
    <2>7. CASE content \notin {<< >>, <<"done">>}
      <3>1. PICK text, tokens : /\ text = Append(query.text, content)
                                /\ tokens = query.tokens + estimate_token_count(content)
        OBVIOUS
      <3>2. query' = Progress(query, "parsing", query.received, query.split, rest, text, tokens)
        <4>1. content # <<"done">> /\ content # << >>
          BY <2>7
        <4>2. query' = Deliver(Drain(query), content)
          BY <2>1, <4>1, Zenon
        <4>3. Deliver(Drain(query), content)
                = Progress(query, query.phase, query.received, query.split, Rest(query.buffer),
                           Append(query.text, content), query.tokens + estimate_token_count(content))
          BY <1>2, <4>1, Steps
        <4> QED BY <1>1, <2>3, <3>1, <4>2, <4>3, Zenon
      <3>3. tokens = Bill(text)
        BY <2>4, <2>5, <2>b, <3>1, BillAppend
      <3>4. IsQuery(query.body, query.received, query.split, rest, text, tokens, query.received - Len(rest))
        BY <2>4, <2>5, <2>7, <2>a, <3>1, <3>3 DEF IsQuery
      <3>5. Parsed(Progress(query, "parsing", query.received, query.split, rest, text, tokens))
        BY <3>4, ProgressParsed
      <3>6. query'.phase = "parsing"
        BY <3>2 DEF Progress
      <3> QED BY <3>2, <3>5, <3>6 DEF ParsedSoFar
    <2> QED BY <2>6, <2>7
  <1> QED BY <1>3, <1>4

\* At the end of the stream the text is what the reader has found.
LEMMA StreamEndsParsed ==
    ASSUME StreamEnds, ParsedSoFar
    PROVE  ParsedSoFar'
  <1>1. /\ query.phase = "reading"
        /\ query' = [phase |-> "answered", engine |-> query.engine, body |-> query.body,
                     received |-> query.received, split |-> query.split, text |-> query.text,
                     receipt |-> [tokens |-> query.tokens, tqw |-> query.engine.tqw]]
    BY DEF StreamEnds, Becomes
  <1>2. PICK d : IsQuery(query.body, query.received, query.split, query.buffer, query.text, query.tokens, d)
    BY <1>1, ParsedIs DEF ParsedSoFar
  <1>3. "nl" \notin ToSet(query.buffer) \/ ToSet(query.buffer) \subseteq {"nl"}
    BY <1>1 DEF ParsedSoFar
  <1>4. query.text = Read(Decoded(query.body, query.split))[query.received].found
    BY <1>2, <1>3, WholeIsParsed DEF IsQuery
  <1>5. /\ query'.phase = "answered" /\ query'.text = query.text
        /\ query'.body = query.body /\ query'.received = query.received /\ query'.split = query.split
        /\ query'.receipt.tokens = query.tokens
    BY <1>1
  <1>6. /\ query.body \in Bodies /\ query.received \in 0..Len(query.body)
        /\ IsSplit(query.body, query.received, query.split) /\ query.tokens = Bill(query.text)
    BY <1>2 DEF IsQuery
  <1> QED BY <1>4, <1>5, <1>6 DEF ParsedSoFar, Sent

-----------------------------------------------------------------------------
(* The engines.                                                            *)

TargetCount == Len(Targets)

\* An engine with a model is known.
LEMMA LoadedIsKnown ==
    ASSUME loaded \in Loads, NEW e \in ToSet(Targets), NEW tqw \in {0, loaded[e]}, tqw # 0
    PROVE  [url |-> e, tqw |-> tqw] \in Known
  <1>1. tqw \in Offers[e] /\ Offers[e] \subseteq Nat
    BY EnginesAssumption DEF Loads
  <1> QED BY <1>1 DEF Known

\* Each target is one of the engines.
LEMMA TargetsAre ==
    /\ TargetCount \in Nat /\ DOMAIN Targets = 1..TargetCount
    /\ \A k \in 1..TargetCount : Targets[k] \in ToSet(Targets)
  <1>1. Targets \in Seq(ToSet(Targets))
    BY EnginesAssumption
  <1>2. TargetCount \in Nat /\ DOMAIN Targets = 1..TargetCount
    BY <1>1, LenProperties DEF TargetCount
  <1> QED BY <1>2 DEF ToSet

\* What the scan at boot finds.
LEMMA DetectedIsKnown ==
    ASSUME loaded \in Loads
    PROVE  Detected \in Seq(Known) /\ Len(Detected) =< Len(Targets)
  <1> DEFINE V == Seq(Known)
             step == [kv \in (1..TargetCount) \X V |->
                        IF loaded[Targets[kv[1]]] = 0 THEN kv[2]
                        ELSE Append(kv[2], Engine(Targets[kv[1]]))]
  <1>1. ASSUME NEW k \in 1..TargetCount, NEW list \in V
        PROVE  /\ step[<<k, list>>] = IF loaded[Targets[k]] = 0 THEN list
                                      ELSE Append(list, Engine(Targets[k]))
               /\ step[<<k, list>>] \in V /\ Len(step[<<k, list>>]) =< Len(list) + 1
    <2>1. step[<<k, list>>] = IF loaded[Targets[k]] = 0 THEN list ELSE Append(list, Engine(Targets[k]))
      OBVIOUS
    <2>2. PICK e : e = Engine(Targets[k])
      OBVIOUS
    <2>3. ASSUME loaded[Targets[k]] # 0 PROVE e \in Known
      <3>1. Targets[k] \in ToSet(Targets)
        BY TargetsAre
      <3> QED BY <2>2, <2>3, <3>1, LoadedIsKnown DEF Engine
    <2>4. Len(list) \in Nat /\ \A x \in Known : Append(list, x) \in Seq(Known) /\ Len(Append(list, x)) = Len(list) + 1
      OBVIOUS
    <2> HIDE DEF step
    <2> QED BY <2>1, <2>2, <2>3, <2>4
  <1>2. step \in [(1..TargetCount) \X V -> V]
    <2>1. step = [kv \in (1..TargetCount) \X V |-> step[kv]]
      OBVIOUS
    <2>2. \A kv \in (1..TargetCount) \X V : step[kv] \in V
      <3> SUFFICES ASSUME NEW kv \in (1..TargetCount) \X V PROVE step[kv] \in V
        OBVIOUS
      <3>1. PICK k \in 1..TargetCount, list \in V : kv = <<k, list>>
        OBVIOUS
      <3> HIDE DEF step
      <3> QED BY <1>1, <3>1
    <2> HIDE DEF step
    <2> QED BY <2>1, <2>2
  <1>3. PICK h : Recurses(h, TargetCount, V, << >>, step)
    <2>1. << >> \in V /\ TargetCount \in Nat
      BY TargetsAre
    <2> HIDE DEF step, V
    <2> QED BY <1>2, <2>1, Recursion
  <1>4. /\ h \in [0..TargetCount -> V] /\ h[0] = << >>
        /\ \A k \in 1..TargetCount : h[k] = IF loaded[Targets[k]] = 0 THEN h[k - 1]
                                            ELSE Append(h[k - 1], Engine(Targets[k]))
    <2>1. h \in [0..TargetCount -> V] /\ h[0] = << >> /\ \A k \in 1..TargetCount : h[k] = step[<<k, h[k - 1]>>]
      BY <1>3 DEF Recurses
    <2>2. ASSUME NEW k \in 1..TargetCount
          PROVE  h[k] = IF loaded[Targets[k]] = 0 THEN h[k - 1] ELSE Append(h[k - 1], Engine(Targets[k]))
      <3>1. k - 1 \in 0..TargetCount
        BY TargetsAre
      <3>2. PICK list \in V : list = h[k - 1]
        BY <2>1, <3>1
      <3> HIDE DEF step
      <3> QED BY <1>1, <2>1, <3>2
    <2> QED BY <2>1, <2>2
  <1> DEFINE IsDetected(f) == f = [k \in 0..Len(Targets) |->
                                    IF k = 0 THEN << >>
                                    ELSE IF loaded[Targets[k]] = 0 THEN f[k - 1]
                                    ELSE Append(f[k - 1], Engine(Targets[k]))]
  <1>5. IsDetected(h)
    <2> DEFINE g == [k \in 0..TargetCount |->
                        IF k = 0 THEN << >>
                        ELSE IF loaded[Targets[k]] = 0 THEN h[k - 1]
                        ELSE Append(h[k - 1], Engine(Targets[k]))]
    <2>1. ASSUME NEW k \in 0..TargetCount PROVE h[k] = g[k]
      <3>1. k = 0 \/ k \in 1..TargetCount
        BY TargetsAre
      <3> QED BY <1>4, <3>1
    <2>2. h = g
      BY <1>4, <2>1
    <2> QED BY <2>2 DEF TargetCount
  <1>6. PICK f : IsDetected(f) /\ Detected = f[Len(Targets)]
    <2>1. PICK f : f = CHOOSE x : IsDetected(x)
      OBVIOUS
    <2>2. Detected = f[Len(Targets)]
      BY <2>1 DEF Detected
    <2>3. IsDetected(f)
      <3> HIDE DEF IsDetected
      <3> QED BY <1>5, <2>1
    <2> QED BY <2>2, <2>3
  <1>7. /\ f[0] = << >>
        /\ \A k \in 1..TargetCount : f[k] = IF loaded[Targets[k]] = 0 THEN f[k - 1]
                                            ELSE Append(f[k - 1], Engine(Targets[k]))
    <2>1. f = [k \in 0..TargetCount |->
                 IF k = 0 THEN << >>
                 ELSE IF loaded[Targets[k]] = 0 THEN f[k - 1]
                 ELSE Append(f[k - 1], Engine(Targets[k]))]
      BY <1>6 DEF TargetCount
    <2>2. 0 \in 0..TargetCount /\ \A k \in 1..TargetCount : k \in 0..TargetCount /\ k # 0
      BY TargetsAre
    <2>3. f[0] = << >>
      BY <2>1, <2>2
    <2>4. ASSUME NEW k \in 1..TargetCount
          PROVE  f[k] = IF loaded[Targets[k]] = 0 THEN f[k - 1] ELSE Append(f[k - 1], Engine(Targets[k]))
      BY <2>1, <2>2
    <2> QED BY <2>3, <2>4
  <1> DEFINE G == {k \in Nat : k =< TargetCount => f[k] \in V /\ Len(f[k]) =< k}
  <1>8. 0 \in G
    <2>1. << >> \in V /\ Len(<< >>) = 0
      OBVIOUS
    <2>2. f[0] = << >>
      BY <1>7
    <2>3. f[0] \in V /\ Len(f[0]) = 0
      BY <2>1, <2>2, Zenon
    <2>4. 0 =< 0 /\ 0 \in Nat
      OBVIOUS
    <2> HIDE DEF V
    <2> QED BY <2>3, <2>4
  <1>9. ASSUME NEW k \in Nat, k \in G PROVE k + 1 \in G
    <2> SUFFICES ASSUME k + 1 =< TargetCount PROVE f[k + 1] \in V /\ Len(f[k + 1]) =< k + 1
      OBVIOUS
    <2>1. k + 1 \in 1..TargetCount /\ (k + 1) - 1 = k /\ k =< TargetCount
      BY TargetsAre
    <2>2. PICK list \in V : list = f[k] /\ Len(list) =< k
      BY <1>9, <2>1
    <2>3. f[k + 1] = step[<<k + 1, list>>]
      <3> HIDE DEF step
      <3> QED BY <1>1, <1>7, <2>1, <2>2
    <2>4. step[<<k + 1, list>>] \in V /\ Len(step[<<k + 1, list>>]) =< Len(list) + 1
      <3> HIDE DEF step
      <3> QED BY <1>1, <2>1
    <2>5. PICK new \in V : new = step[<<k + 1, list>>] /\ Len(new) =< Len(list) + 1
      <3> HIDE DEF step
      <3> QED BY <2>4
    <2>6. Len(new) \in Nat /\ Len(list) \in Nat
      OBVIOUS
    <2> HIDE DEF step
    <2> QED BY <2>2, <2>3, <2>5, <2>6
  <1>10. Nat \subseteq G
    <2> HIDE DEF G
    <2> QED BY <1>8, <1>9, NatInductionOnSet
  <1>11. TargetCount \in Nat
    BY TargetsAre
  <1> QED BY <1>6, <1>10, <1>11 DEF TargetCount

-----------------------------------------------------------------------------
(* The invariants.                                                         *)

\* What else TypeOK says.
Standing ==
    /\ loaded \in Loads
    /\ scan.at \in 0..(TargetCount + 1)
    /\ closed \in BOOLEAN
    /\ query.phase \in {"idle", "connecting", "reading", "parsing", "answered", "mocked", "refused"}

ServingInv == Standing /\ EnginesKnown /\ ParsedSoFar

LEMMA InitServing == Init => ServingInv
  <1> SUFFICES ASSUME Init PROVE ServingInv
    OBVIOUS
  <1>1. query.phase = "idle"
    BY DEF Init, NoQuery
  <1>2. scan = [at |-> 0, found |-> << >>] /\ scan.at = 0 /\ scan.found = << >>
    BY DEF Init, Asleep
  <1>3. TargetCount \in Nat
    BY TargetsAre
  <1>4. Standing
    <2>1. loaded \in Loads /\ closed = FALSE
      BY DEF Init
    <2>2. scan.at \in 0..(TargetCount + 1)
      BY <1>2, <1>3
    <2> QED BY <1>1, <2>1, <2>2 DEF Standing
  <1>5. EnginesKnown
    <2>1. Detected \in Seq(Known) /\ Len(Detected) =< Len(Targets)
      BY DetectedIsKnown DEF Init
    <2>2. << >> \in Seq(Known)
      OBVIOUS
    <2> QED BY <1>1, <1>2, <2>1, <2>2 DEF EnginesKnown, Init, Asleep
  <1>6. ParsedSoFar
    BY <1>1 DEF ParsedSoFar
  <1> QED BY <1>4, <1>5, <1>6 DEF ServingInv

\* The steps of a query that leave the engines alone.
LEMMA QueryStep ==
    ASSUME ServingInv, UNCHANGED <<loaded, detected_engines, scan, closed>>,
           query'.phase \in {"idle", "connecting", "reading", "parsing", "answered", "mocked", "refused"},
           query'.phase \in {"connecting", "reading", "parsing", "answered"} => query'.engine \in Known,
           query'.phase = "answered" => query'.receipt.tqw = query'.engine.tqw,
           ParsedSoFar'
    PROVE  ServingInv'
  <1>1. Standing'
    BY DEF ServingInv, Standing
  <1>2. EnginesKnown'
    BY DEF ServingInv, EnginesKnown, Asleep, Known
  <1> QED BY <1>1, <1>2 DEF ServingInv

\* The steps that leave the query alone.
LEMMA EngineStep ==
    ASSUME ServingInv, UNCHANGED query, loaded' \in Loads, closed' \in BOOLEAN,
           detected_engines' \in Seq(Known), Len(detected_engines') =< Len(Targets),
           scan' = [at |-> scan'.at, found |-> scan'.found], scan'.found \in Seq(Known),
           scan' = Asleep \/ Len(scan'.found) < scan'.at,
           scan'.at \in 0..(TargetCount + 1)
    PROVE  ServingInv'
  <1>1. Standing'
    BY DEF ServingInv, Standing
  <1>2. EnginesKnown'
    BY DEF ServingInv, EnginesKnown, Asleep, Known
  <1>3. ParsedSoFar'
    <2>1. PICK q : q = query /\ query' = q
      OBVIOUS
    <2> QED BY <2>1 DEF ServingInv, ParsedSoFar, Sent
  <1> QED BY <1>1, <1>2, <1>3 DEF ServingInv

LEMMA NextServing == ServingInv /\ [Next]_vars => ServingInv'
  <1> SUFFICES ASSUME ServingInv, [Next]_vars PROVE ServingInv'
    OBVIOUS
  <1>1. /\ loaded \in Loads /\ closed \in BOOLEAN
        /\ detected_engines \in Seq(Known) /\ Len(detected_engines) =< TargetCount
        /\ scan = [at |-> scan.at, found |-> scan.found] /\ scan.found \in Seq(Known)
        /\ scan = Asleep \/ Len(scan.found) < scan.at
        /\ scan.at \in 0..(TargetCount + 1)
    BY DEF ServingInv, Standing, EnginesKnown, TargetCount
  <1>2. /\ query.phase \in {"connecting", "reading", "parsing", "answered"} => query.engine \in Known
        /\ query.phase = "answered" => query.receipt.tqw = query.engine.tqw
        /\ ParsedSoFar
    BY DEF ServingInv, EnginesKnown
  <1>3. TargetCount \in Nat /\ TargetCount = Len(Targets)
    BY TargetsAre DEF TargetCount
  <1>4. CASE EngineMoves
    BY <1>1, <1>3, <1>4, EngineStep DEF EngineMoves
  <1>5. CASE ScanStarts
    <2>1. scan.at = 0 /\ scan' = [scan EXCEPT !.at = 1]
      BY <1>5 DEF ScanStarts
    <2>2. scan.found = << >>
      <3>1. Len(scan.found) \in Nat
        BY <1>1
      <3> QED BY <1>1, <2>1, <3>1 DEF Asleep
    <2>3. scan' = [at |-> 1, found |-> << >>]
      <3>1. scan = [at |-> 0, found |-> << >>]
        BY <1>1, <2>1, <2>2
      <3> QED BY <2>1, <3>1
    <2>4. scan'.at = 1 /\ scan'.found = << >> /\ Len(<< >>) = 0 /\ << >> \in Seq(Known)
      BY <2>3
    <2> QED BY <1>1, <1>3, <1>5, <2>3, <2>4, EngineStep DEF ScanStarts
  <1>6. CASE Probe
    <2>1. scan.at \in 1..TargetCount
      BY <1>6, TargetsAre DEF Probe
    <2>2. PICK e \in ToSet(Targets) : e = Targets[scan.at]
      BY <2>1, TargetsAre
    <2>3. PICK tqw \in {0, loaded[e]} :
              scan' = [at |-> scan.at + 1,
                       found |-> IF tqw = 0 THEN scan.found
                                 ELSE Append(scan.found, [url |-> e, tqw |-> tqw])]
      BY <1>6, <2>2 DEF Probe, probe_engine
    <2>4. PICK found : found = IF tqw = 0 THEN scan.found
                               ELSE Append(scan.found, [url |-> e, tqw |-> tqw])
      OBVIOUS
    <2>5. found \in Seq(Known) /\ Len(found) =< Len(scan.found) + 1
      <3>1. tqw # 0 => [url |-> e, tqw |-> tqw] \in Known
        BY <1>1, LoadedIsKnown
      <3>2. PICK x : x = [url |-> e, tqw |-> tqw]
        OBVIOUS
      <3>3. Len(scan.found) \in Nat
            /\ (x \in Known => Append(scan.found, x) \in Seq(Known) /\ Len(Append(scan.found, x)) = Len(scan.found) + 1)
        BY <1>1
      <3> QED BY <1>1, <2>4, <3>1, <3>2, <3>3
    <2>6. Len(scan.found) < scan.at /\ Len(scan.found) \in Nat /\ Len(found) \in Nat
      <3>1. scan # Asleep
        BY <2>1 DEF Asleep
      <3> QED BY <1>1, <2>5, <3>1
    <2>7. scan' = [at |-> scan.at + 1, found |-> found] /\ scan'.at = scan.at + 1 /\ scan'.found = found
      BY <2>3, <2>4
    <2>8. Len(found) < scan.at + 1 /\ scan.at + 1 \in 0..(TargetCount + 1)
      BY <1>3, <2>1, <2>5, <2>6
    <2> QED BY <1>1, <1>3, <1>6, <2>5, <2>7, <2>8, EngineStep DEF Probe
  <1>7. CASE ScanEnds
    <2>1. /\ scan.at > TargetCount /\ detected_engines' = scan.found
          /\ scan' = Asleep /\ UNCHANGED <<loaded, closed, query>>
      BY <1>3, <1>7 DEF ScanEnds
    <2>2. Len(scan.found) < scan.at /\ Len(scan.found) \in Nat
      <3>1. scan # Asleep
        BY <1>3, <2>1 DEF Asleep
      <3> QED BY <1>1, <3>1
    <2>3. Len(scan.found) =< TargetCount
      BY <1>1, <1>3, <2>2
    <2>4. scan' = [at |-> 0, found |-> << >>] /\ scan'.at = 0 /\ scan'.found = << >> /\ << >> \in Seq(Known)
      BY <2>1 DEF Asleep
    <2> QED BY <1>1, <1>3, <2>1, <2>3, <2>4, EngineStep
  <1>8. CASE Close
    BY <1>1, <1>3, <1>8, EngineStep DEF Close
  <1>9. CASE Start
    <2>1. query'.phase = "mocked" \/ (query'.phase = "connecting" /\ query'.engine \in Known)
      <3>1. CASE detected_engines = << >>
        BY <1>9, <3>1 DEF Start
      <3>2. CASE detected_engines # << >>
        <4>1. Head(detected_engines) \in Known
          BY <1>1, <3>2
        <4> QED BY <1>9, <3>2, <4>1 DEF Start
      <3> QED BY <3>1, <3>2
    <2>2. ParsedSoFar'
      BY <2>1 DEF ParsedSoFar
    <2> QED BY <1>9, <2>1, <2>2, QueryStep DEF Start
  <1>10. ASSUME NEW body \in Bodies, Accept(body) PROVE ServingInv'
    <2>1. query'.phase = "reading" /\ query'.engine = query.engine /\ query.phase = "connecting"
      BY <1>10 DEF Accept, Becomes
    <2>2. ParsedSoFar'
      BY <1>10, AcceptParsed
    <2> QED BY <1>2, <1>10, <2>1, <2>2, QueryStep DEF Accept, Becomes
  <1>11. ASSUME NEW n, Chunk(n) PROVE ServingInv'
    <2>1. query.phase = "reading" /\ Shape(query)
      BY <1>2, <1>11, ParsedIs DEF Chunk, ParsedSoFar
    <2>2. PICK buffer, split : /\ buffer = query.buffer \o Lossy(SubSeq(query.body, query.received + 1, n))
                               /\ split = query.split \cup Cut(query.body, n)
      OBVIOUS
    <2>3. query' = Progress(query, "parsing", n, split, buffer, query.text, query.tokens)
      <3>1. query' = [query EXCEPT !.phase = "parsing", !.received = n, !.split = split, !.buffer = buffer]
        BY <1>11, <2>2, Zenon DEF Chunk, Becomes
      <3>2. [query EXCEPT !.phase = "parsing", !.received = n, !.split = split, !.buffer = buffer]
              = Progress(query, "parsing", n, split, buffer, query.text, query.tokens)
        BY <2>1, ChunkStep
      <3> QED BY <3>1, <3>2, Zenon
    <2>4. query'.phase = "parsing" /\ query'.engine = query.engine
      BY <2>3 DEF Progress
    <2>5. ParsedSoFar'
      BY <1>2, <1>11, ChunkParsed
    <2> QED BY <1>2, <1>11, <2>1, <2>4, <2>5, QueryStep DEF Chunk, Becomes
  <1>12. CASE Refuse
    <2>1. query'.phase = "refused"
      BY <1>12 DEF Refuse, Becomes
    <2>2. ParsedSoFar'
      BY <2>1 DEF ParsedSoFar
    <2> QED BY <1>12, <2>1, <2>2, QueryStep DEF Refuse, Becomes
  <1>13. CASE Parse
    <2>1. query.phase = "parsing" /\ Shape(query)
      BY <1>2, <1>13, ParsedIs DEF Parse, ParsedSoFar
    <2>2. query'.phase \in {"reading", "parsing"} /\ query'.engine = query.engine
      <3>2. PICK content : \/ query' = [query EXCEPT !.phase = "reading"]
                           \/ query' = [Drain(query) EXCEPT !.phase = "reading"]
                           \/ query' = Deliver(Drain(query), content)
        BY <1>13, Zenon DEF Parse, Becomes
      <3>3. CASE query' = [query EXCEPT !.phase = "reading"]
        <4>1. query' = Progress(query, "reading", query.received, query.split, query.buffer, query.text, query.tokens)
          BY <2>1, <3>3, Steps
        <4> QED BY <4>1 DEF Progress
      <3>4. CASE query' = [Drain(query) EXCEPT !.phase = "reading"]
        <4>1. query' = Progress(query, "reading", query.received, query.split, Rest(query.buffer), query.text,
                                query.tokens)
          BY <2>1, <3>4, Steps
        <4> QED BY <4>1 DEF Progress
      <3>5. CASE query' = Deliver(Drain(query), content) /\ content = << >>
        <4>1. query' = Progress(query, "parsing", query.received, query.split, Rest(query.buffer), query.text,
                                query.tokens)
          BY <2>1, <3>5, Steps
        <4> QED BY <4>1 DEF Progress
      <3>6. CASE query' = Deliver(Drain(query), content) /\ content # << >>
        <4>1. PICK text, tokens : /\ text = Append(query.text, content)
                                  /\ tokens = query.tokens + estimate_token_count(content)
          OBVIOUS
        <4>2. query' = Progress(query, query.phase, query.received, query.split, Rest(query.buffer),
                                Append(query.text, content), query.tokens + estimate_token_count(content))
          <5>1. Deliver(Drain(query), content)
                  = Progress(query, query.phase, query.received, query.split, Rest(query.buffer),
                             Append(query.text, content), query.tokens + estimate_token_count(content))
            BY <2>1, <3>6, Steps
          <5> QED BY <3>6, <5>1, Zenon
        <4>3. query' = Progress(query, "parsing", query.received, query.split, Rest(query.buffer), text, tokens)
          BY <2>1, <4>1, <4>2, Zenon
        <4> QED BY <4>3 DEF Progress
      <3> QED BY <3>2, <3>3, <3>4, <3>5, <3>6
    <2>3. ParsedSoFar'
      BY <1>2, <1>13, ParseParsed
    <2> QED BY <1>2, <1>13, <2>1, <2>2, <2>3, QueryStep DEF Parse, Becomes
  <1>14. CASE StreamEnds
    <2>1. /\ query.phase = "reading" /\ query'.phase = "answered" /\ query'.engine = query.engine
          /\ query'.receipt.tqw = query.engine.tqw
      BY <1>14 DEF StreamEnds, Becomes
    <2>2. ParsedSoFar'
      BY <1>2, <1>14, StreamEndsParsed
    <2> QED BY <1>2, <1>14, <2>1, <2>2, QueryStep DEF StreamEnds, Becomes
  <1>15. CASE Respond
    <2>1. query'.phase = "idle"
      BY <1>15 DEF Respond, Becomes, NoQuery
    <2>2. ParsedSoFar'
      BY <2>1 DEF ParsedSoFar
    <2> QED BY <1>15, <2>1, <2>2, QueryStep DEF Respond, Becomes
  <1>16. CASE Invalid
    <2>1. query'.phase = "refused"
      BY <1>16 DEF Invalid
    <2>2. ParsedSoFar'
      BY <2>1 DEF ParsedSoFar
    <2> QED BY <1>16, <2>1, <2>2, QueryStep DEF Invalid
  <1>17. CASE UNCHANGED vars
    BY <1>1, <1>3, <1>17, EngineStep DEF vars
  <1> QED BY <1>4, <1>5, <1>6, <1>7, <1>8, <1>9, <1>10, <1>11, <1>12, <1>13, <1>14, <1>15, <1>16,
         <1>17
      DEF Next, Serving

LEMMA ServingInvariance == Spec => []ServingInv
  BY InitServing, NextServing, PTL DEF Spec

\* The cache and the list of a running scan hold no more engines than there are targets,
\* each at a weight of one of its models, whenever engines move and however late they answer.
THEOREM ServingTypeOK == Spec => []TypeOK
  <1>1. ServingInv => TypeOK
    <2> SUFFICES ASSUME ServingInv PROVE TypeOK
      OBVIOUS
    <2>1. TargetCount \in Nat /\ TargetCount = Len(Targets)
      BY TargetsAre DEF TargetCount
    <2>2. Standing /\ EnginesKnown
      BY DEF ServingInv
    <2>3. detected_engines \in Seq(Known) /\ scan.found \in Seq(Known)
          /\ Len(detected_engines) =< Len(Targets) /\ Len(scan.found) =< Len(Targets)
      <3>1. Len(scan.found) =< Len(Targets)
        <4>1. CASE scan = Asleep
          <5>1. scan.found = << >> /\ Len(<< >>) = 0
            BY <4>1 DEF Asleep
          <5> QED BY <2>1, <5>1
        <4>2. CASE Len(scan.found) < scan.at
          <5>1. Len(scan.found) \in Nat /\ scan.at \in 0..(TargetCount + 1)
            BY <2>2 DEF EnginesKnown, Standing
          <5> QED BY <2>1, <4>2, <5>1
        <4> QED BY <2>2, <4>1, <4>2 DEF EnginesKnown
      <3> QED BY <2>2, <3>1 DEF EnginesKnown
    <2>4. ASSUME NEW list \in Seq(Known), NEW i \in DOMAIN list
          PROVE  list[i].url \in ToSet(Targets) /\ list[i].tqw \in Offers[list[i].url]
      <3>1. list[i] \in Known
        OBVIOUS
      <3> QED BY <3>1 DEF Known
    <2> QED BY <2>1, <2>2, <2>3, <2>4 DEF TypeOK, Standing
  <1> QED BY <1>1, ServingInvariance, PTL

\* A query is billed at a weight of the engine that answered it, although scans replace
\* the cache while the answer streams.
THEOREM ServingPricedByServingEngine == Spec => []PricedByServingEngine
  <1>1. ServingInv => PricedByServingEngine
    BY DEF ServingInv, EnginesKnown, Known, PricedByServingEngine
  <1> QED BY <1>1, ServingInvariance, PTL

\* However the bytes of an engine are cut into chunks, and wherever its stream breaks
\* off, the text that is answered is every whole line that arrived, once and in order,
\* and nothing but the characters that a chunk has cut is replaced in it.
THEOREM ServingTextIsWholeLines == Spec => []TextIsWholeLines
  <1>1. ServingInv => TextIsWholeLines
    <2> SUFFICES ASSUME ServingInv PROVE TextIsWholeLines
      OBVIOUS
    <2>1. ASSUME query.phase \in {"reading", "parsing"} PROVE IsPrefix(query.text, Sent)
      <3>1. PICK d : IsParsed(Decoded(query.body, query.split), query.received, query.buffer, query.text, d)
        BY <2>1, ParsedIs DEF ServingInv, ParsedSoFar, IsQuery
      <3> QED BY <3>1, PrefixIsParsed DEF Sent
    <2>2. query.phase = "answered" => query.text = Sent
      BY DEF ServingInv, ParsedSoFar
    <2> QED BY <2>1, <2>2 DEF TextIsWholeLines
  <1> QED BY <1>1, ServingInvariance, PTL

\* The receipt of an answer bills the token count of each content that arrived on a whole
\* line, as it was read, and the characters that a chunk has cut never add to the bill.
THEOREM ServingBilledIsSent == Spec => []BilledIsSent
  <1>1. ServingInv => BilledIsSent
    <2> SUFFICES ASSUME ServingInv, query.phase = "answered" PROVE BilledIsSent
      BY DEF BilledIsSent
    <2>1. /\ query.body \in Bodies /\ query.received \in 0..Len(query.body)
          /\ IsSplit(query.body, query.received, query.split)
          /\ query.receipt.tokens = Bill(query.text) /\ query.text = Sent
      BY DEF ServingInv, ParsedSoFar
    <2>2. Bill(Sent) =< Bill(Uncut)
      BY <2>1, CutCostsNothing DEF Sent, Uncut
    <2>3. query.receipt.tokens = Bill(Sent)
      BY <2>1
    <2> QED BY <2>2, <2>3 DEF BilledIsSent
  <1> QED BY <1>1, ServingInvariance, PTL
=============================================================================
