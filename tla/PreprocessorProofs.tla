------------------------- MODULE PreprocessorProofs -------------------------
(***************************************************************************)
(* What so-cpp guarantees for every set of symbols, lines, arguments and   *)
(* files: the C stack is the stack of open conditionals, lines follow it,  *)
(* symbols are replaced, and defineMap closes no ring of definitions.  The *)
(* table is that of hashmap.c, of which HashTableProofs says what the      *)
(* proofs need.                                                            *)
(***************************************************************************)
EXTENDS Preprocessor, HashTableProofs, FunctionTheorems, SequenceTheorems

-----------------------------------------------------------------------------
(***************************************************************************)
(* The inductive invariant                                                 *)
(***************************************************************************)
Group == [kind : Opening, live : BOOLEAN, taken : BOOLEAN, chosen : BOOLEAN, last : BOOLEAN]
Chase == [key : Key, words : Seq(Word), text : Text, at : Nat, cur : Text \cup {NULL}]

\* Every variable has its type, and a #define is resolved only while the program runs.
Types ==
  /\ TypeOK
  /\ groups \in Seq(Group)
  /\ {plain, unresolved, hidden} \subseteq BOOLEAN
  /\ chase # NULL => chase \in Chase /\ pc = "run"
  /\ pc = "args" => stack = <<>>
  /\ pc = "run" => stack # <<>>

IsFile(s, j) == s[j].fn = "parseFile"

\* A file begins in the conditionals of those that include it.
BasesOf(s, n) ==
  \A j \in 1..Len(s) : IsFile(s, j) =>
    s[j].base <= n /\ \A k \in j..Len(s) : IsFile(s, k) => s[j].base <= s[k].base

\* How many of the first j calls of s are of ifelse or ifdef.
Calls(s, j) == Cardinality({k \in 1..j : ~IsFile(s, k)})

\* What a call of ifelse or ifdef knows of its group.
Matches(f, g) ==
  /\ Copying(f) = g.taken
  /\ (f.fn = "ifelse") = (g.kind = "if")
  /\ f.fn = "ifelse" => g.chosen = f.cond /\ (f.done => f.cond)
  /\ (f.fn = "ifdef" /\ ~g.last) => g.chosen = f.cond

\* What the j-th call of the stack s knows of the groups g.
Fits(s, g, j) ==
  IF IsFile(s, j)
  THEN s[j].base = Calls(s, j) /\ (Calls(s, j) # 0 => g[Calls(s, j)].taken)
  ELSE Matches(s[j], g[Calls(s, j)])

\* The calls of the stack s are the groups g, all but the innermost of them taken.
Nested(s, g) ==
  /\ Calls(s, Len(s)) = Len(g)
  /\ \A j \in 1..Len(s) : Fits(s, g, j)
  /\ \A i \in 1..Len(g) : g[i].live /\ (i # Len(g) => g[i].taken)

HasBlank(text) == \E i \in 1..Len(text) : text[i] = Blank

Symbols == {k \in Key : Defined(k)}

\* A value of several words keeps a blank, so it will not be a symbol; one of a single
\* word is that word until the word is replaced by what is not in the set D of symbols.
Produced(c, D) ==
  /\ c.words # <<>> /\ c.at \in 1..Len(c.words) + 1
  /\ c.cur # NULL => c.at <= Len(c.words) /\ c.words[c.at] \in D
  /\ Len(c.words) # 1 => HasBlank(c.text)
  /\ Len(c.words) = 1 /\ c.at = 1 => c.text = c.words[1]
  /\ Len(c.words) = 1 /\ c.at = 2 => c.text \notin D

Values(m) == [k \in Key |-> Get(m, k)]

\* Some symbol of every set of symbols leads out of it, or is defined as itself.
RingFree(f) == \A S \in (SUBSET Key) \ {{}} : \E a \in S : \A b \in S \ {a} : f[a] # b

\* The table always has room for insert, and its searches find what is in it until an
\* #undef breaks one.
IInv ==
  /\ Types
  /\ BasesOf(stack, Len(groups))
  /\ plain => Nested(stack, groups)
  /\ Roomy(map) /\ (~hidden => Sound(map))
  /\ chase # NULL => Produced(chase, Symbols)
  /\ NoRingOfSeveral

-----------------------------------------------------------------------------
(***************************************************************************)
(* Sequences                                                               *)
(***************************************************************************)
\* A set of indices that begins at 0 and never stops holds all of them.
LEMMA Steps ==
  ASSUME NEW n \in Nat, NEW T, 0 \in T, \A i \in 1..n : i - 1 \in T => i \in T
  PROVE  \A i \in 0..n : i \in T
  <1> DEFINE Bad == {j \in 0..n : j \notin T}
  <1>1. SUFFICES ASSUME Bad # {} PROVE FALSE
    OBVIOUS
  <1>2. PICK j \in Bad : \A e \in Bad : ~(e < j)
    <2>1. Bad \in SUBSET Nat
      OBVIOUS
    <2> HIDE DEF Bad
    <2> QED
      BY <1>1, <2>1, Least
  <1>3. j \in 1..n /\ j - 1 \in 0..n /\ j - 1 < j
    BY <1>2
  <1> QED
    BY <1>2, <1>3

\* A part of a sequence.
LEMMA Part ==
  ASSUME NEW S, NEW s \in Seq(S), NEW m \in Nat, NEW n \in Nat, m >= 1, m <= n + 1, n <= Len(s)
  PROVE  /\ SubSeq(s, m, n) \in Seq(S) /\ Len(SubSeq(s, m, n)) = n - m + 1
         /\ \A i \in 1..n-m+1 : SubSeq(s, m, n)[i] = s[m+i-1]
  <1>1. \A i \in m..n : s[i] \in S
    OBVIOUS
  <1>2. CASE m <= n
    BY <1>1, <1>2, SubSeqProperties
  <1>3. CASE ~(m <= n)
    <2>1. m \in Int /\ n \in Int /\ n - m + 1 = 0
      BY <1>3
    <2> QED
      BY <1>1, <1>3, <2>1, SubSeqProperties
  <1> QED
    BY <1>2, <1>3

\* One sequence after another.
LEMMA Both ==
  ASSUME NEW S, NEW a \in Seq(S), NEW b \in Seq(S), NEW t, t = a \o b
  PROVE  /\ t \in Seq(S) /\ Len(t) = Len(a) + Len(b) /\ Len(a) \in Nat /\ Len(b) \in Nat
         /\ \A i \in 1..Len(a) : t[i] = a[i]
         /\ \A i \in 1..Len(b) : t[Len(a)+i] = b[i]
  <1>1. /\ t \in Seq(S) /\ Len(t) = Len(a) + Len(b) /\ Len(a) \in Nat /\ Len(b) \in Nat
        /\ \A i \in 1..Len(a)+Len(b) : t[i] = IF i <= Len(a) THEN a[i] ELSE b[i - Len(a)]
    BY ConcatProperties
  <1>2. ASSUME NEW i \in 1..Len(a) PROVE t[i] = a[i]
    <2>1. i \in 1..Len(a)+Len(b) /\ i <= Len(a)
      BY <1>1
    <2> QED
      BY <1>1, <2>1
  <1>3. ASSUME NEW i \in 1..Len(b) PROVE t[Len(a)+i] = b[i]
    <2>1. Len(a) + i \in 1..Len(a)+Len(b) /\ ~(Len(a) + i <= Len(a)) /\ Len(a) + i - Len(a) = i
      BY <1>1
    <2>2. t[Len(a)+i] = b[Len(a) + i - Len(a)]
      BY <1>1, <2>1
    <2> QED
      BY <2>1, <2>2, Zenon
  <1> QED
    BY <1>1, <1>2, <1>3

\* One text after another.
LEMMA TextBoth ==
  ASSUME NEW a \in Text, NEW b \in Text
  PROVE  LET t == a \o b IN
         /\ t \in Text /\ Len(t) = Len(a) + Len(b) /\ Len(a) \in Nat /\ Len(b) \in Nat
         /\ \A i \in 1..Len(a) : t[i] = a[i]
         /\ \A i \in 1..Len(b) : t[Len(a)+i] = b[i]
  BY Both DEF Text

\* The two parts of a sequence.
LEMMA PartsOf ==
  ASSUME NEW S, NEW a \in Seq(S), NEW b \in Seq(S), NEW t, t = a \o b
  PROVE  SubSeq(t, 1, Len(a)) = a /\ SubSeq(t, Len(a) + 1, Len(t)) = b
  <1>1. /\ t \in Seq(S) /\ Len(t) = Len(a) + Len(b) /\ Len(a) \in Nat /\ Len(b) \in Nat
        /\ \A i \in 1..Len(a) : t[i] = a[i]
        /\ \A i \in 1..Len(b) : t[Len(a)+i] = b[i]
    BY Both
  <1>2. SubSeq(t, 1, Len(a)) = a
    <2>1. PICK p : p = SubSeq(t, 1, Len(a))
      OBVIOUS
    <2>2. 1 \in Nat /\ 1 >= 1 /\ 1 <= Len(a) + 1 /\ Len(a) <= Len(t) /\ Len(a) - 1 + 1 = Len(a)
      BY <1>1
    <2>3. p \in Seq(S) /\ Len(p) = Len(a) - 1 + 1 /\ \A i \in 1..Len(a)-1+1 : p[i] = t[1+i-1]
      BY <1>1, <2>1, <2>2, Part
    <2>4. ASSUME NEW i \in 1..Len(a) PROVE p[i] = a[i]
      <3>1. i \in 1..Len(a)-1+1 /\ 1 + i - 1 = i
        BY <1>1
      <3> QED
        BY <1>1, <2>3, <3>1
    <2> QED
      BY <2>1, <2>2, <2>3, <2>4, SeqEqual
  <1>3. SubSeq(t, Len(a) + 1, Len(t)) = b
    <2>1. PICK p, m : p = SubSeq(t, m, Len(t)) /\ m = Len(a) + 1
      OBVIOUS
    <2>2. /\ m \in Nat /\ m >= 1 /\ m <= Len(t) + 1 /\ Len(t) \in Nat /\ Len(t) <= Len(t)
          /\ Len(t) - m + 1 = Len(b)
      BY <1>1, <2>1
    <2>3. p \in Seq(S) /\ Len(p) = Len(t) - m + 1 /\ \A i \in 1..Len(t)-m+1 : p[i] = t[m+i-1]
      BY <1>1, <2>1, <2>2, Part
    <2>4. ASSUME NEW i \in 1..Len(b) PROVE p[i] = b[i]
      <3>1. i \in 1..Len(t)-m+1 /\ m + i - 1 = Len(a) + i
        BY <1>1, <2>1, <2>2
      <3> QED
        BY <1>1, <2>3, <3>1
    <2> QED
      BY <2>1, <2>2, <2>3, <2>4, SeqEqual
  <1> QED
    BY <1>2, <1>3

-----------------------------------------------------------------------------
(***************************************************************************)
(* Words and texts                                                         *)
(***************************************************************************)
\* A word is a text without blanks.
LEMMA WordIs ==
  ASSUME NEW w \in Word
  PROVE  /\ w \in Text /\ Len(w) \in Nat /\ Len(w) >= 1
         /\ \A i \in 1..Len(w) : w[i] # Blank
  <1>1. w \in Seq(Char) /\ w # <<>>
    BY DEF Word
  <1>2. Len(w) \in Nat /\ Len(w) # 0 /\ \A i \in 1..Len(w) : w[i] \in Char
    BY <1>1
  <1>3. w \in Text
    BY <1>1 DEF Text
  <1> QED
    BY <1>2, <1>3, PreprocessorAssumption

\* get finds a text, and that only for a symbol.
LEMMA LookupIs ==
  ASSUME TableOK(map, Text), Roomy(map), NEW t
  PROVE  /\ Lookup(t) \in Text \cup {NULL}
         /\ Lookup(t) # NULL => t \in Key /\ Lookup(t) \in Text
         /\ Defined(t) <=> Lookup(t) # NULL
  <1>1. CASE t \notin Key
    BY <1>1 DEF Lookup, Defined
  <1>2. CASE t \in Key
    <2>1. Found(map, t) \in 0..map.size-1
      BY <1>2, FoundOK, PreprocessorAssumption DEF Roomy
    <2>2. map.elem[Found(map, t)] \in Elem(Text) \cup {NullElem}
      BY <2>1 DEF TableOK
    <2>3. Get(map, t) \in Text \cup {NULL}
      BY <2>2 DEF Get, Elem, NullElem
    <2> QED
      BY <1>2, <2>3 DEF Lookup, Defined
  <1> QED
    BY <1>1, <1>2

\* Three texts, one after another.
LEMMA TextAssociative ==
  ASSUME NEW a \in Text, NEW b \in Text, NEW c \in Text
  PROVE  (a \o b) \o c = a \o (b \o c)
  BY ConcatAssociative DEF Text

\* The two parts of a text.
LEMMA TextParts ==
  ASSUME NEW a \in Text, NEW b \in Text
  PROVE  LET t == a \o b IN SubSeq(t, 1, Len(a)) = a /\ SubSeq(t, Len(a) + 1, Len(t)) = b
  BY PartsOf DEF Text

\* Where a key first occurs.
LEMMA FirstIs ==
  ASSUME NEW text, NEW key, NEW i \in 1..Len(text), Len(text) \in Nat,
         Occurs(key, text, i), \A j \in 1..i-1 : ~Occurs(key, text, j)
  PROVE  Inside(key, text) /\ First(key, text) = i
  <1> DEFINE c == CHOOSE x \in 1..Len(text) : Occurs(key, text, x) /\ \A j \in 1..x-1 : ~Occurs(key, text, j)
  <1>1. c \in 1..Len(text) /\ Occurs(key, text, c) /\ \A j \in 1..c-1 : ~Occurs(key, text, j)
    OBVIOUS
  <1>2. c = i
    <2> HIDE DEF c
    <2> QED
      BY <1>1
  <1> QED
    BY <1>2 DEF First, Inside

\* A key that occurs has a first occurrence.
LEMMA FirstExists ==
  ASSUME NEW text, NEW key, Len(text) \in Nat, Inside(key, text)
  PROVE  \E i \in 1..Len(text) : Occurs(key, text, i) /\ \A j \in 1..i-1 : ~Occurs(key, text, j)
  <1> DEFINE T == {i \in 1..Len(text) : Occurs(key, text, i)}
  <1>1. T \in SUBSET Nat /\ T # {}
    BY DEF Inside
  <1>2. PICK i \in T : \A e \in T : ~(e < i)
    <2> HIDE DEF T
    <2> QED
      BY <1>1, Least
  <1>3. ASSUME NEW j \in 1..i-1 PROVE ~Occurs(key, text, j)
    <2>1. j \in 1..Len(text) /\ j < i
      BY <1>2
    <2> QED
      BY <1>2, <2>1
  <1> QED
    BY <1>2, <1>3

\* A word between two texts, and a value in its place.
Lay(a, w, b) == a \o (w \o b)
Laid(a, v, b) == (a \o v) \o b

\* The parts of a text before and after a key at i.
Before(text, i) == SubSeq(text, 1, i-1)
After(text, key, i) == SubSeq(text, i + Len(key), Len(text))

\* Replacing a key that occurs first at i.
LEMMA ReplaceAt ==
  ASSUME NEW text \in Text, NEW key \in Word, NEW value \in Text,
         NEW i \in 1..Len(text), Occurs(key, text, i), \A j \in 1..i-1 : ~Occurs(key, text, j)
  PROVE  /\ Before(text, i) \in Text /\ After(text, key, i) \in Text
         /\ Len(Before(text, i)) = i - 1
         /\ Len(After(text, key, i)) = Len(text) + 1 - (i + Len(key))
         /\ \A k \in 1..i-1 : Before(text, i)[k] = text[k]
         /\ \A k \in 1..Len(After(text, key, i)) : After(text, key, i)[k] = text[i + Len(key) + k - 1]
         /\ Replace(text, key, value) = Laid(Before(text, i), value, After(text, key, i))
  <1>1. Len(text) \in Nat /\ i \in Nat /\ Len(key) \in Nat /\ i + Len(key) <= Len(text) + 1
    BY WordIs DEF Text, Occurs
  <1>2. Inside(key, text) /\ First(key, text) = i
    BY <1>1, FirstIs
  <1>3. Replace(text, key, value)
          = (SubSeq(text, 1, i-1) \o value) \o SubSeq(text, i + Len(key), Len(text))
    BY <1>2 DEF Replace
  <1>4. PICK a, b, m, n, L : a = SubSeq(text, 1, n) /\ b = SubSeq(text, m, L)
                             /\ n = i - 1 /\ m = i + Len(key) /\ L = Len(text)
    OBVIOUS
  <1>5. /\ n \in Nat /\ m \in Nat /\ L \in Nat /\ 1 <= n + 1 /\ n <= L /\ m >= 1 /\ m <= L + 1
        /\ n - 1 + 1 = n /\ L - m + 1 = L + 1 - m
    BY <1>1, <1>4
  <1>6. a \in Text /\ Len(a) = n /\ \A k \in 1..n : a[k] = text[k]
    <2>1. a \in Text /\ Len(a) = n - 1 + 1 /\ \A k \in 1..n-1+1 : a[k] = text[1+k-1]
      BY <1>4, <1>5, Part DEF Text
    <2>2. ASSUME NEW k \in 1..n PROVE a[k] = text[k]
      <3>1. k \in 1..n-1+1 /\ 1+k-1 = k
        BY <1>5
      <3> QED
        BY <2>1, <3>1
    <2> QED
      BY <1>5, <2>1, <2>2
  <1>7. b \in Text /\ Len(b) = L - m + 1 /\ \A k \in 1..L-m+1 : b[k] = text[m+k-1]
    <2>1. PICK S : Text = Seq(S)
      BY DEF Text
    <2>2. text \in Seq(S) /\ L <= Len(text)
      BY <1>1, <1>4, <2>1
    <2>3. /\ SubSeq(text, m, L) \in Seq(S) /\ Len(SubSeq(text, m, L)) = L - m + 1
          /\ \A k \in 1..L-m+1 : SubSeq(text, m, L)[k] = text[m+k-1]
      BY <1>5, <2>2, Part
    <2> QED
      BY <1>4, <2>1, <2>3, Zenon
  <1>8. Replace(text, key, value) = Laid(a, value, b)
    BY <1>3, <1>4, Zenon DEF Laid
  <1>9. a = Before(text, i) /\ b = After(text, key, i)
    BY <1>4, Zenon DEF Before, After
  <1>10. /\ a \in Text /\ b \in Text /\ Len(a) = i - 1 /\ Len(b) = Len(text) + 1 - (i + Len(key))
         /\ \A k \in 1..i-1 : a[k] = text[k]
         /\ \A k \in 1..Len(b) : b[k] = text[i + Len(key) + k - 1]
    BY <1>4, <1>5, <1>6, <1>7
  <1> QED
    BY <1>8, <1>9, <1>10, Zenon

\* Replacing keeps a text a text, and a blank of it a blank.
LEMMA ReplaceType ==
  ASSUME NEW text \in Text, NEW key \in Word, NEW value \in Text
  PROVE  /\ Replace(text, key, value) \in Text
         /\ HasBlank(text) => HasBlank(Replace(text, key, value))
  <1>1. CASE ~Inside(key, text)
    BY <1>1 DEF Replace
  <1>2. CASE Inside(key, text)
    <2>1. Len(text) \in Nat
      BY DEF Text
    <2>2. PICK i \in 1..Len(text) : Occurs(key, text, i) /\ \A j \in 1..i-1 : ~Occurs(key, text, j)
      BY <1>2, <2>1, FirstExists
    <2>3. PICK a, b : a = Before(text, i) /\ b = After(text, key, i)
      OBVIOUS
    <2>4. /\ a \in Text /\ b \in Text /\ Len(a) = i - 1 /\ Len(b) = Len(text) + 1 - (i + Len(key))
          /\ \A k \in 1..i-1 : a[k] = text[k]
          /\ \A k \in 1..Len(b) : b[k] = text[i + Len(key) + k - 1]
          /\ Replace(text, key, value) = Laid(a, value, b)
      BY <2>2, <2>3, ReplaceAt
    <2>5. PICK d, t : d = a \o value /\ t = d \o b
      OBVIOUS
    <2>6. /\ d \in Text /\ Len(d) = Len(a) + Len(value) /\ Len(a) \in Nat /\ Len(value) \in Nat
          /\ \A k \in 1..Len(a) : d[k] = a[k]
      BY <2>4, <2>5, TextBoth
    <2>7. /\ t \in Text /\ Len(t) = Len(d) + Len(b) /\ Len(b) \in Nat
          /\ \A k \in 1..Len(d) : t[k] = d[k]
          /\ \A k \in 1..Len(b) : t[Len(d)+k] = b[k]
      <3>1. d \in Text /\ b \in Text /\ t = d \o b
        BY <2>4, <2>5, <2>6
      <3> QED
        BY <3>1, TextBoth, Zenon
    <2>8. ASSUME HasBlank(text) PROVE HasBlank(t)
      <3>1. PICK p : p \in 1..Len(text) /\ text[p] = Blank
        BY <2>8 DEF HasBlank
      <3>2. PICK n : n = Len(key) /\ n \in Nat /\ \A j \in 1..n : key[j] # Blank /\ text[i+j-1] = key[j]
        BY <2>2, WordIs DEF Occurs
      <3>3. p \in Nat /\ p >= 1 /\ p <= Len(text) /\ i \in Nat /\ i >= 1
        BY <2>1, <3>1
      <3>4. CASE p < i
        <4>1. p \in 1..i-1 /\ p \in 1..Len(a) /\ p \in 1..Len(d) /\ p \in 1..Len(t)
          BY <2>4, <2>6, <2>7, <3>3, <3>4
        <4>2. t[p] = Blank
          BY <2>4, <2>6, <2>7, <3>1, <4>1
        <4> QED
          BY <4>1, <4>2 DEF HasBlank
      <3>5. CASE p >= i + n
        <4>1. PICK k : k = p + 1 - (i + n)
          OBVIOUS
        <4>2. Len(b) = Len(text) + 1 - (i + n) /\ Len(t) = Len(d) + Len(b) /\ Len(d) \in Nat
          BY <2>4, <2>6, <2>7, <3>2
        <4>3. k \in 1..Len(b) /\ i + n + k - 1 = p /\ Len(d) + k \in 1..Len(t)
          BY <2>1, <3>2, <3>3, <3>5, <4>1, <4>2
        <4>4. b[k] = text[i + n + k - 1]
          BY <2>4, <3>2, <4>3
        <4>5. t[Len(d)+k] = Blank
          BY <2>7, <3>1, <4>3, <4>4
        <4> QED
          BY <4>3, <4>5 DEF HasBlank
      <3>6. CASE p >= i /\ p < i + n
        <4>1. PICK j : j = p - i + 1
          OBVIOUS
        <4>2. j \in 1..n /\ i + j - 1 = p
          BY <3>2, <3>3, <3>6, <4>1
        <4> QED
          BY <3>1, <3>2, <4>2
      <3> QED
        BY <3>2, <3>3, <3>4, <3>5, <3>6
    <2>9. Replace(text, key, value) = t
      BY <2>4, <2>5, Zenon DEF Laid
    <2> QED
      BY <2>7, <2>8, <2>9, Zenon
  <1> QED
    BY <1>1, <1>2

\* A word occurs in a text where it stands.
LEMMA StandsThere ==
  ASSUME NEW a \in Text, NEW w \in Word, NEW b \in Text
  PROVE  LET t == Lay(a, w, b) IN
         /\ t \in Text /\ Len(t) = Len(a) + Len(w) + Len(b)
         /\ Len(a) \in Nat /\ Len(w) \in Nat /\ Len(b) \in Nat
         /\ Len(a) + 1 \in 1..Len(t) /\ Occurs(w, t, Len(a) + 1)
         /\ SubSeq(t, 1, Len(a)) = a
         /\ SubSeq(t, Len(a) + 1 + Len(w), Len(t)) = b
  <1>0. PICK t : t = Lay(a, w, b)
    OBVIOUS
  <1>1. w \in Text /\ Len(w) \in Nat /\ Len(w) >= 1
    BY WordIs
  <1>2. PICK c : c = w \o b
    OBVIOUS
  <1>3. /\ c \in Text /\ Len(c) = Len(w) + Len(b) /\ Len(b) \in Nat
        /\ \A i \in 1..Len(w) : c[i] = w[i]
    BY <1>1, <1>2, TextBoth
  <1>4. /\ t \in Text /\ Len(t) = Len(a) + Len(c) /\ Len(a) \in Nat
        /\ \A i \in 1..Len(c) : t[Len(a)+i] = c[i]
    BY <1>0, <1>2, <1>3, TextBoth DEF Lay
  <1>5. Occurs(w, t, Len(a) + 1)
    <2>1. ASSUME NEW j \in 1..Len(w) PROVE t[Len(a)+1+j-1] = w[j]
      <3>1. j \in 1..Len(c) /\ Len(a)+1+j-1 = Len(a)+j
        BY <1>1, <1>3, <1>4
      <3> QED
        BY <1>3, <1>4, <3>1
    <2>2. Len(a) + 1 + Len(w) <= Len(t) + 1
      BY <1>1, <1>3, <1>4
    <2> QED
      BY <2>1, <2>2 DEF Occurs
  <1>6. SubSeq(t, 1, Len(a)) = a
    BY <1>0, <1>2, <1>3, TextParts DEF Lay
  <1>7. SubSeq(t, Len(a) + 1 + Len(w), Len(t)) = b
    <2>1. PICK d : d = a \o w
      OBVIOUS
    <2>2. d \in Text /\ Len(d) = Len(a) + Len(w)
      BY <1>1, <2>1, TextBoth
    <2>3. t = d \o b
      BY <1>0, <1>1, <2>1, TextAssociative DEF Lay
    <2>4. SubSeq(t, Len(d) + 1, Len(t)) = b
      BY <2>2, <2>3, TextParts
    <2>5. Len(d) + 1 = Len(a) + 1 + Len(w)
      BY <1>1, <1>4, <2>2
    <2> QED
      BY <2>4, <2>5, Zenon
  <1>8. Len(t) = Len(a) + Len(w) + Len(b) /\ Len(a) + 1 \in 1..Len(t)
    BY <1>1, <1>3, <1>4
  <1> QED
    BY <1>0, <1>1, <1>3, <1>4, <1>5, <1>6, <1>7, <1>8, Zenon

\* Replacing a word that occurs nowhere before its place replaces it there.
LEMMA ReplaceHere ==
  ASSUME NEW a \in Text, NEW w \in Word, NEW b \in Text, NEW v \in Text,
         \A k \in 1..Len(a) : ~Occurs(w, Lay(a, w, b), k)
  PROVE  Replace(Lay(a, w, b), w, v) = Laid(a, v, b)
  <1>1. PICK t : t = Lay(a, w, b)
    OBVIOUS
  <1>2. /\ t \in Text /\ Len(t) = Len(a) + Len(w) + Len(b)
        /\ Len(a) \in Nat /\ Len(w) \in Nat /\ Len(b) \in Nat
        /\ Len(a) + 1 \in 1..Len(t) /\ Occurs(w, t, Len(a) + 1)
        /\ SubSeq(t, 1, Len(a)) = a
        /\ SubSeq(t, Len(a) + 1 + Len(w), Len(t)) = b
    BY <1>1, StandsThere, Zenon
  <1>3. PICK i : i = Len(a) + 1
    OBVIOUS
  <1>4. i \in 1..Len(t) /\ i - 1 = Len(a) /\ Len(t) \in Nat
    BY <1>2, <1>3 DEF Text
  <1>5. Inside(w, t) /\ First(w, t) = i
    <2>1. Occurs(w, t, i) /\ \A j \in 1..i-1 : ~Occurs(w, t, j)
      BY <1>1, <1>2, <1>3, <1>4
    <2> QED
      BY <1>4, <2>1, FirstIs
  <1>6. Replace(t, w, v) = (SubSeq(t, 1, i-1) \o v) \o SubSeq(t, i + Len(w), Len(t))
    BY <1>5 DEF Replace
  <1> QED
    BY <1>1, <1>2, <1>3, <1>4, <1>6, Zenon DEF Laid

\* A word replaced by a value is the value.
LEMMA ReplaceWhole ==
  ASSUME NEW w \in Word, NEW v \in Text
  PROVE  Replace(w, w, v) = v
  <1>1. PICK e : e = <<>>
    OBVIOUS
  <1>2. w \in Text /\ e \in Text /\ Len(e) = 0
    BY <1>1, WordIs DEF Text
  <1>3. ASSUME NEW t \in Text PROVE t \o e = t /\ e \o t = t
    BY <1>1, ConcatEmptySeq DEF Text
  <1>4. Lay(e, w, e) = w /\ Laid(e, v, e) = v
    BY <1>2, <1>3 DEF Lay, Laid
  <1>5. \A k \in 1..Len(e) : ~Occurs(w, Lay(e, w, e), k)
    BY <1>2
  <1>6. Replace(Lay(e, w, e), w, v) = Laid(e, v, e)
    BY <1>2, <1>5, ReplaceHere
  <1> QED
    BY <1>4, <1>6, Zenon

-----------------------------------------------------------------------------
(***************************************************************************)
(* Words joined to a line                                                  *)
(***************************************************************************)
\* What stands before the i-th word of a line.
Gap(i) == IF i = 1 THEN <<>> ELSE <<Blank>>

\* Gaps and what follows them are texts.
LEMMA GapIs ==
  ASSUME NEW i
  PROVE  Gap(i) \in Text /\ <<>> \in Text /\ <<Blank>> \in Text
  <1>1. PICK S : Text = Seq(S) /\ Blank \in S
    BY DEF Text
  <1>2. <<>> \in Text /\ <<Blank>> \in Text
    BY <1>1
  <1> QED
    BY <1>2, Zenon DEF Gap

\* Some texts joined to one, text by text.
LEMMA JoinLoop ==
  ASSUME NEW texts, NEW n \in Nat, Len(texts) = n, \A i \in 1..n : texts[i] \in Text
  PROVE  \E j \in [0..n -> Text] :
           /\ j[0] = <<>>
           /\ \A i \in 1..n : j[i] = (j[i-1] \o Gap(i)) \o texts[i]
           /\ Join(texts) = j[n]
  <1> DEFINE Next1(t, i) == (t \o Gap(i)) \o texts[i]
             step == [i \in 1..n |-> [t \in Text |-> Next1(t, i)]]
             Body(g) == [i \in 0..n |-> IF i = 0 THEN <<>> ELSE
                           (g[i-1] \o (IF i = 1 THEN <<>> ELSE <<Blank>>)) \o texts[i]]
             j == CHOOSE g : g = Body(g)
  <1>1. ASSUME NEW i \in 1..n, NEW t \in Text PROVE Next1(t, i) \in Text
    <2>1. PICK d : d = t \o Gap(i) /\ d \in Text
      BY GapIs, TextBoth
    <2>2. PICK e : e = texts[i] /\ e \in Text
      OBVIOUS
    <2>3. d \o e \in Text
      BY <2>1, <2>2, TextBoth
    <2> QED
      BY <2>1, <2>2, <2>3, Zenon
  <1>2. step \in [1..n -> [Text -> Text]]
    <2> HIDE DEF Next1
    <2> QED
      BY <1>1
  <1>3. PICK g \in [0..n -> Text] : Follows(g, n, <<>>, step)
    <2> HIDE DEF step
    <2> QED
      BY <1>2, GapIs, LoopExists
  <1>4. g = Body(g)
    <2>1. ASSUME NEW i \in 0..n, i # 0 PROVE step[i][g[i-1]] = Next1(g[i-1], i)
      <3>1. i \in 1..n /\ g[i-1] \in Text
        <4> HIDE DEF step
        <4> QED
          BY <1>3, <2>1
      <3> HIDE DEF Next1
      <3>2. step[i] = [t \in Text |-> Next1(t, i)]
        BY <3>1
      <3> QED
        BY <3>1, <3>2, Zenon
    <2> HIDE DEF step
    <2>2. g = [i \in 0..n |-> IF i = 0 THEN <<>> ELSE step[i][g[i-1]]]
      BY <1>3 DEF Follows
    <2> HIDE DEF Next1
    <2>3. g = [i \in 0..n |-> IF i = 0 THEN <<>> ELSE Next1(g[i-1], i)]
      BY <2>1, <2>2
    <2> QED
      BY <2>3, Zenon DEF Next1, Gap
  <1>5. j = Body(j)
    BY <1>4, Zenon
  <1>6. Join(texts) = j[n]
    BY Zenon DEF Join
  <1> HIDE DEF j
  <1>7. \A i \in 0..n : j[i] = IF i = 0 THEN <<>> ELSE Next1(j[i-1], i)
    BY <1>5, Zenon DEF Gap
  <1>8. j = [i \in 0..n |-> j[i]]
    BY <1>5, Zenon
  <1> HIDE DEF Next1
  <1>9. j[0] = <<>> /\ \A i \in 1..n : j[i] = Next1(j[i-1], i)
    <2>1. 0 \in 0..n /\ \A i \in 1..n : i \in 0..n /\ i # 0
      OBVIOUS
    <2> QED
      BY <1>7, <2>1
  <1>10. j \in [0..n -> Text]
    <2>1. j[0] \in Text /\ \A i \in 1..n : j[i-1] \in Text => j[i] \in Text
      BY <1>1, <1>9, GapIs
    <2> QED
      BY <1>8, <2>1, LoopStays
  <1> QED
    BY <1>6, <1>9, <1>10 DEF Next1

\* The join of some texts is a text; that of one is the text, and that of more than one
\* has a blank.
LEMMA JoinIs ==
  ASSUME NEW texts, NEW n \in Nat, Len(texts) = n, \A i \in 1..n : texts[i] \in Text
  PROVE  /\ Join(texts) \in Text
         /\ n = 0 => Join(texts) = <<>>
         /\ n = 1 => Join(texts) = texts[1]
         /\ n > 1 => HasBlank(Join(texts))
  <1>1. PICK j \in [0..n -> Text] :
           /\ j[0] = <<>>
           /\ \A i \in 1..n : j[i] = (j[i-1] \o Gap(i)) \o texts[i]
           /\ Join(texts) = j[n]
    BY JoinLoop
  <1>2. Join(texts) \in Text
    BY <1>1
  <1>3. ASSUME n = 1 PROVE Join(texts) = texts[1]
    <2>1. j[1] = (<<>> \o <<>>) \o texts[1]
      <3>1. 1 \in 1..n /\ 1 - 1 = 0
        BY <1>3
      <3>2. j[1] = (j[0] \o Gap(1)) \o texts[1]
        BY <1>1, <3>1
      <3> QED
        BY <1>1, <3>2, Zenon DEF Gap
    <2>2. <<>> \o <<>> = <<>>
      OBVIOUS
    <2>3. PICK t : t = texts[1] /\ t \in Text
      BY <1>3
    <2>4. <<>> \o t = t
      BY <2>3, ConcatEmptySeq DEF Text
    <2> QED
      BY <1>1, <1>3, <2>1, <2>2, <2>3, <2>4, Zenon
  <1>4. ASSUME n > 1 PROVE HasBlank(Join(texts))
    <2>1. n \in 1..n /\ n # 1 /\ n - 1 \in 0..n
      BY <1>4
    <2>2. j[n] = (j[n-1] \o <<Blank>>) \o texts[n]
      BY <1>1, <2>1, Zenon DEF Gap
    <2>3. PICK a, b, c : a = j[n-1] /\ b = <<Blank>> /\ c = texts[n]
      OBVIOUS
    <2>4. a \in Text /\ b \in Text /\ c \in Text
      BY <1>1, <2>1, <2>3, GapIs
    <2>5. PICK d : d = a \o b
      OBVIOUS
    <2>6. d \in Text /\ Len(d) = Len(a) + Len(b) /\ Len(a) \in Nat /\ \A i \in 1..Len(b) : d[Len(a)+i] = b[i]
      BY <2>4, <2>5, TextBoth
    <2>7. Len(b) = 1 /\ b[1] = Blank
      BY <2>3
    <2>8. PICK k : k = Len(a) + 1 /\ k \in 1..Len(d) /\ d[k] = Blank
      BY <2>6, <2>7
    <2>9. PICK t : t = d \o c
      OBVIOUS
    <2>10. Len(t) = Len(d) + Len(c) /\ Len(d) \in Nat /\ Len(c) \in Nat /\ \A i \in 1..Len(d) : t[i] = d[i]
      BY <2>4, <2>6, <2>9, TextBoth
    <2>11. k \in 1..Len(t) /\ t[k] = Blank
      BY <2>8, <2>10
    <2>12. HasBlank(t)
      BY <2>11 DEF HasBlank
    <2> QED
      BY <1>1, <2>2, <2>3, <2>5, <2>9, <2>12, Zenon
  <1> QED
    BY <1>1, <1>2, <1>3, <1>4

\* What follows the i-th of some texts, for every i.
LEMMA JoinRest ==
  ASSUME NEW texts, NEW n \in Nat, Len(texts) = n, \A i \in 1..n : texts[i] \in Text
  PROVE  \E q \in [0..n -> Text] :
           /\ q[n] = <<>>
           /\ \A i \in 1..n : q[i-1] = Gap(i) \o (texts[i] \o q[i])
           /\ Join(texts) = q[0]
  <1> DEFINE From(t, i) == Gap(n+1-i) \o (texts[n+1-i] \o t)
             step == [i \in 1..n |-> [t \in Text |-> From(t, i)]]
  <1>1. ASSUME NEW i \in 1..n, NEW t \in Text PROVE From(t, i) \in Text
    <2>1. PICK m, e : m = n + 1 - i /\ m \in 1..n /\ e = texts[m] /\ e \in Text
      OBVIOUS
    <2>2. PICK d : d = e \o t /\ d \in Text
      BY <2>1, TextBoth
    <2>3. Gap(m) \o d \in Text
      BY <2>2, GapIs, TextBoth
    <2> QED
      BY <2>1, <2>2, <2>3, Zenon
  <1>2. step \in [1..n -> [Text -> Text]]
    <2> HIDE DEF From
    <2> QED
      BY <1>1
  <1>3. PICK g \in [0..n -> Text] : Follows(g, n, <<>>, step)
    <2> HIDE DEF step
    <2> QED
      BY <1>2, GapIs, LoopExists
  <1>4. g[0] = <<>> /\ \A i \in 1..n : g[i] = From(g[i-1], i)
    <2> HIDE DEF From
    <2>1. \A i \in 0..n : g[i] = IF i = 0 THEN <<>> ELSE step[i][g[i-1]]
      BY <1>3, Zenon DEF Follows
    <2>2. ASSUME NEW i \in 1..n PROVE step[i][g[i-1]] = From(g[i-1], i)
      <3>1. g[i-1] \in Text
        <4> HIDE DEF step
        <4>1. i - 1 \in 0..n
          OBVIOUS
        <4> QED
          BY <1>3, <4>1
      <3> QED
        BY <3>1
    <2> HIDE DEF step
    <2>3. 0 \in 0..n /\ \A i \in 1..n : i \in 0..n /\ i # 0
      OBVIOUS
    <2> QED
      BY <2>1, <2>2, <2>3
  <1>5. PICK q : q = [i \in 0..n |-> g[n-i]]
    OBVIOUS
  <1>6. q \in [0..n -> Text] /\ \A i \in 0..n : q[i] = g[n-i]
    BY <1>3, <1>5
  <1>7. q[n] = <<>>
    <2>1. n \in 0..n /\ n - n = 0
      OBVIOUS
    <2> QED
      BY <1>4, <1>6, <2>1
  <1>8. ASSUME NEW i \in 1..n PROVE q[i-1] = Gap(i) \o (texts[i] \o q[i])
    <2>1. PICK m : m = n + 1 - i
      OBVIOUS
    <2>2. m \in 1..n /\ n + 1 - m = i /\ n - (i - 1) = m /\ n - i = m - 1 /\ i \in 0..n /\ i - 1 \in 0..n
      BY <2>1
    <2>3. q[i-1] = g[m] /\ q[i] = g[m-1]
      <3>1. q[i-1] = g[n-(i-1)] /\ q[i] = g[n-i]
        BY <1>6, <2>2
      <3> QED
        BY <2>2, <3>1, Zenon
    <2>4. g[m] = Gap(n+1-m) \o (texts[n+1-m] \o g[m-1])
      BY <1>4, <2>2
    <2> QED
      BY <2>2, <2>3, <2>4, Zenon
  <1>9. PICK j \in [0..n -> Text] :
           /\ j[0] = <<>>
           /\ \A i \in 1..n : j[i] = (j[i-1] \o Gap(i)) \o texts[i]
           /\ Join(texts) = j[n]
    BY JoinLoop
  <1> DEFINE T == {i \in 0..n : j[i] \o q[i] = q[0]}
  <1>10. 0 \in T
    <2>1. PICK t : t = q[0] /\ t \in Text
      BY <1>6
    <2>2. <<>> \o t = t
      BY <2>1, ConcatEmptySeq DEF Text
    <2>3. j[0] \o q[0] = q[0]
      BY <1>9, <2>1, <2>2, Zenon
    <2> QED
      BY <2>3
  <1>11. ASSUME NEW i, i \in 1..n, i - 1 \in T PROVE i \in T
    <2>1. i \in 0..n /\ i - 1 \in 0..n
      BY <1>11
    <2>2. PICK a, b, c, d : a = j[i-1] /\ b = Gap(i) /\ c = texts[i] /\ d = q[i]
      OBVIOUS
    <2>3. a \in Text /\ b \in Text /\ c \in Text /\ d \in Text
      BY <1>6, <1>9, <1>11, <2>1, <2>2, GapIs
    <2>4. j[i] = (a \o b) \o c /\ q[i-1] = b \o (c \o d) /\ a \o q[i-1] = q[0]
      BY <1>8, <1>9, <1>11, <2>2
    <2>5. PICK e, f : e = a \o b /\ f = c \o d /\ e \in Text /\ f \in Text
      BY <2>3, TextBoth
    <2>6. (e \o c) \o d = e \o (c \o d)
      <3>1. e \in Text /\ c \in Text /\ d \in Text
        BY <2>3, <2>5
      <3> QED
        BY <3>1, TextAssociative, Zenon
    <2>7. (a \o b) \o f = a \o (b \o f)
      <3>1. a \in Text /\ b \in Text /\ f \in Text
        BY <2>3, <2>5
      <3> QED
        BY <3>1, TextAssociative, Zenon
    <2>8. j[i] \o q[i] = q[0]
      BY <2>2, <2>4, <2>5, <2>6, <2>7, Zenon
    <2> QED
      BY <2>1, <2>8
  <1>12. n \in T
    <2> HIDE DEF T
    <2>1. n \in 0..n
      OBVIOUS
    <2> QED
      BY <1>10, <1>11, <2>1, Steps
  <1>13. Join(texts) = q[0]
    <2>1. PICK t : t = j[n] /\ t \in Text
      BY <1>9
    <2>2. t \o <<>> = t
      BY <2>1, ConcatEmptySeq DEF Text
    <2>3. j[n] \o q[n] = q[0]
      BY <1>12
    <2> QED
      BY <1>7, <1>9, <2>1, <2>2, <2>3, Zenon
  <1> QED
    BY <1>6, <1>7, <1>8, <1>13

-----------------------------------------------------------------------------
(***************************************************************************)
(* Words across blanks                                                     *)
(***************************************************************************)
\* A word does not occur across a blank.
LEMMA AcrossBlank ==
  ASSUME NEW w \in Word, NEW t \in Text, NEW k \in Nat, Occurs(w, t, k),
         NEW p \in 1..Len(t), t[p] = Blank
  PROVE  p < k \/ p >= k + Len(w)
  <1>1. PICK n : n = Len(w) /\ n \in Nat /\ \A j \in 1..n : w[j] # Blank /\ t[k+j-1] = w[j]
    BY WordIs DEF Occurs
  <1>2. ASSUME p >= k, p < k + n PROVE FALSE
    <2>1. p \in Nat
      BY DEF Text
    <2>2. PICK j : j = p - k + 1
      OBVIOUS
    <2>3. j \in 1..n /\ k + j - 1 = p
      BY <1>1, <1>2, <2>1, <2>2
    <2> QED
      BY <1>1, <2>3
  <1>3. p \in Nat
    BY DEF Text
  <1> QED
    BY <1>1, <1>2, <1>3

\* A word that occurs in a part of a text occurs in the text the part is equal to.
LEMMA OccursIn ==
  ASSUME NEW w \in Word, NEW t, NEW k, Occurs(w, t, k), NEW u \in Text, NEW i \in Nat, i >= 1,
         i + Len(w) <= Len(u) + 1, \A j \in 1..Len(w) : u[i+j-1] = t[k+j-1]
  PROVE  Inside(w, u)
  <1>1. Len(w) \in Nat /\ Len(w) >= 1 /\ Len(u) \in Nat
    BY WordIs DEF Text
  <1>2. i \in 1..Len(u)
    BY <1>1
  <1>3. Occurs(w, u, i)
    BY DEF Occurs
  <1> QED
    BY <1>2, <1>3 DEF Inside

\* A word that occurs in a text, a blank and what follows it, before the blank, is
\* inside the text.
LEMMA InsideBefore ==
  ASSUME NEW w \in Word, NEW a \in Text, NEW t \in Text, Len(t) > Len(a),
         t[Len(a)+1] = Blank, \A i \in 1..Len(a) : t[i] = a[i],
         NEW k \in 1..Len(a)+1, Occurs(w, t, k)
  PROVE  Inside(w, a)
  <1>0. Len(a) \in Nat /\ Len(w) \in Nat /\ Len(w) >= 1
    <2>1. Len(a) \in Nat
      BY DEF Text
    <2> QED
      BY <2>1, WordIs
  <1>1. PICK n, m : n = Len(w) /\ m = Len(a) /\ n \in Nat /\ m \in Nat /\ n >= 1
    BY <1>0
  <1>2. m + 1 \in 1..Len(t) /\ k \in Nat /\ Len(t) \in Nat
    BY <1>1 DEF Text
  <1>3. m + 1 < k \/ m + 1 >= k + n
    BY <1>1, <1>2, AcrossBlank
  <1>4. k + n <= m + 1
    BY <1>1, <1>2, <1>3
  <1>5. ASSUME NEW j \in 1..n PROVE a[k+j-1] = t[k+j-1]
    <2>1. k+j-1 \in 1..m
      BY <1>1, <1>2, <1>4
    <2> QED
      BY <1>1, <2>1
  <1>6. k \in Nat /\ k >= 1
    BY <1>1
  <1> QED
    BY <1>1, <1>4, <1>5, <1>6, OccursIn

\* What is inside a line is inside its last word or what comes before it.
LEMMA InsideEither ==
  ASSUME NEW w \in Word, NEW a \in Text, NEW v \in Text, NEW i, i = 1 => a = <<>>,
         Inside(w, (a \o Gap(i)) \o v)
  PROVE  Inside(w, a) \/ Inside(w, v)
  <1>1. CASE i = 1
    <2>1. <<>> \o <<>> = <<>>
      OBVIOUS
    <2>2. <<>> \o v = v
      BY ConcatEmptySeq DEF Text
    <2>3. (a \o Gap(i)) \o v = v
      BY <1>1, <2>1, <2>2, Zenon DEF Gap
    <2> QED
      BY <2>3
  <1>2. CASE i # 1
    <2>1. PICK b, d, t : b = <<Blank>> /\ d = a \o b /\ t = d \o v
      OBVIOUS
    <2>2. b \in Text /\ Len(b) = 1 /\ b[1] = Blank
      BY <2>1, GapIs
    <2>3. /\ d \in Text /\ Len(d) = Len(a) + Len(b) /\ Len(a) \in Nat
          /\ (\A j \in 1..Len(a) : d[j] = a[j]) /\ (\A j \in 1..Len(b) : d[Len(a)+j] = b[j])
      BY <2>1, <2>2, TextBoth
    <2>4. /\ t \in Text /\ Len(t) = Len(d) + Len(v) /\ Len(v) \in Nat
          /\ (\A j \in 1..Len(d) : t[j] = d[j]) /\ (\A j \in 1..Len(v) : t[Len(d)+j] = v[j])
      <3>1. d \in Text /\ v \in Text /\ t = d \o v
        BY <2>1, <2>3
      <3> HIDE <2>1
      <3> QED
        BY <3>1, TextBoth, Zenon
    <2>5. PICK m : m = Len(a) + 1 /\ m \in Nat /\ Len(d) = m /\ Len(t) = m + Len(v)
      BY <2>2, <2>3, <2>4
    <2>6. t[m] = Blank
      <3>1. 1 \in 1..Len(b) /\ m \in 1..Len(d)
        BY <2>2, <2>3, <2>5
      <3> QED
        BY <2>2, <2>3, <2>4, <2>5, <3>1
    <2>7. t = (a \o Gap(i)) \o v
      BY <1>2, <2>1, Zenon DEF Gap
    <2>8. PICK k : k \in 1..Len(t) /\ Occurs(w, t, k)
      BY <2>7 DEF Inside
    <2>9. CASE k <= m
      <3>1. \A j \in 1..Len(a) : t[j] = a[j]
        BY <2>3, <2>4, <2>5
      <3>2. Len(t) > Len(a) /\ k \in 1..Len(a)+1
        BY <2>3, <2>4, <2>5, <2>8, <2>9
      <3> QED
        BY <2>4, <2>5, <2>6, <2>8, <3>1, <3>2, InsideBefore
    <2>10. CASE ~(k <= m)
      <3>1. PICK n : n = Len(w) /\ n \in Nat /\ k + n <= Len(t) + 1
        BY <2>8, WordIs DEF Occurs
      <3>2. PICK e : e = k - m
        OBVIOUS
      <3>3. e \in Nat /\ e >= 1 /\ e + n <= Len(v) + 1 /\ k \in Nat
        BY <2>4, <2>5, <2>8, <2>10, <3>1, <3>2
      <3>4. ASSUME NEW j \in 1..n PROVE v[e+j-1] = t[k+j-1]
        <4>1. e+j-1 \in 1..Len(v) /\ m + (e+j-1) = k+j-1
          BY <2>4, <2>5, <3>1, <3>2, <3>3
        <4>2. t[m + (e+j-1)] = v[e+j-1]
          BY <2>4, <2>5, <4>1
        <4> QED
          BY <4>1, <4>2, Zenon
      <3>5. Inside(w, v)
        BY <2>8, <3>1, <3>3, <3>4, OccursIn
      <3> QED
        BY <3>5
    <2> QED
      BY <2>9, <2>10
  <1> QED
    BY <1>1, <1>2

\* A word that is not inside what comes before the gap does not occur before its place.
LEMMA NotBefore ==
  ASSUME NEW w \in Word, NEW a \in Text, NEW b \in Text, NEW i, i = 1 => a = <<>>,
         ~Inside(w, a), NEW e, e = a \o Gap(i)
  PROVE  e \in Text /\ \A k \in 1..Len(e) : ~Occurs(w, Lay(e, w, b), k)
  <1>1. e \in Text
    BY GapIs, TextBoth
  <1>2. CASE i = 1
    <2>1. <<>> \o <<>> = <<>>
      OBVIOUS
    <2>2. e = <<>>
      BY <1>2, <2>1, Zenon DEF Gap
    <2>3. Len(e) = 0
      BY <2>2
    <2> QED
      BY <1>1, <2>3
  <1>3. CASE i # 1
    <2>1. PICK c : c = <<Blank>> /\ e = a \o c
      BY <1>3 DEF Gap
    <2>2. c \in Text /\ Len(c) = 1 /\ c[1] = Blank
      BY <2>1, GapIs
    <2>3. /\ Len(e) = Len(a) + Len(c) /\ Len(a) \in Nat
          /\ (\A j \in 1..Len(a) : e[j] = a[j]) /\ (\A j \in 1..Len(c) : e[Len(a)+j] = c[j])
      <3>1. PICK p : p = a \o c
        OBVIOUS
      <3>2. /\ Len(p) = Len(a) + Len(c) /\ Len(a) \in Nat
            /\ (\A j \in 1..Len(a) : p[j] = a[j]) /\ (\A j \in 1..Len(c) : p[Len(a)+j] = c[j])
        BY <2>2, <3>1, TextBoth
      <3>3. p = e
        BY <2>1, <3>1, Zenon
      <3> QED
        BY <3>2, <3>3, Zenon
    <2>4. Len(e) = Len(a) + 1 /\ e[Len(a)+1] = Blank
      BY <2>2, <2>3
    <2>5. PICK t : t = Lay(e, w, b)
      OBVIOUS
    <2>6. t \in Text /\ Len(t) = Len(e) + Len(w) + Len(b) /\ Len(e) \in Nat /\ Len(w) \in Nat /\ Len(b) \in Nat
      BY <1>1, <2>5, StandsThere, Zenon
    <2>7. \A j \in 1..Len(e) : t[j] = e[j]
      <3>1. PICK d : d = w \o b /\ d \in Text
        BY WordIs, TextBoth
      <3>2. t = e \o d
        BY <2>5, <3>1, Zenon DEF Lay
      <3>3. PICK p : p = e \o d
        OBVIOUS
      <3>4. \A j \in 1..Len(e) : p[j] = e[j]
        BY <1>1, <3>1, <3>3, TextBoth
      <3> QED
        BY <3>2, <3>3, <3>4, Zenon
    <2>8. t[Len(a)+1] = Blank /\ Len(t) > Len(a) /\ \A j \in 1..Len(a) : t[j] = a[j]
      BY <2>3, <2>4, <2>6, <2>7
    <2>9. ASSUME NEW k \in 1..Len(e), Occurs(w, t, k) PROVE FALSE
      <3>1. k \in 1..Len(a)+1
        BY <2>4
      <3> QED
        BY <2>6, <2>8, <2>9, <3>1, InsideBefore
    <2> QED
      BY <1>1, <2>5, <2>9, Zenon
  <1> QED
    BY <1>2, <1>3


-----------------------------------------------------------------------------
(***************************************************************************)
(* An ordinary line                                                        *)
(***************************************************************************)
\* What a word of a line becomes.
ValueOf(words, i) == IF Defined(words[i]) THEN Lookup(words[i]) ELSE words[i]

\* A word and what it becomes are texts.
LEMMA ValueIs ==
  ASSUME TableOK(map, Text), Roomy(map), NEW words \in Seq(Word), NEW i \in 1..Len(words)
  PROVE  words[i] \in Word /\ words[i] \in Text /\ ValueOf(words, i) \in Text
  <1>1. words[i] \in Word
    OBVIOUS
  <1>2. words[i] \in Text
    BY <1>1, WordIs
  <1>3. Defined(words[i]) => Lookup(words[i]) \in Text
    BY LookupIs, Zenon
  <1> QED
    BY <1>1, <1>2, <1>3 DEF ValueOf

\* The loop of parseFile, word by word.
LEMMA ExpandedLoop ==
  ASSUME TableOK(map, Text), Roomy(map), NEW words \in Seq(Word), NEW n \in Nat, n = Len(words)
  PROVE  \E f \in [0..n -> Text] :
           /\ f[0] = Join(words)
           /\ \A i \in 1..n :
                f[i] = IF Defined(words[i]) THEN Replace(f[i-1], words[i], ValueOf(words, i)) ELSE f[i-1]
           /\ Expanded(words) = f[n]
  <1> DEFINE Next1(t, i) == IF Defined(words[i]) THEN Replace(t, words[i], Lookup(words[i])) ELSE t
             step == [i \in 1..n |-> [t \in Text |-> Next1(t, i)]]
             Body(g) == [i \in 0..n |-> IF i = 0 THEN Join(words) ELSE
                           IF Defined(words[i])
                           THEN Replace(g[i-1], words[i], Lookup(words[i])) ELSE g[i-1]]
             f == CHOOSE g : g = Body(g)
  <1>1. ASSUME NEW i \in 1..n, NEW t \in Text PROVE Next1(t, i) \in Text
    <2>1. words[i] \in Word /\ (Defined(words[i]) => Lookup(words[i]) \in Text)
      BY ValueIs, LookupIs
    <2>2. PICK w, v : w = words[i] /\ v = Lookup(words[i])
      OBVIOUS
    <2>3. Defined(w) => Replace(t, w, v) \in Text
      BY <2>1, <2>2, ReplaceType
    <2> QED
      BY <2>2, <2>3
  <1>2. step \in [1..n -> [Text -> Text]]
    <2> HIDE DEF Next1
    <2> QED
      BY <1>1
  <1>3. Join(words) \in Text
    <2>1. Len(words) = n /\ \A i \in 1..n : words[i] \in Text
      BY ValueIs
    <2> QED
      BY <2>1, JoinIs
  <1>4. PICK g \in [0..n -> Text] : Follows(g, n, Join(words), step)
    <2> HIDE DEF step
    <2> QED
      BY <1>2, <1>3, LoopExists
  <1>5. g = Body(g)
    <2>1. ASSUME NEW i \in 0..n, i # 0 PROVE step[i][g[i-1]] = Next1(g[i-1], i)
      <3>1. i \in 1..n /\ g[i-1] \in Text
        <4> HIDE DEF step
        <4> QED
          BY <1>4, <2>1
      <3> HIDE DEF Next1
      <3>2. step[i] = [t \in Text |-> Next1(t, i)]
        BY <3>1
      <3> QED
        BY <3>1, <3>2, Zenon
    <2> HIDE DEF step
    <2>2. g = [i \in 0..n |-> IF i = 0 THEN Join(words) ELSE step[i][g[i-1]]]
      BY <1>4 DEF Follows
    <2> HIDE DEF Next1
    <2>3. g = [i \in 0..n |-> IF i = 0 THEN Join(words) ELSE Next1(g[i-1], i)]
      BY <2>1, <2>2
    <2> QED
      BY <2>3, Zenon DEF Next1
  <1>6. f = Body(f)
    BY <1>5, Zenon
  <1>7. Expanded(words) = f[n]
    BY Zenon DEF Expanded
  <1> HIDE DEF f
  <1>8. \A i \in 0..n : f[i] = IF i = 0 THEN Join(words) ELSE Next1(f[i-1], i)
    BY <1>6, Zenon
  <1>9. f = [i \in 0..n |-> f[i]]
    BY <1>6, Zenon
  <1> HIDE DEF Next1
  <1>10. f[0] = Join(words) /\ \A i \in 1..n : f[i] = Next1(f[i-1], i)
    <2>1. 0 \in 0..n /\ \A i \in 1..n : i \in 0..n /\ i # 0
      OBVIOUS
    <2> QED
      BY <1>8, <2>1
  <1>11. f \in [0..n -> Text]
    <2>1. f[0] \in Text /\ \A i \in 1..n : f[i-1] \in Text => f[i] \in Text
      BY <1>1, <1>3, <1>10
    <2> QED
      BY <1>9, <2>1, LoopStays
  <1>12. ASSUME NEW i \in 1..n
         PROVE  f[i] = IF Defined(words[i]) THEN Replace(f[i-1], words[i], ValueOf(words, i)) ELSE f[i-1]
    BY <1>10 DEF Next1, ValueOf
  <1> QED
    BY <1>7, <1>10, <1>11, <1>12

\* No defined word of the line is inside the text.
Apart(words, text) == \A k \in 1..Len(words) : Defined(words[k]) => ~Inside(words[k], text)

\* One more word of the line, replaced in the line and appended to the result.
LEMMA OneMore ==
  ASSUME TableOK(map, Text), Roomy(map), NEW words \in Seq(Word), NEW i, i \in 1..Len(words),
         ValuesApart(words), WordsApart(words),
         NEW r \in Text, NEW q \in Text, Apart(words, r), i = 1 => r = <<>>
  PROVE  LET t == r \o (Gap(i) \o (words[i] \o q))
             s == (r \o Gap(i)) \o ValueOf(words, i)
         IN
         /\ (IF Defined(words[i]) THEN Replace(t, words[i], ValueOf(words, i)) ELSE t) = s \o q
         /\ Apart(words, s)
  <1>0. PICK t, s : t = r \o (Gap(i) \o (words[i] \o q)) /\ s = (r \o Gap(i)) \o ValueOf(words, i)
    OBVIOUS
  <1>1. PICK w, v, g : w = words[i] /\ v = ValueOf(words, i) /\ g = Gap(i)
    OBVIOUS
  <1>2. w \in Word /\ w \in Text /\ v \in Text /\ g \in Text
    BY <1>1, ValueIs, GapIs
  <1>3. PICK e : e = r \o g /\ e \in Text
    BY <1>2, TextBoth
  <1>4. PICK c : c = w \o q /\ c \in Text
    BY <1>2, TextBoth
  <1>5. t = Lay(e, w, q)
    <2>1. t = r \o (g \o c)
      BY <1>0, <1>1, <1>4, Zenon
    <2>2. (r \o g) \o c = r \o (g \o c)
      BY <1>2, <1>4, TextAssociative
    <2> QED
      BY <1>3, <1>4, <2>1, <2>2, Zenon DEF Lay
  <1>6. (IF Defined(words[i]) THEN Replace(t, words[i], ValueOf(words, i)) ELSE t) = s \o q
    <2>1. CASE Defined(w)
      <3>1. ~Inside(w, r)
        BY <1>1, <2>1 DEF Apart
      <3>2. e = r \o Gap(i)
        BY <1>1, <1>3, Zenon
      <3>3. \A k \in 1..Len(e) : ~Occurs(w, Lay(e, w, q), k)
        <4>1. w \in Word /\ r \in Text /\ q \in Text /\ (i = 1 => r = <<>>) /\ ~Inside(w, r)
          BY <1>2, <3>1
        <4> QED
          BY <3>2, <4>1, NotBefore, Zenon
      <3>4. Replace(Lay(e, w, q), w, v) = Laid(e, v, q)
        <4>1. e \in Text /\ w \in Word /\ q \in Text /\ v \in Text
          BY <1>2, <1>3
        <4> QED
          BY <3>3, <4>1, ReplaceHere, Zenon
      <3> QED
        BY <1>0, <1>1, <1>3, <1>5, <2>1, <3>4, Zenon DEF Laid
    <2>2. CASE ~Defined(w)
      <3>1. v = w
        BY <1>1, <2>2 DEF ValueOf
      <3>2. (e \o w) \o q = e \o (w \o q)
        <4>1. e \in Text /\ w \in Text /\ q \in Text
          BY <1>2, <1>3
        <4> QED
          BY <4>1, TextAssociative, Zenon
      <3> QED
        BY <1>0, <1>1, <1>3, <1>5, <2>2, <3>1, <3>2, Zenon DEF Lay
    <2> QED
      BY <2>1, <2>2
  <1>7. ASSUME NEW k \in 1..Len(words), Defined(words[k]), Inside(words[k], s) PROVE FALSE
    <2>1. PICK x : x = words[k] /\ x \in Word
      BY ValueIs
    <2>2. Inside(x, (r \o Gap(i)) \o v)
      BY <1>0, <1>1, <1>7, <2>1, Zenon
    <2>3. Inside(x, r) \/ Inside(x, v)
      BY <1>2, <2>1, <2>2, InsideEither
    <2>4. Inside(x, v)
      BY <1>7, <2>1, <2>3 DEF Apart
    <2>5. CASE Defined(words[i])
      <3>1. v = Lookup(words[i])
        BY <1>1, <2>5 DEF ValueOf
      <3> QED
        BY <1>7, <2>1, <2>4, <2>5, <3>1 DEF ValuesApart
    <2>6. CASE ~Defined(words[i])
      <3>1. v = words[i] /\ words[i] # words[k]
        BY <1>1, <1>7, <2>6 DEF ValueOf
      <3> QED
        BY <1>7, <2>1, <2>4, <3>1 DEF WordsApart
    <2> QED
      BY <2>5, <2>6
  <1>8. Apart(words, s)
    BY <1>7 DEF Apart
  <1> QED
    BY <1>0, <1>6, <1>8, Zenon

\* Every symbol of the line is replaced at its own place.
LEMMA ExpandedIsReplaced ==
  ASSUME TableOK(map, Text), Roomy(map), NEW words \in Seq(Word),
         ValuesApart(words), WordsApart(words)
  PROVE  Expanded(words) = Replaced(words)
  <1>1. PICK n \in Nat : n = Len(words)
    OBVIOUS
  <1>2. PICK values : values = [i \in 1..n |-> ValueOf(words, i)]
    OBVIOUS
  <1>3. Replaced(words) = Join(values)
    BY <1>1, <1>2, Zenon DEF Replaced, ValueOf
  <1>4. \A i \in 1..n : words[i] \in Text /\ values[i] \in Text /\ values[i] = ValueOf(words, i)
    BY <1>1, <1>2, ValueIs
  <1>5. Len(values) = n
    BY <1>1, <1>2
  <1>6. PICK f \in [0..n -> Text] :
           /\ f[0] = Join(words)
           /\ \A i \in 1..n :
                f[i] = IF Defined(words[i]) THEN Replace(f[i-1], words[i], ValueOf(words, i)) ELSE f[i-1]
           /\ Expanded(words) = f[n]
    BY <1>1, ExpandedLoop
  <1>7. PICK q \in [0..n -> Text] :
           /\ q[n] = <<>>
           /\ \A i \in 1..n : q[i-1] = Gap(i) \o (words[i] \o q[i])
           /\ Join(words) = q[0]
    BY <1>1, <1>4, JoinRest
  <1>8. PICK r \in [0..n -> Text] :
           /\ r[0] = <<>>
           /\ \A i \in 1..n : r[i] = (r[i-1] \o Gap(i)) \o values[i]
           /\ Join(values) = r[n]
    BY <1>4, <1>5, JoinLoop
  <1> DEFINE T == {i \in 0..n : f[i] = r[i] \o q[i] /\ Apart(words, r[i])}
  <1>9. 0 \in T
    <2>1. PICK t : t = q[0] /\ t \in Text
      BY <1>7
    <2>2. <<>> \o t = t
      BY <2>1, ConcatEmptySeq DEF Text
    <2>3. f[0] = r[0] \o q[0]
      BY <1>6, <1>7, <1>8, <2>1, <2>2, Zenon
    <2>4. Apart(words, r[0])
      BY <1>8 DEF Apart, Inside
    <2> QED
      BY <2>3, <2>4
  <1>10. ASSUME NEW i, i \in 1..n, i - 1 \in T PROVE i \in T
    <2>1. i \in 0..n /\ i - 1 \in 0..n /\ i \in 1..Len(words)
      BY <1>1, <1>10
    <2>2. PICK a, b, t, s : a = r[i-1] /\ b = q[i] /\ t = f[i-1] /\ s = r[i]
      OBVIOUS
    <2>3. a \in Text /\ b \in Text /\ Apart(words, a) /\ (i = 1 => a = <<>>)
      BY <1>7, <1>8, <1>10, <2>1, <2>2
    <2>4. t = a \o (Gap(i) \o (words[i] \o b))
      <3>1. f[i-1] = r[i-1] \o q[i-1]
        BY <1>10
      <3>2. q[i-1] = Gap(i) \o (words[i] \o q[i])
        BY <1>7, <1>10
      <3> QED
        BY <2>2, <3>1, <3>2, Zenon
    <2>5. s = (a \o Gap(i)) \o ValueOf(words, i)
      <3>1. r[i] = (r[i-1] \o Gap(i)) \o values[i] /\ values[i] = ValueOf(words, i)
        BY <1>4, <1>8, <1>10
      <3> QED
        BY <2>2, <3>1, Zenon
    <2>6. /\ (IF Defined(words[i]) THEN Replace(t, words[i], ValueOf(words, i)) ELSE t) = s \o b
          /\ Apart(words, s)
      <3> HIDE DEF T
      <3>1. /\ TableOK(map, Text) /\ Roomy(map) /\ words \in Seq(Word) /\ i \in 1..Len(words)
            /\ ValuesApart(words) /\ WordsApart(words)
            /\ a \in Text /\ b \in Text /\ Apart(words, a) /\ (i = 1 => a = <<>>)
        BY <2>1, <2>3
      <3> QED
        BY <2>4, <2>5, <3>1, OneMore, Zenon
    <2>7. f[i] = IF Defined(words[i]) THEN Replace(t, words[i], ValueOf(words, i)) ELSE t
      BY <1>6, <1>10, <2>2
    <2>8. f[i] = r[i] \o q[i] /\ Apart(words, r[i])
      BY <2>2, <2>6, <2>7, Zenon
    <2> QED
      BY <2>1, <2>8
  <1>11. n \in T
    <2> HIDE DEF T
    <2>1. n \in 0..n
      OBVIOUS
    <2> QED
      BY <1>9, <1>10, <2>1, Steps
  <1>12. PICK t : t = r[n] /\ t \in Text
    BY <1>8
  <1>13. t \o <<>> = t
    BY <1>12, ConcatEmptySeq DEF Text
  <1>14. f[n] = r[n] \o q[n]
    BY <1>11
  <1> QED
    BY <1>3, <1>6, <1>7, <1>8, <1>12, <1>13, <1>14, Zenon

-----------------------------------------------------------------------------
(***************************************************************************)
(* Sequences that grow and shrink at the end                               *)
(***************************************************************************)
\* Adding an element.
LEMMA Appended ==
  ASSUME NEW S, NEW s \in Seq(S), NEW e \in S
  PROVE  /\ Append(s, e) \in Seq(S) /\ Len(Append(s, e)) = Len(s) + 1
         /\ \A i \in 1..Len(s) : Append(s, e)[i] = s[i]
         /\ Append(s, e)[Len(s) + 1] = e
  OBVIOUS

\* Taking the first n elements.
LEMMA Cut ==
  ASSUME NEW S, NEW s \in Seq(S), NEW n \in 0..Len(s)
  PROVE  /\ SubSeq(s, 1, n) \in Seq(S) /\ Len(SubSeq(s, 1, n)) = n
         /\ \A i \in 1..n : SubSeq(s, 1, n)[i] = s[i]
  <1>1. Len(s) \in Nat /\ n \in Nat /\ 1 \in Nat /\ 1 >= 1 /\ 1 <= n + 1 /\ n <= Len(s) /\ n - 1 + 1 = n
    OBVIOUS
  <1>2. PICK p : p = SubSeq(s, 1, n)
    OBVIOUS
  <1>3. p \in Seq(S) /\ Len(p) = n - 1 + 1 /\ \A i \in 1..n-1+1 : p[i] = s[1+i-1]
    BY <1>1, <1>2, Part
  <1>4. ASSUME NEW i \in 1..n PROVE p[i] = s[i]
    <2>1. i \in 1..n-1+1 /\ 1 + i - 1 = i
      BY <1>1
    <2>2. p[i] = s[1+i-1]
      BY <1>3, <2>1
    <2> QED
      BY <2>1, <2>2, Zenon
  <1> QED
    BY <1>1, <1>2, <1>3, <1>4

\* The last element.
LEMMA TopIs ==
  ASSUME NEW S, NEW s \in Seq(S), s # <<>>
  PROVE  /\ Len(s) \in Nat /\ Len(s) >= 1 /\ Top(s) = s[Len(s)] /\ Top(s) \in S
         /\ Pop(s) = SubSeq(s, 1, Len(s) - 1) /\ Len(s) - 1 \in 0..Len(s)
         /\ s = WithTop(s, Top(s))
  <1>1. Len(s) \in Nat /\ Len(s) # 0 /\ Len(s) >= 1 /\ Len(s) \in 1..Len(s) /\ s[Len(s)] \in S
    OBVIOUS
  <1>2. SubSeq(s, 1, Len(s) - 1) \in Seq(S) /\ Len(SubSeq(s, 1, Len(s) - 1)) = Len(s) - 1
        /\ \A i \in 1..Len(s)-1 : SubSeq(s, 1, Len(s) - 1)[i] = s[i]
    <2>1. PICK n : n = Len(s) - 1 /\ n \in 0..Len(s)
      BY <1>1
    <2>2. SubSeq(s, 1, n) \in Seq(S) /\ Len(SubSeq(s, 1, n)) = n /\ \A i \in 1..n : SubSeq(s, 1, n)[i] = s[i]
      BY <2>1, Cut
    <2> QED
      BY <2>1, <2>2
  <1>3. s = WithTop(s, Top(s))
    <2>1. PICK p : p = SubSeq(s, 1, Len(s) - 1)
      OBVIOUS
    <2>2. PICK t : t = Append(p, s[Len(s)])
      OBVIOUS
    <2>3. p \in Seq(S) /\ Len(p) = Len(s) - 1 /\ \A i \in 1..Len(s)-1 : p[i] = s[i]
      BY <1>2, <2>1
    <2>4. t \in Seq(S) /\ Len(t) = Len(p) + 1 /\ (\A i \in 1..Len(p) : t[i] = p[i]) /\ t[Len(p) + 1] = s[Len(s)]
      BY <1>1, <2>2, <2>3, Appended
    <2>5. ASSUME NEW i \in 1..Len(s) PROVE t[i] = s[i]
      <3>1. CASE i = Len(s)
        BY <1>1, <2>3, <2>4, <3>1
      <3>2. CASE i # Len(s)
        <4>1. i \in 1..Len(s)-1 /\ i \in 1..Len(p)
          BY <1>1, <2>3, <3>2
        <4> QED
          BY <2>3, <2>4, <4>1
      <3> QED
        BY <3>1, <3>2
    <2>6. t = s
      <3>1. Len(t) = Len(s)
        BY <1>1, <2>3, <2>4
      <3> QED
        BY <2>4, <2>5, <3>1, SeqEqual
    <2> QED
      BY <2>1, <2>2, <2>6, Zenon DEF WithTop, Pop, Top
  <1> QED
    BY <1>1, <1>3 DEF Top, Pop

-----------------------------------------------------------------------------
(***************************************************************************)
(* The number of calls of ifelse and ifdef on the stack                    *)
(***************************************************************************)
\* It is a number, at most that of all calls.
LEMMA CallsType ==
  ASSUME NEW s, NEW j \in Nat
  PROVE  /\ Calls(s, j) \in Nat /\ Calls(s, j) <= j
         /\ IsFiniteSet({k \in 1..j : ~IsFile(s, k)})
  <1> DEFINE C == {k \in 1..j : ~IsFile(s, k)}
  <1>1. IsFiniteSet(1..j) /\ Cardinality(1..j) = j
    BY FS_Interval
  <1>2. C \in SUBSET (1..j)
    OBVIOUS
  <1> HIDE DEF C
  <1>3. IsFiniteSet(C) /\ Cardinality(C) <= Cardinality(1..j)
    BY <1>1, <1>2, FS_Subset
  <1>4. Cardinality(C) \in Nat
    BY <1>3, FS_CardinalityType
  <1> QED
    BY <1>1, <1>3, <1>4 DEF C, Calls

\* There is none of no calls.
LEMMA CallsNone ==
  ASSUME NEW s
  PROVE  Calls(s, 0) = 0
  <1>1. {k \in 1..0 : ~IsFile(s, k)} = {}
    OBVIOUS
  <1> QED
    BY <1>1, FS_EmptySet, Zenon DEF Calls

\* The j-th call counts unless it is one of parseFile.
LEMMA CallsNext ==
  ASSUME NEW s, NEW j \in Nat, j # 0
  PROVE  Calls(s, j) = IF IsFile(s, j) THEN Calls(s, j-1) ELSE Calls(s, j-1) + 1
  <1> DEFINE C == {k \in 1..j-1 : ~IsFile(s, k)}
             D == {k \in 1..j : ~IsFile(s, k)}
  <1>1. IsFiniteSet(C)
    <2>1. j - 1 \in Nat
      OBVIOUS
    <2> QED
      BY <2>1, CallsType
  <1>2. j \notin C
    OBVIOUS
  <1>3. D = IF IsFile(s, j) THEN C ELSE C \cup {j}
    <2>1. \A k : k \in 1..j <=> k \in 1..j-1 \/ k = j
      OBVIOUS
    <2> QED
      BY <2>1
  <1>4. Calls(s, j) = Cardinality(D) /\ Calls(s, j-1) = Cardinality(C)
    BY Zenon DEF Calls
  <1> HIDE DEF C, D
  <1>5. Cardinality(C \cup {j}) = Cardinality(C) + 1
    BY <1>1, <1>2, FS_AddElement
  <1> QED
    BY <1>3, <1>4, <1>5

\* Only the functions that were called matter.
LEMMA CallsSame ==
  ASSUME NEW s, NEW t, NEW j \in Nat, \A k \in 1..j : s[k] = t[k]
  PROVE  Calls(t, j) = Calls(s, j)
  <1>1. {k \in 1..j : ~IsFile(s, k)} = {k \in 1..j : ~IsFile(t, k)}
    BY DEF IsFile
  <1> QED
    BY <1>1, Zenon DEF Calls

\* More calls of the stack hold as many calls of ifelse and ifdef, or more.
LEMMA CallsGrow ==
  ASSUME NEW s, NEW i \in Nat, NEW j \in Nat, i <= j
  PROVE  Calls(s, i) <= Calls(s, j)
  <1> DEFINE C == {k \in 1..i : ~IsFile(s, k)}
             D == {k \in 1..j : ~IsFile(s, k)}
  <1>1. IsFiniteSet(D)
    BY CallsType
  <1>2. C \in SUBSET D
    <2>1. 1..i \subseteq 1..j
      OBVIOUS
    <2> QED
      BY <2>1
  <1>3. Calls(s, i) = Cardinality(C) /\ Calls(s, j) = Cardinality(D)
    BY Zenon DEF Calls
  <1> HIDE DEF C, D
  <1>4. Cardinality(C) <= Cardinality(D)
    BY <1>1, <1>2, FS_Subset
  <1> QED
    BY <1>3, <1>4

\* A call of ifelse or ifdef is counted.
LEMMA CallsAt ==
  ASSUME NEW s, NEW n \in Nat, NEW j \in 1..n
  PROVE  /\ Calls(s, j) \in 0..Calls(s, n)
         /\ ~IsFile(s, j) => Calls(s, j) \in 1..Calls(s, n)
  <1>1. j \in Nat /\ j <= n /\ j # 0 /\ j - 1 \in Nat
    OBVIOUS
  <1>2. Calls(s, j) <= Calls(s, n)
    BY <1>1, CallsGrow
  <1>3. Calls(s, j) \in Nat /\ Calls(s, n) \in Nat /\ Calls(s, j-1) \in Nat
    BY <1>1, CallsType
  <1>4. Calls(s, j) = IF IsFile(s, j) THEN Calls(s, j-1) ELSE Calls(s, j-1) + 1
    BY <1>1, CallsNext
  <1> QED
    BY <1>2, <1>3, <1>4

-----------------------------------------------------------------------------
(***************************************************************************)
(* Calls and returns                                                       *)
(***************************************************************************)
\* A call of ifelse or ifdef opens the group it reads.
LEMMA NestedCall ==
  ASSUME NEW s \in Seq(Frame), NEW g \in Seq(Group), Nested(s, g), NEW f \in Frame, NEW e \in Group,
         f.fn # "parseFile", Matches(f, e), e.live, Len(g) # 0 => g[Len(g)].taken
  PROVE  Nested(Append(s, f), Append(g, e))
  <1>1. PICK t : t = Append(s, f)
    OBVIOUS
  <1>2. PICK h : h = Append(g, e)
    OBVIOUS
  <1>3. /\ t \in Seq(Frame) /\ Len(t) = Len(s) + 1 /\ (\A i \in 1..Len(s) : t[i] = s[i])
        /\ t[Len(s) + 1] = f /\ Len(s) \in Nat
    BY <1>1, Appended
  <1>4. /\ h \in Seq(Group) /\ Len(h) = Len(g) + 1 /\ (\A i \in 1..Len(g) : h[i] = g[i])
        /\ h[Len(g) + 1] = e /\ Len(g) \in Nat
    BY <1>2, Appended
  <1>5. \A j \in 0..Len(s) : Calls(t, j) = Calls(s, j)
    <2>1. ASSUME NEW j \in 0..Len(s) PROVE Calls(t, j) = Calls(s, j)
      <3>1. j \in Nat /\ \A k \in 1..j : s[k] = t[k]
        BY <1>3
      <3> QED
        BY <3>1, CallsSame
    <2> QED
      BY <2>1
  <1>6. Calls(s, Len(s)) = Len(g)
    BY DEF Nested
  <1>7. ~IsFile(t, Len(s) + 1)
    BY <1>3 DEF IsFile
  <1>8. Calls(t, Len(s) + 1) = Len(g) + 1
    <2>1. Len(s) + 1 \in Nat /\ Len(s) + 1 # 0 /\ Len(s) + 1 - 1 = Len(s) /\ Len(s) \in 0..Len(s)
      BY <1>3
    <2>2. Calls(t, Len(s) + 1) = Calls(t, Len(s) + 1 - 1) + 1
      BY <1>7, <2>1, CallsNext
    <2> QED
      BY <1>5, <1>6, <2>1, <2>2
  <1>9. ASSUME NEW j \in 1..Len(t) PROVE Fits(t, h, j)
    <2>1. CASE j = Len(s) + 1
      BY <1>3, <1>4, <1>7, <1>8, <2>1 DEF Fits
    <2>2. CASE j # Len(s) + 1
      <3>1. j \in 1..Len(s) /\ j \in 0..Len(s)
        BY <1>3, <2>2
      <3>2. t[j] = s[j] /\ Calls(t, j) = Calls(s, j)
        BY <1>3, <1>5, <3>1
      <3>3. Calls(s, j) \in 0..Len(g) /\ (~IsFile(s, j) => Calls(s, j) \in 1..Len(g))
        BY <1>3, <1>6, <3>1, CallsAt
      <3>4. Calls(s, j) # 0 => h[Calls(s, j)] = g[Calls(s, j)]
        BY <1>4, <3>3
      <3>5. Fits(s, g, j)
        BY <3>1 DEF Nested
      <3>6. IsFile(t, j) <=> IsFile(s, j)
        BY <3>2 DEF IsFile
      <3>7. CASE IsFile(s, j)
        BY <3>2, <3>4, <3>5, <3>6, <3>7 DEF Fits
      <3>8. CASE ~IsFile(s, j)
        <4>1. h[Calls(s, j)] = g[Calls(s, j)]
          BY <3>3, <3>4, <3>8
        <4> QED
          BY <3>2, <3>5, <3>6, <3>8, <4>1, Zenon DEF Fits
      <3> QED
        BY <3>7, <3>8
    <2> QED
      BY <2>1, <2>2
  <1>10. ASSUME NEW i \in 1..Len(h) PROVE h[i].live /\ (i # Len(h) => h[i].taken)
    <2>1. CASE i = Len(h)
      BY <1>4, <2>1
    <2>2. CASE i # Len(h)
      <3>1. i \in 1..Len(g) /\ h[i] = g[i]
        BY <1>4, <2>2
      <3>2. g[i].live /\ (i # Len(g) => g[i].taken)
        BY <3>1 DEF Nested
      <3>3. i = Len(g) => g[i].taken
        BY <1>4, <3>1
      <3> QED
        BY <3>1, <3>2, <3>3, Zenon
    <2> QED
      BY <2>1, <2>2
  <1>11. Calls(t, Len(t)) = Len(h)
    BY <1>3, <1>4, <1>8
  <1> QED
    BY <1>1, <1>2, <1>9, <1>10, <1>11, Zenon DEF Nested

\* A call of parseFile stands in the group that includes the file.
LEMMA NestedFile ==
  ASSUME NEW s \in Seq(Frame), NEW g \in Seq(Group), Nested(s, g), NEW f \in Frame,
         f.fn = "parseFile", f.base = Len(g), Len(g) # 0 => g[Len(g)].taken
  PROVE  Nested(Append(s, f), g)
  <1>1. PICK t : t = Append(s, f)
    OBVIOUS
  <1>3. /\ t \in Seq(Frame) /\ Len(t) = Len(s) + 1 /\ (\A i \in 1..Len(s) : t[i] = s[i])
        /\ t[Len(s) + 1] = f /\ Len(s) \in Nat
    BY <1>1, Appended
  <1>5. \A j \in 0..Len(s) : Calls(t, j) = Calls(s, j)
    <2>1. ASSUME NEW j \in 0..Len(s) PROVE Calls(t, j) = Calls(s, j)
      <3>1. j \in Nat /\ \A k \in 1..j : s[k] = t[k]
        BY <1>3
      <3> QED
        BY <3>1, CallsSame
    <2> QED
      BY <2>1
  <1>6. Calls(s, Len(s)) = Len(g)
    BY DEF Nested
  <1>7. IsFile(t, Len(s) + 1)
    BY <1>3 DEF IsFile
  <1>8. Calls(t, Len(s) + 1) = Len(g)
    <2>1. Len(s) + 1 \in Nat /\ Len(s) + 1 # 0 /\ Len(s) + 1 - 1 = Len(s) /\ Len(s) \in 0..Len(s)
      BY <1>3
    <2>2. Calls(t, Len(s) + 1) = Calls(t, Len(s) + 1 - 1)
      BY <1>7, <2>1, CallsNext
    <2> QED
      BY <1>5, <1>6, <2>1, <2>2
  <1>9. ASSUME NEW j \in 1..Len(t) PROVE Fits(t, g, j)
    <2>1. CASE j = Len(s) + 1
      BY <1>3, <1>7, <1>8, <2>1 DEF Fits
    <2>2. CASE j # Len(s) + 1
      <3>1. j \in 1..Len(s) /\ j \in 0..Len(s)
        BY <1>3, <2>2
      <3>2. t[j] = s[j] /\ Calls(t, j) = Calls(s, j)
        BY <1>3, <1>5, <3>1
      <3>3. Fits(s, g, j)
        BY <3>1 DEF Nested
      <3>4. IsFile(t, j) <=> IsFile(s, j)
        BY <3>2 DEF IsFile
      <3> QED
        BY <3>2, <3>3, <3>4, Zenon DEF Fits
    <2> QED
      BY <2>1, <2>2
  <1>10. \A i \in 1..Len(g) : g[i].live /\ (i # Len(g) => g[i].taken)
    BY DEF Nested
  <1>11. Calls(t, Len(t)) = Len(g)
    BY <1>3, <1>8
  <1> QED
    BY <1>1, <1>9, <1>10, <1>11, Zenon DEF Nested

\* Calls that return close their groups.
LEMMA NestedCut ==
  ASSUME NEW s \in Seq(Frame), NEW g \in Seq(Group), Nested(s, g), NEW n \in 0..Len(s)
  PROVE  /\ Calls(s, n) \in 0..Len(g)
         /\ Nested(SubSeq(s, 1, n), SubSeq(g, 1, Calls(s, n)))
  <1>0. PICK m : m = Calls(s, n)
    OBVIOUS
  <1>1. n \in Nat /\ n <= Len(s) /\ Len(s) \in Nat /\ Len(g) \in Nat
    OBVIOUS
  <1>2. Calls(s, Len(s)) = Len(g)
    BY DEF Nested
  <1>3. m \in Nat /\ m <= Len(g)
    BY <1>0, <1>1, <1>2, CallsType, CallsGrow
  <1>4. PICK t : t = SubSeq(s, 1, n)
    OBVIOUS
  <1>5. PICK h : h = SubSeq(g, 1, m)
    OBVIOUS
  <1>6. t \in Seq(Frame) /\ Len(t) = n /\ \A i \in 1..n : t[i] = s[i]
    BY <1>4, Cut
  <1>7. h \in Seq(Group) /\ Len(h) = m /\ \A i \in 1..m : h[i] = g[i]
    <2>1. m \in 0..Len(g)
      BY <1>1, <1>3
    <2> QED
      BY <1>5, <2>1, Cut
  <1>8. ASSUME NEW j \in 0..n PROVE Calls(t, j) = Calls(s, j)
    <2>1. j \in Nat /\ \A k \in 1..j : s[k] = t[k]
      BY <1>1, <1>6
    <2> QED
      BY <2>1, CallsSame
  <1>9. ASSUME NEW j \in 1..Len(t) PROVE Fits(t, h, j)
    <2>1. j \in 1..n /\ j \in 0..n /\ j \in 1..Len(s)
      BY <1>1, <1>6
    <2>2. t[j] = s[j] /\ Calls(t, j) = Calls(s, j)
      BY <1>6, <1>8, <2>1
    <2>3. Calls(s, j) \in 0..m /\ (~IsFile(s, j) => Calls(s, j) \in 1..m)
      BY <1>0, <1>1, <2>1, CallsAt
    <2>4. Calls(s, j) # 0 => h[Calls(s, j)] = g[Calls(s, j)]
      <3>1. Calls(s, j) # 0 => Calls(s, j) \in 1..m
        BY <1>3, <2>3
      <3> QED
        BY <1>7, <3>1
    <2>5. Fits(s, g, j)
      BY <2>1 DEF Nested
    <2>6. IsFile(t, j) <=> IsFile(s, j)
      BY <2>2 DEF IsFile
    <2>7. CASE IsFile(s, j)
      BY <2>2, <2>4, <2>5, <2>6, <2>7 DEF Fits
    <2>8. CASE ~IsFile(s, j)
      <3>1. h[Calls(s, j)] = g[Calls(s, j)]
        BY <2>3, <2>4, <2>8
      <3> QED
        BY <2>2, <2>5, <2>6, <2>8, <3>1, Zenon DEF Fits
    <2> QED
      BY <2>7, <2>8
  <1>10. ASSUME NEW i \in 1..Len(h) PROVE h[i].live /\ (i # Len(h) => h[i].taken)
    <2>1. i \in 1..Len(g) /\ h[i] = g[i] /\ (i # Len(h) => i # Len(g))
      BY <1>1, <1>3, <1>7
    <2>2. g[i].live /\ (i # Len(g) => g[i].taken)
      BY <2>1 DEF Nested
    <2> QED
      BY <2>1, <2>2, Zenon
  <1>11. Calls(t, Len(t)) = Len(h)
    <2>1. n \in 0..n
      BY <1>1
    <2> QED
      BY <1>0, <1>6, <1>7, <1>8, <2>1
  <1>12. Nested(t, h)
    BY <1>9, <1>10, <1>11 DEF Nested
  <1>13. m \in 0..Len(g)
    BY <1>1, <1>3
  <1> QED
    BY <1>0, <1>4, <1>5, <1>12, <1>13, Zenon

\* What the innermost call knows: a file is read where C reads it, a call of ifelse
\* or ifdef is that of the innermost group.
LEMMA TopFits ==
  ASSUME NEW s \in Seq(Frame), NEW g \in Seq(Group), Nested(s, g), s # <<>>
  PROVE  /\ Top(s).fn = "parseFile" =>
              Top(s).base = Len(g) /\ (Len(g) # 0 => g[Len(g)].taken)
         /\ Top(s).fn # "parseFile" =>
              /\ g # <<>> /\ Matches(Top(s), Top(g)) /\ Top(g).live
              /\ Calls(s, Len(s) - 1) = Len(g) - 1
              /\ Nested(Pop(s), Pop(g))
              /\ Len(Pop(g)) # 0 => Pop(g)[Len(Pop(g))].taken
  <1>1. /\ Len(s) \in Nat /\ Len(s) >= 1 /\ Top(s) = s[Len(s)] /\ Top(s) \in Frame
        /\ Pop(s) = SubSeq(s, 1, Len(s) - 1) /\ Len(s) - 1 \in 0..Len(s)
    BY TopIs, Zenon
  <1>2. Calls(s, Len(s)) = Len(g) /\ Fits(s, g, Len(s)) /\ Len(s) \in 1..Len(s) /\ Len(g) \in Nat
    BY <1>1 DEF Nested
  <1>3. ASSUME Top(s).fn = "parseFile"
        PROVE  Top(s).base = Len(g) /\ (Len(g) # 0 => g[Len(g)].taken)
    <2>1. IsFile(s, Len(s))
      BY <1>1, <1>3 DEF IsFile
    <2> QED
      BY <1>1, <1>2, <2>1, Zenon DEF Fits
  <1>4. ASSUME Top(s).fn # "parseFile"
        PROVE  /\ g # <<>> /\ Matches(Top(s), Top(g)) /\ Top(g).live
               /\ Calls(s, Len(s) - 1) = Len(g) - 1
               /\ Nested(Pop(s), Pop(g))
               /\ Len(Pop(g)) # 0 => Pop(g)[Len(Pop(g))].taken
    <2>1. ~IsFile(s, Len(s))
      BY <1>1, <1>4 DEF IsFile
    <2>2. Len(g) # 0 /\ Calls(s, Len(s) - 1) = Len(g) - 1
      <3>1. Len(s) # 0
        BY <1>1
      <3>2. Calls(s, Len(s)) = Calls(s, Len(s) - 1) + 1
        BY <1>1, <2>1, <3>1, CallsNext
      <3>3. Calls(s, Len(s) - 1) \in Nat
        <4>1. Len(s) - 1 \in Nat
          BY <1>1
        <4> QED
          BY <4>1, CallsType
      <3> QED
        BY <1>2, <3>2, <3>3
    <2>3. g # <<>> /\ Top(g) = g[Len(g)] /\ Pop(g) = SubSeq(g, 1, Len(g) - 1) /\ Len(g) - 1 \in 0..Len(g)
      <3>1. g # <<>>
        BY <2>2
      <3> QED
        BY <3>1, TopIs, Zenon
    <2>4. Matches(Top(s), Top(g))
      BY <1>1, <1>2, <2>1, <2>3, Zenon DEF Fits
    <2>5. Top(g).live
      <3>1. Len(g) \in 1..Len(g)
        BY <1>2, <2>2
      <3> QED
        BY <2>3, <3>1 DEF Nested
    <2>6. Nested(Pop(s), Pop(g))
      <3>1. PICK n : n = Len(s) - 1
        OBVIOUS
      <3>2. n \in 0..Len(s)
        BY <1>1, <3>1
      <3>3. Nested(SubSeq(s, 1, n), SubSeq(g, 1, Calls(s, n)))
        BY <3>2, NestedCut
      <3> QED
        BY <1>1, <2>2, <2>3, <3>1, <3>3, Zenon
    <2>7. Len(Pop(g)) # 0 => Pop(g)[Len(Pop(g))].taken
      <3>1. PICK n : n = Len(g) - 1 /\ n \in 0..Len(g)
        BY <2>3
      <3>2. Len(SubSeq(g, 1, n)) = n /\ \A i \in 1..n : SubSeq(g, 1, n)[i] = g[i]
        BY <3>1, Cut
      <3>3. ASSUME n # 0 PROVE SubSeq(g, 1, n)[n].taken
        <4>1. n \in 1..n /\ n \in 1..Len(g) /\ n # Len(g)
          BY <1>2, <3>1, <3>3
        <4>2. g[n].taken
          BY <4>1 DEF Nested
        <4>3. SubSeq(g, 1, n)[n] = g[n]
          BY <3>2, <4>1
        <4> QED
          BY <4>2, <4>3, Zenon
      <3> QED
        BY <2>3, <3>1, <3>2, <3>3, Zenon
    <2> QED
      BY <2>2, <2>3, <2>4, <2>5, <2>6, <2>7, Zenon
  <1> QED
    BY <1>3, <1>4, Zenon

\* The innermost call of ifelse or ifdef and its group are replaced by others.
LEMMA NestedAgain ==
  ASSUME NEW s \in Seq(Frame), NEW g \in Seq(Group), Nested(s, g), s # <<>>, Top(s).fn # "parseFile",
         NEW f \in Frame, NEW e \in Group, f.fn # "parseFile", Matches(f, e), e.live
  PROVE  Nested(WithTop(s, f), WithTop(g, e))
  <1>1. /\ g # <<>> /\ Nested(Pop(s), Pop(g))
        /\ Len(Pop(g)) # 0 => Pop(g)[Len(Pop(g))].taken
    BY TopFits, Zenon
  <1>2. PICK n : n = Len(s) - 1 /\ n \in 0..Len(s)
    BY TopIs
  <1>3. PICK m : m = Len(g) - 1 /\ m \in 0..Len(g)
    BY <1>1, TopIs
  <1>4. Pop(s) \in Seq(Frame)
    <2>1. SubSeq(s, 1, n) \in Seq(Frame)
      BY <1>2, Cut
    <2> QED
      BY <1>2, <2>1, Zenon DEF Pop
  <1>5. Pop(g) \in Seq(Group)
    <2>1. SubSeq(g, 1, m) \in Seq(Group)
      BY <1>3, Cut
    <2> QED
      BY <1>3, <2>1, Zenon DEF Pop
  <1>6. PICK t : t = Pop(s)
    OBVIOUS
  <1>7. PICK h : h = Pop(g)
    OBVIOUS
  <1>8. t \in Seq(Frame) /\ h \in Seq(Group) /\ Nested(t, h) /\ (Len(h) # 0 => h[Len(h)].taken)
    BY <1>1, <1>4, <1>5, <1>6, <1>7, Zenon
  <1>9. Nested(Append(t, f), Append(h, e))
    BY <1>8, NestedCall
  <1> QED
    BY <1>6, <1>7, <1>9, Zenon DEF WithTop

-----------------------------------------------------------------------------
(***************************************************************************)
(* Files and the conditionals they begin in                                *)
(***************************************************************************)
\* What a frame holds.
LEMMA FrameIs ==
  ASSUME NEW f \in Frame
  PROVE  /\ f.fn \in {"parseFile", "ifelse", "ifdef"}
         /\ f.fn = "parseFile" => f.base \in Nat
         /\ f.fn = "ifelse" => f.cond \in BOOLEAN /\ f.done \in BOOLEAN
         /\ f.fn = "ifdef" => f.cond \in BOOLEAN
  BY DEF Frame

\* A file on the stack begins in a number of conditionals.
LEMMA BaseNat ==
  ASSUME NEW s \in Seq(Frame), NEW j \in 1..Len(s), IsFile(s, j)
  PROVE  s[j].base \in Nat
  <1>1. s[j] \in Frame
    OBVIOUS
  <1> QED
    BY <1>1, FrameIs, Zenon DEF IsFile

\* A call of ifelse or ifdef leaves the files as they are.
LEMMA BasesCall ==
  ASSUME NEW s \in Seq(Frame), NEW n \in Nat, BasesOf(s, n), NEW f \in Frame, f.fn # "parseFile"
  PROVE  BasesOf(Append(s, f), n)
  <1>1. PICK t : t = Append(s, f)
    OBVIOUS
  <1>2. /\ Len(t) = Len(s) + 1 /\ (\A i \in 1..Len(s) : t[i] = s[i])
        /\ t[Len(s) + 1] = f /\ Len(s) \in Nat
    BY <1>1, Appended
  <1>3. \A j \in 1..Len(t) : IsFile(t, j) => j \in 1..Len(s) /\ IsFile(s, j) /\ t[j] = s[j]
    BY <1>2 DEF IsFile
  <1>4. ASSUME NEW j, j \in 1..Len(t), IsFile(t, j)
        PROVE  t[j].base <= n /\ \A k \in j..Len(t) : IsFile(t, k) => t[j].base <= t[k].base
    <2>1. j \in 1..Len(s) /\ IsFile(s, j) /\ t[j] = s[j]
      BY <1>3, <1>4
    <2>2. s[j].base <= n /\ \A k \in j..Len(s) : IsFile(s, k) => s[j].base <= s[k].base
      BY <2>1 DEF BasesOf
    <2>3. ASSUME NEW k, k \in j..Len(t), IsFile(t, k) PROVE t[j].base <= t[k].base
      <3>1. k \in 1..Len(t)
        BY <1>2, <2>1, <2>3
      <3>2. k \in 1..Len(s) /\ IsFile(s, k) /\ t[k] = s[k]
        BY <1>3, <2>3, <3>1
      <3>3. k \in j..Len(s)
        BY <1>2, <2>1, <2>3, <3>2
      <3> QED
        BY <2>1, <2>2, <3>2, <3>3, Zenon
    <2> QED
      BY <2>1, <2>2, <2>3, Zenon
  <1> QED
    BY <1>1, <1>4, Zenon DEF BasesOf

\* A file that is included begins where the line stands.
LEMMA BasesFile ==
  ASSUME NEW s \in Seq(Frame), NEW n \in Nat, BasesOf(s, n), NEW f \in Frame, f.fn = "parseFile",
         f.base = n
  PROVE  BasesOf(Append(s, f), n)
  <1>1. PICK t : t = Append(s, f)
    OBVIOUS
  <1>2. /\ Len(t) = Len(s) + 1 /\ (\A i \in 1..Len(s) : t[i] = s[i])
        /\ t[Len(s) + 1] = f /\ Len(s) \in Nat
    BY <1>1, Appended
  <1>3. \A j \in 1..Len(t) : j # Len(t) => j \in 1..Len(s) /\ t[j] = s[j] /\ (IsFile(t, j) => IsFile(s, j))
    BY <1>2 DEF IsFile
  <1>4. ASSUME NEW j, j \in 1..Len(t), IsFile(t, j)
        PROVE  t[j].base <= n
    <2>1. CASE j = Len(t)
      BY <1>2, <2>1
    <2>2. CASE j # Len(t)
      BY <1>3, <1>4, <2>2 DEF BasesOf
    <2> QED
      BY <2>1, <2>2
  <1>5. ASSUME NEW j, j \in 1..Len(t), IsFile(t, j), NEW k, k \in j..Len(t), IsFile(t, k)
        PROVE  t[j].base <= t[k].base
    <2>1. CASE k = Len(t)
      <3>1. t[k].base = n
        BY <1>2, <2>1
      <3> QED
        BY <1>4, <1>5, <3>1
    <2>2. CASE k # Len(t)
      <3>1. k \in 1..Len(t) /\ j # Len(t)
        BY <1>2, <1>5, <2>2
      <3>2. j \in 1..Len(s) /\ t[j] = s[j] /\ IsFile(s, j) /\ k \in 1..Len(s) /\ t[k] = s[k] /\ IsFile(s, k)
        BY <1>3, <1>5, <2>2, <3>1
      <3>3. k \in j..Len(s)
        BY <1>2, <1>5, <3>2
      <3>4. s[j].base <= s[k].base
        BY <3>2, <3>3 DEF BasesOf
      <3> QED
        BY <3>2, <3>4, Zenon
    <2> QED
      BY <2>1, <2>2
  <1> QED
    BY <1>1, <1>4, <1>5, Zenon DEF BasesOf

\* Calls return.
LEMMA BasesCut ==
  ASSUME NEW s \in Seq(Frame), NEW n \in Nat, BasesOf(s, n), NEW m \in 0..Len(s)
  PROVE  BasesOf(SubSeq(s, 1, m), n)
  <1>1. PICK t : t = SubSeq(s, 1, m)
    OBVIOUS
  <1>2. Len(t) = m /\ (\A i \in 1..m : t[i] = s[i]) /\ Len(s) \in Nat /\ m <= Len(s) /\ m \in Nat
    BY <1>1, Cut
  <1>3. \A j \in 1..Len(t) : j \in 1..Len(s) /\ t[j] = s[j] /\ (IsFile(t, j) => IsFile(s, j))
    BY <1>2 DEF IsFile
  <1>4. ASSUME NEW j, j \in 1..Len(t), IsFile(t, j)
        PROVE  t[j].base <= n
    BY <1>3, <1>4 DEF BasesOf
  <1>5. ASSUME NEW j, j \in 1..Len(t), IsFile(t, j), NEW k, k \in j..Len(t), IsFile(t, k)
        PROVE  t[j].base <= t[k].base
    <2>1. k \in 1..Len(t) /\ k \in j..Len(s)
      BY <1>2, <1>5
    <2>2. j \in 1..Len(s) /\ t[j] = s[j] /\ IsFile(s, j) /\ t[k] = s[k] /\ IsFile(s, k)
      BY <1>3, <1>5, <2>1
    <2>3. s[j].base <= s[k].base
      BY <2>1, <2>2 DEF BasesOf
    <2> QED
      BY <2>2, <2>3, Zenon
  <1> QED
    BY <1>1, <1>4, <1>5, Zenon DEF BasesOf

\* Another number of open conditionals that no file exceeds.
LEMMA BasesBound ==
  ASSUME NEW s \in Seq(Frame), NEW n \in Nat, BasesOf(s, n), NEW m,
         \A j \in 1..Len(s) : IsFile(s, j) => s[j].base <= m
  PROVE  BasesOf(s, m)
  BY DEF BasesOf

\* More conditionals are open.
LEMMA BasesMore ==
  ASSUME NEW s \in Seq(Frame), NEW n \in Nat, BasesOf(s, n), NEW m \in Nat, n <= m
  PROVE  BasesOf(s, m)
  <1>1. ASSUME NEW j, j \in 1..Len(s), IsFile(s, j) PROVE s[j].base <= m
    <2>1. s[j].base \in Nat
      BY <1>1, BaseNat
    <2>2. s[j].base <= n
      BY <1>1 DEF BasesOf
    <2> QED
      BY <2>1, <2>2
  <1> QED
    BY <1>1, BasesBound

\* The file that is being read is that of the last call of parseFile.
LEMMA BaseIs ==
  ASSUME Types, pc = "run", BasesOf(stack, Len(groups))
  PROVE  \E f \in 1..Len(stack) :
           /\ IsFile(stack, f) /\ \A k \in f+1..Len(stack) : ~IsFile(stack, k)
           /\ Base = stack[f].base /\ Base \in 0..Len(groups)
           /\ \A j \in 1..Len(stack) : IsFile(stack, j) => stack[j].base <= Base
           /\ f = CHOOSE j \in 1..Len(stack) :
                    stack[j].fn = "parseFile" /\ \A k \in j+1..Len(stack) : stack[k].fn # "parseFile"
  <1>1. stack \in Seq(Frame) /\ stack # <<>> /\ stack[1].fn = "parseFile" /\ groups \in Seq(Group)
    BY DEF Types, TypeOK
  <1>2. Len(stack) \in Nat /\ Len(stack) >= 1 /\ Len(groups) \in Nat
    BY <1>1
  <1> DEFINE T == {d \in 0..Len(stack)-1 : IsFile(stack, Len(stack) - d)}
  <1>3. T \in SUBSET Nat /\ T # {}
    <2>1. Len(stack) - 1 \in 0..Len(stack)-1 /\ Len(stack) - (Len(stack) - 1) = 1
      BY <1>2
    <2>2. IsFile(stack, Len(stack) - (Len(stack) - 1))
      BY <1>1, <2>1 DEF IsFile
    <2>3. Len(stack) - 1 \in T
      BY <2>1, <2>2
    <2>4. \A e \in T : e \in Nat
      BY <1>2
    <2> HIDE DEF T
    <2> QED
      BY <2>3, <2>4
  <1>4. PICK d \in T : \A e \in T : ~(e < d)
    <2> HIDE DEF T
    <2> QED
      BY <1>3, Least
  <1>5. PICK f : f = Len(stack) - d /\ f \in 1..Len(stack) /\ d \in 0..Len(stack)-1
    BY <1>2, <1>4
  <1>6. IsFile(stack, f)
    BY <1>4, <1>5
  <1>7. ASSUME NEW k, k \in f+1..Len(stack) PROVE ~IsFile(stack, k)
    <2>1. Len(stack) - k \in 0..Len(stack)-1 /\ Len(stack) - k < d /\ Len(stack) - (Len(stack) - k) = k
      BY <1>2, <1>5, <1>7
    <2>2. ASSUME IsFile(stack, k) PROVE Len(stack) - k \in T
      BY <2>1, <2>2
    <2> QED
      BY <1>4, <2>1, <2>2
  <1>8. \A k \in 1..Len(stack) : IsFile(stack, k) => k <= f
    <2>1. ASSUME NEW k, k \in 1..Len(stack), IsFile(stack, k) PROVE k <= f
      <3>1. CASE k <= f
        BY <3>1
      <3>2. CASE ~(k <= f)
        <4>1. k \in f+1..Len(stack)
          BY <1>2, <1>5, <2>1, <3>2
        <4> QED
          BY <1>7, <2>1, <4>1
      <3> QED
        BY <3>1, <3>2
    <2> QED
      BY <2>1
  <1> DEFINE F == {j \in 1..Len(stack) : stack[j].fn = "parseFile"}
  <1>9. f \in F /\ (\A k \in F : k <= f) /\ F \subseteq Int
    <2>1. f \in F
      BY <1>5, <1>6 DEF IsFile
    <2>2. \A k \in F : k <= f
      BY <1>8 DEF IsFile
    <2> QED
      BY <2>1, <2>2
  <1>10. (CHOOSE j \in F : \A k \in F : k <= j) = f
    <2> HIDE DEF F
    <2>1. PICK c : c = CHOOSE j \in F : \A k \in F : k <= j
      OBVIOUS
    <2>2. c \in F /\ \A k \in F : k <= c
      BY <1>9, <2>1, Zenon
    <2>3. c <= f /\ f <= c /\ c \in Int /\ f \in Int
      BY <1>9, <2>2
    <2>4. c = f
      BY <2>3
    <2> QED
      BY <2>1, <2>4, Zenon
  <1>11. Base = stack[f].base
    BY <1>10, Zenon DEF Base
  <1>12. Base \in 0..Len(groups)
    <2>1. Base \in Nat
      BY <1>1, <1>5, <1>6, <1>11, BaseNat
    <2>2. Base <= Len(groups)
      BY <1>5, <1>6, <1>11 DEF BasesOf
    <2> QED
      BY <1>2, <2>1, <2>2
  <1>13. ASSUME NEW j, j \in 1..Len(stack), IsFile(stack, j) PROVE stack[j].base <= Base
    <2>1. j <= f
      BY <1>8, <1>13
    <2>2. f \in j..Len(stack)
      BY <1>2, <1>5, <1>13, <2>1
    <2> QED
      BY <1>6, <1>11, <1>13, <2>2 DEF BasesOf
  <1>14. f = CHOOSE j \in 1..Len(stack) :
               stack[j].fn = "parseFile" /\ \A k \in j+1..Len(stack) : stack[k].fn # "parseFile"
    <2> DEFINE P(j) == stack[j].fn = "parseFile" /\ \A k \in j+1..Len(stack) : stack[k].fn # "parseFile"
    <2>1. P(f)
      BY <1>6, <1>7 DEF IsFile
    <2>2. ASSUME NEW j, j \in 1..Len(stack), P(j) PROVE j = f
      <3>1. j <= f
        BY <1>8, <2>2 DEF IsFile
      <3>2. CASE j < f
        <4>1. f \in j+1..Len(stack)
          BY <1>2, <1>5, <2>2, <3>2
        <4> QED
          BY <1>6, <2>2, <4>1 DEF IsFile
      <3> QED
        BY <1>2, <1>5, <2>2, <3>1, <3>2
    <2> HIDE DEF P
    <2>3. f = CHOOSE j \in 1..Len(stack) : P(j)
      BY <1>5, <2>1, <2>2, Zenon
    <2> QED
      BY <2>3 DEF P
  <1> QED
    BY <1>5, <1>6, <1>7, <1>11, <1>12, <1>13, <1>14, Zenon

-----------------------------------------------------------------------------
(***************************************************************************)
(* What a line makes of the open conditionals                              *)
(***************************************************************************)
\* The group that a line opens, and the one that elif and else lead to.
NewGroup(l) == [kind |-> l.d, live |-> Live, taken |-> Live /\ Truth(l), chosen |-> Truth(l), last |-> FALSE]
NextGroup(g, cond, last) == [g EXCEPT !.taken = g.live /\ ~g.chosen /\ cond, !.chosen = @ \/ cond,
                                      !.last = last]
Condition(l) == IF l.d = "elif" THEN Holds(l.cond) ELSE TRUE

\* The fields of the next group.
LEMMA NextGroupIs ==
  ASSUME NEW g \in Group, NEW c \in BOOLEAN, NEW b \in BOOLEAN
  PROVE  LET e == NextGroup(g, c, b) IN
         /\ e \in Group /\ e.kind = g.kind /\ e.live = g.live /\ e.last = b
         /\ e.taken = (g.live /\ ~g.chosen /\ c) /\ e.chosen = (g.chosen \/ c)
  BY DEF Group, NextGroup

\* Conditions are true or false.
LEMMA ConditionType ==
  ASSUME NEW l
  PROVE  /\ Condition(l) \in BOOLEAN
         /\ l.d \in Opening => Truth(l) \in BOOLEAN
  <1>1. \A n : Defined(n) \in BOOLEAN /\ Holds(n) \in BOOLEAN
    BY DEF Defined, Holds
  <1>2. Condition(l) \in BOOLEAN
    BY <1>1 DEF Condition
  <1>3. ASSUME l.d \in Opening PROVE Truth(l) \in BOOLEAN
    <2>1. CASE l.d = "if"
      BY <1>1, <2>1 DEF Truth
    <2>2. CASE l.d = "ifdef"
      BY <1>1, <2>2 DEF Truth
    <2>3. CASE l.d = "ifndef"
      <3>1. (~Defined(l.key)) \in BOOLEAN
        BY <1>1
      <3> QED
        BY <2>3, <3>1 DEF Truth
    <2> QED
      BY <1>3, <2>1, <2>2, <2>3 DEF Opening
  <1> QED
    BY <1>2, <1>3

\* The groups after a line, by its directive.
LEMMA AfterIs ==
  ASSUME NEW l
  PROVE  /\ l.d \in Opening => GroupsAfter(l) = Append(groups, NewGroup(l))
         /\ l.d \in {"elif", "else"} =>
              GroupsAfter(l) = WithTop(groups, NextGroup(Top(groups), Condition(l), l.d = "else"))
         /\ l.d = "endif" => GroupsAfter(l) = Pop(groups)
         /\ l.d \notin Opening \cup {"elif", "else", "endif"} => GroupsAfter(l) = groups
  <1>1. ASSUME l.d \in Opening PROVE GroupsAfter(l) = Append(groups, NewGroup(l))
    <2>1. l.d # "elif" /\ l.d # "else" /\ l.d # "endif"
      BY <1>1 DEF Opening
    <2> QED
      BY <1>1, <2>1, Zenon DEF GroupsAfter, NewGroup
  <1>2. ASSUME l.d = "elif"
        PROVE  GroupsAfter(l) = WithTop(groups, NextGroup(Top(groups), Condition(l), l.d = "else"))
    BY <1>2 DEF GroupsAfter, NextGroup, Condition, Opening
  <1>3. ASSUME l.d = "else"
        PROVE  GroupsAfter(l) = WithTop(groups, NextGroup(Top(groups), Condition(l), l.d = "else"))
    BY <1>3 DEF GroupsAfter, NextGroup, Condition, Opening
  <1>4. ASSUME l.d = "endif" PROVE GroupsAfter(l) = Pop(groups)
    BY <1>4 DEF GroupsAfter, Opening
  <1>5. ASSUME l.d \notin Opening \cup {"elif", "else", "endif"} PROVE GroupsAfter(l) = groups
    BY <1>5 DEF GroupsAfter, Opening
  <1> QED
    BY <1>1, <1>2, <1>3, <1>4, <1>5

\* A new group is a group.
LEMMA NewGroupType ==
  ASSUME Types, NEW l, l.d \in Opening
  PROVE  /\ NewGroup(l) \in Group /\ NewGroup(l).kind = l.d /\ NewGroup(l).live = Live
         /\ NewGroup(l).taken = (Live /\ Truth(l)) /\ NewGroup(l).chosen = Truth(l) /\ NewGroup(l).last = FALSE
  <1>1. groups \in Seq(Group)
    BY DEF Types
  <1>2. Live \in BOOLEAN
    <2>1. CASE groups = <<>>
      BY <2>1 DEF Live
    <2>2. CASE groups # <<>>
      <3>1. Top(groups) \in Group
        BY <1>1, <2>2, TopIs, Zenon
      <3>2. Top(groups).taken \in BOOLEAN
        BY <3>1 DEF Group
      <3> QED
        BY <2>2, <3>2 DEF Live
    <2> QED
      BY <2>1, <2>2
  <1>3. Truth(l) \in BOOLEAN
    BY ConditionType
  <1> QED
    BY <1>2, <1>3 DEF NewGroup, Group

\* A well formed line leaves the groups of the files that are read open.
LEMMA AfterType ==
  ASSUME Types, pc = "run", BasesOf(stack, Len(groups)), NEW l, WellFormed(l)
  PROVE  /\ GroupsAfter(l) \in Seq(Group) /\ Len(GroupsAfter(l)) \in Nat
         /\ l.d \in {"elif", "else", "endif"} => groups # <<>> /\ Len(groups) > Base
         /\ BasesOf(stack, Len(GroupsAfter(l)))
  <1>1. groups \in Seq(Group) /\ Len(groups) \in Nat /\ stack \in Seq(Frame)
    BY DEF Types, TypeOK
  <1>2. PICK f \in 1..Len(stack) :
           /\ Base = stack[f].base /\ Base \in 0..Len(groups)
           /\ \A j \in 1..Len(stack) : IsFile(stack, j) => stack[j].base <= Base
    BY BaseIs
  <1>3. ASSUME l.d \in {"elif", "else", "endif"} PROVE groups # <<>> /\ Len(groups) > Base
    <2>1. Len(groups) > Base
      BY <1>3 DEF WellFormed
    <2>2. Len(groups) # 0
      BY <1>1, <1>2, <2>1
    <2> QED
      BY <2>1, <2>2
  <1>4. CASE l.d \in Opening
    <2>1. NewGroup(l) \in Group
      BY <1>4, NewGroupType, Zenon
    <2>2. GroupsAfter(l) = Append(groups, NewGroup(l))
      BY <1>4, AfterIs, Zenon
    <2>3. GroupsAfter(l) \in Seq(Group) /\ Len(GroupsAfter(l)) = Len(groups) + 1
      BY <1>1, <2>1, <2>2, Appended
    <2>4. Len(GroupsAfter(l)) \in Nat /\ Len(groups) <= Len(GroupsAfter(l))
      BY <1>1, <2>3
    <2> QED
      BY <1>1, <1>4, <2>3, <2>4, BasesMore DEF Opening
  <1>5. CASE l.d \in {"elif", "else"}
    <2>1. groups # <<>>
      BY <1>3, <1>5
    <2>2. PICK e : e = NextGroup(Top(groups), Condition(l), l.d = "else")
      OBVIOUS
    <2>3. e \in Group
      <3>1. Top(groups) \in Group
        BY <1>1, <2>1, TopIs, Zenon
      <3>2. Condition(l) \in BOOLEAN /\ (l.d = "else") \in BOOLEAN
        BY ConditionType
      <3> QED
        BY <2>2, <3>1, <3>2, NextGroupIs, Zenon
    <2>4. GroupsAfter(l) = WithTop(groups, e)
      BY <1>5, <2>2, AfterIs, Zenon
    <2>5. PICK n : n = Len(groups) - 1 /\ n \in 0..Len(groups)
      BY <1>1, <2>1, TopIs
    <2>6. SubSeq(groups, 1, n) \in Seq(Group) /\ Len(SubSeq(groups, 1, n)) = n
      BY <1>1, <2>5, Cut
    <2>7. WithTop(groups, e) = Append(SubSeq(groups, 1, n), e)
      BY <2>5, Zenon DEF WithTop, Pop
    <2>8. GroupsAfter(l) \in Seq(Group) /\ Len(GroupsAfter(l)) = n + 1
      BY <2>3, <2>4, <2>6, <2>7, Appended
    <2>9. Len(GroupsAfter(l)) = Len(groups)
      BY <1>1, <2>5, <2>8
    <2> QED
      BY <1>1, <1>3, <2>8, <2>9, Zenon
  <1>6. CASE l.d = "endif"
    <2>1. groups # <<>> /\ Len(groups) > Base
      BY <1>3, <1>6
    <2>2. PICK n : n = Len(groups) - 1 /\ n \in 0..Len(groups)
      BY <1>1, <2>1, TopIs
    <2>3. SubSeq(groups, 1, n) \in Seq(Group) /\ Len(SubSeq(groups, 1, n)) = n
      BY <1>1, <2>2, Cut
    <2>4. GroupsAfter(l) = SubSeq(groups, 1, n)
      BY <1>6, <2>2, AfterIs, Zenon DEF Pop
    <2>5. ASSUME NEW j, j \in 1..Len(stack), IsFile(stack, j) PROVE stack[j].base <= n
      <3>1. stack[j].base \in Nat
        BY <1>1, <2>5, BaseNat
      <3> QED
        BY <1>1, <1>2, <2>1, <2>2, <2>5, <3>1
    <2>6. BasesOf(stack, n)
      BY <1>1, <2>5, BasesBound
    <2>7. GroupsAfter(l) \in Seq(Group) /\ Len(GroupsAfter(l)) = n /\ n \in Nat
      BY <2>2, <2>3, <2>4
    <2> QED
      BY <2>1, <2>6, <2>7, Zenon
  <1>7. CASE l.d \notin Opening \cup {"elif", "else", "endif"}
    <2>1. GroupsAfter(l) = groups
      BY <1>7, AfterIs, Zenon
    <2> QED
      BY <1>1, <1>3, <2>1, Zenon
  <1> QED
    BY <1>4, <1>5, <1>6, <1>7

-----------------------------------------------------------------------------
(***************************************************************************)
(* The stack stays a stack with a file at the bottom                       *)
(***************************************************************************)
StackOK(s) == s \in Seq(Frame) /\ s # <<>> /\ s[1].fn = "parseFile"

\* A call.
LEMMA PushOK ==
  ASSUME NEW s, StackOK(s), NEW f \in Frame
  PROVE  StackOK(Append(s, f))
  <1>1. s \in Seq(Frame) /\ s # <<>> /\ s[1].fn = "parseFile"
    BY DEF StackOK
  <1>2. PICK t : t = Append(s, f)
    OBVIOUS
  <1>3. t \in Seq(Frame) /\ Len(t) = Len(s) + 1 /\ Len(s) \in Nat /\ (\A i \in 1..Len(s) : t[i] = s[i])
    BY <1>1, <1>2, Appended
  <1>4. 1 \in 1..Len(s) /\ Len(t) # 0
    BY <1>1, <1>3
  <1>5. StackOK(t)
    BY <1>1, <1>3, <1>4 DEF StackOK
  <1> QED
    BY <1>2, <1>5, Zenon

\* A return from ifelse or ifdef.
LEMMA PopOK ==
  ASSUME NEW s, StackOK(s), Top(s).fn # "parseFile", NEW n \in Nat, BasesOf(s, n)
  PROVE  StackOK(Pop(s)) /\ BasesOf(Pop(s), n)
  <1>1. s \in Seq(Frame) /\ s # <<>> /\ s[1].fn = "parseFile"
    BY DEF StackOK
  <1>2. PICK m : m = Len(s) - 1 /\ m \in 0..Len(s) /\ Len(s) \in Nat /\ Top(s) = s[Len(s)]
    BY <1>1, TopIs
  <1>3. PICK t : t = SubSeq(s, 1, m)
    OBVIOUS
  <1>4. t \in Seq(Frame) /\ Len(t) = m /\ (\A i \in 1..m : t[i] = s[i]) /\ BasesOf(t, n)
    BY <1>1, <1>2, <1>3, Cut, BasesCut
  <1>5. Len(s) # 1
    BY <1>1, <1>2
  <1>6. 1 \in 1..m /\ m # 0
    BY <1>1, <1>2, <1>5
  <1>7. StackOK(t)
    BY <1>1, <1>4, <1>6 DEF StackOK
  <1> QED
    BY <1>2, <1>3, <1>4, <1>7, Zenon DEF Pop

\* A return followed by a call.
LEMMA AgainOK ==
  ASSUME NEW s, StackOK(s), Top(s).fn # "parseFile", NEW n \in Nat, BasesOf(s, n),
         NEW f \in Frame, f.fn # "parseFile"
  PROVE  StackOK(WithTop(s, f)) /\ BasesOf(WithTop(s, f), n)
  <1>1. PICK t : t = Pop(s)
    OBVIOUS
  <1>2. StackOK(t) /\ BasesOf(t, n) /\ t \in Seq(Frame)
    BY <1>1, PopOK, Zenon DEF StackOK
  <1>3. StackOK(Append(t, f)) /\ BasesOf(Append(t, f), n)
    BY <1>2, PushOK, BasesCall
  <1> QED
    BY <1>1, <1>3, Zenon DEF WithTop

-----------------------------------------------------------------------------
(***************************************************************************)
(* Lines                                                                   *)
(***************************************************************************)
\* What a line can do to the stack.
Stays == stack' = stack
Calls1(f) == f \in Frame /\ f.fn # "parseFile" /\ stack' = Append(stack, f)
Includes(l) == l.d = "include" /\ stack' = Append(stack, ParseFrame)
Returns == Top(stack).fn # "parseFile" /\ stack' = Pop(stack)
Repeats(f) == /\ Top(stack).fn # "parseFile" /\ f \in Frame /\ f.fn # "parseFile"
              /\ stack' = WithTop(stack, f)

\* What a line can do to the symbols.
Keeps == UNCHANGED <<map, chase, marks>> /\ pc' \in {pc, "exit1"}

\* Frames of ifelse and ifdef.
LEMMA FramesAre ==
  ASSUME NEW c \in BOOLEAN, NEW d \in BOOLEAN
  PROVE  /\ IfElseFrame(c, d) \in Frame /\ IfElseFrame(c, d).fn = "ifelse"
         /\ IfElseFrame(c, d).cond = c /\ IfElseFrame(c, d).done = d
         /\ IfDefFrame(c) \in Frame /\ IfDefFrame(c).fn = "ifdef" /\ IfDefFrame(c).cond = c
  BY DEF IfElseFrame, IfDefFrame, Frame

\* A directive that opens a group is a call.
LEMMA OpenCalls ==
  ASSUME NEW l, Open(l)
  PROVE  /\ \E f : Calls1(f)
         /\ Keeps /\ out' = NULL
  <1>1. l.d \in Opening /\ Truth(l) \in BOOLEAN
    BY ConditionType DEF Open
  <1>2. CASE l.d = "if"
    <2>1. stack' = Append(stack, IfElseFrame(Truth(l), FALSE))
      BY <1>2 DEF Open
    <2>2. Calls1(IfElseFrame(Truth(l), FALSE))
      <3>1. IfElseFrame(Truth(l), FALSE) \in Frame /\ IfElseFrame(Truth(l), FALSE).fn = "ifelse"
        BY <1>1, FramesAre
      <3> QED
        BY <2>1, <3>1 DEF Calls1
    <2> QED
      BY <2>2 DEF Open, Keeps
  <1>3. CASE l.d # "if"
    <2>1. stack' = Append(stack, IfDefFrame(Truth(l)))
      BY <1>3 DEF Open
    <2>2. Calls1(IfDefFrame(Truth(l)))
      <3>1. IfDefFrame(Truth(l)) \in Frame /\ IfDefFrame(Truth(l)).fn = "ifdef"
        BY <1>1, FramesAre
      <3> QED
        BY <2>1, <3>1 DEF Calls1
    <2> QED
      BY <2>2 DEF Open, Keeps
  <1> QED
    BY <1>2, <1>3

\* else and elif repeat the call.
LEMMA AgainRepeats ==
  ASSUME NEW f \in Frame, f.fn # "parseFile", Top(stack).fn # "parseFile", Again(f)
  PROVE  Repeats(f) /\ Keeps
  BY DEF Again, Repeats, Keeps

\* A line does one of these to the stack, and one of these to the symbols.
LEMMA LineDoes ==
  ASSUME Types, NEW l, ReadLine(l)
  PROVE  /\ \/ Stays \/ (\E f : Calls1(f)) \/ Includes(l) \/ Returns \/ (\E f : Repeats(f))
         /\ Keeps \/ Define(l) \/ Undef(l)
  <1>1. CASE ParseFile(l)
    <2>1. CASE Define(l)
      BY <2>1 DEF Define, Stays
    <2>2. CASE Undef(l)
      BY <2>2 DEF Undef, Stays
    <2>3. CASE Open(l)
      BY <2>3, OpenCalls
    <2>4. CASE Include(l)
      BY <2>4 DEF Include, Includes, Stays, Keeps
    <2>5. CASE (l.d = "text" /\ Write(Expanded(l.words))) \/ (l.d \in {"elif", "else", "endif"} /\ Write(<<l.d>>))
      BY <2>5 DEF Write, Stays, Keeps
    <2> QED
      BY <1>1, <2>1, <2>2, <2>3, <2>4, <2>5, Zenon DEF ParseFile
  <1>2. CASE IfElse(l)
    <2>1. Top(stack).fn = "ifelse" /\ Top(stack).fn # "parseFile"
      BY <1>2 DEF IfElse
    <2>2. CASE Return
      BY <2>1, <2>2 DEF Return, Returns, Keeps
    <2>3. CASE Skip(l) \/ Copy(l)
      BY <2>3 DEF Skip, Copy, Write, Stays, Keeps
    <2>4. CASE Define(l)
      BY <2>4 DEF Define, Stays
    <2>5. CASE Again(IfElseFrame(TRUE, FALSE)) \/ Again(IfElseFrame(Holds(l.cond), FALSE)) \/ Again(Done)
      <3>1. PICK c \in BOOLEAN, d \in BOOLEAN : Again(IfElseFrame(c, d))
        <4>1. Holds(l.cond) \in BOOLEAN
          BY DEF Holds
        <4> QED
          BY <2>5, <4>1, Zenon DEF Done
      <3>2. IfElseFrame(c, d) \in Frame /\ IfElseFrame(c, d).fn # "parseFile"
        BY FramesAre
      <3> QED
        BY <2>1, <3>1, <3>2, AgainRepeats, Zenon
    <2> QED
      BY <1>2, <2>2, <2>3, <2>4, <2>5, Zenon DEF IfElse
  <1>3. CASE IfDef(l)
    <2>1. Top(stack).fn = "ifdef" /\ Top(stack).fn # "parseFile"
      BY <1>3 DEF IfDef
    <2>2. CASE Return
      BY <2>1, <2>2 DEF Return, Returns, Keeps
    <2>3. CASE Skip(l) \/ Copy(l)
      BY <2>3 DEF Skip, Copy, Write, Stays, Keeps
    <2>4. CASE Define(l)
      BY <2>4 DEF Define, Stays
    <2>5. CASE Undef(l)
      BY <2>5 DEF Undef, Stays
    <2>6. CASE Open(l)
      BY <2>6, OpenCalls
    <2>7. CASE Include(l)
      BY <2>7 DEF Include, Includes, Stays, Keeps
    <2>8. CASE Again(IfDefFrame(~Top(stack).cond))
      <3>1. PICK c \in BOOLEAN : c = ~Top(stack).cond
        OBVIOUS
      <3>2. IfDefFrame(c) \in Frame /\ IfDefFrame(c).fn # "parseFile"
        BY FramesAre
      <3> QED
        BY <2>1, <2>8, <3>1, <3>2, AgainRepeats, Zenon
    <2> QED
      BY <1>3, <2>2, <2>3, <2>4, <2>5, <2>6, <2>7, <2>8, Zenon DEF IfDef
  <1> QED
    BY <1>1, <1>2, <1>3, Zenon DEF ReadLine

\* The stack and the groups keep their types.
LEMMA LineKeepsStack ==
  ASSUME Types, BasesOf(stack, Len(groups)), NEW l, ReadLine(l)
  PROVE  /\ StackOK(stack') /\ groups' \in Seq(Group)
         /\ BasesOf(stack', Len(groups'))
  <1>1. pc = "run" /\ WellFormed(l) /\ groups' = GroupsAfter(l)
    BY DEF ReadLine
  <1>2. StackOK(stack) /\ groups \in Seq(Group) /\ stack \in Seq(Frame)
    BY <1>1 DEF Types, TypeOK, StackOK
  <1>3. PICK n : n = Len(groups') /\ n \in Nat /\ BasesOf(stack, n) /\ groups' \in Seq(Group)
    BY <1>1, AfterType
  <1>4. CASE Stays
    BY <1>2, <1>3, <1>4, Zenon DEF Stays
  <1>5. CASE \E f : Calls1(f)
    <2>1. PICK f : f \in Frame /\ f.fn # "parseFile" /\ stack' = Append(stack, f)
      BY <1>5 DEF Calls1
    <2>2. StackOK(Append(stack, f)) /\ BasesOf(Append(stack, f), n)
      BY <1>2, <1>3, <2>1, PushOK, BasesCall
    <2> QED
      BY <1>3, <2>1, <2>2, Zenon
  <1>6. CASE Includes(l)
    <2>1. PICK f : f = ParseFrame
      OBVIOUS
    <2>2. f \in Frame /\ f.fn = "parseFile" /\ f.base = Len(groups) /\ stack' = Append(stack, f)
      <3>1. Len(groups) \in Nat
        BY <1>2
      <3> QED
        BY <1>6, <2>1, <3>1 DEF ParseFrame, Frame, Includes
    <2>3. n = Len(groups)
      <3>1. l.d \notin Opening \cup {"elif", "else", "endif"}
        BY <1>6 DEF Includes, Opening
      <3> QED
        BY <1>1, <1>3, <3>1, AfterIs, Zenon
    <2>4. StackOK(Append(stack, f)) /\ BasesOf(Append(stack, f), n)
      BY <1>2, <1>3, <2>2, <2>3, PushOK, BasesFile
    <2> QED
      BY <1>3, <2>2, <2>4, Zenon
  <1>7. CASE Returns
    <2>1. StackOK(Pop(stack)) /\ BasesOf(Pop(stack), n)
      BY <1>2, <1>3, <1>7, PopOK, Zenon DEF Returns
    <2> QED
      BY <1>3, <1>7, <2>1, Zenon DEF Returns
  <1>8. CASE \E f : Repeats(f)
    <2>1. PICK f : Top(stack).fn # "parseFile" /\ f \in Frame /\ f.fn # "parseFile" /\ stack' = WithTop(stack, f)
      BY <1>8 DEF Repeats
    <2>2. StackOK(WithTop(stack, f)) /\ BasesOf(WithTop(stack, f), n)
      BY <1>2, <1>3, <2>1, AgainOK, Zenon
    <2> QED
      BY <1>3, <2>1, <2>2, Zenon
  <1> QED
    BY <1>4, <1>5, <1>6, <1>7, <1>8, LineDoes

\* In a file, a line stands where C reads it, and the innermost group was opened by
\* a file that includes it.
LEMMA InFile ==
  ASSUME Types, pc = "run", BasesOf(stack, Len(groups)), Nested(stack, groups),
         Top(stack).fn = "parseFile"
  PROVE  Live /\ (Len(groups) # 0 => groups[Len(groups)].taken) /\ Base = Len(groups)
  <1>1. stack \in Seq(Frame) /\ stack # <<>> /\ groups \in Seq(Group)
    BY DEF Types, TypeOK
  <1>2. Top(stack).base = Len(groups) /\ (Len(groups) # 0 => groups[Len(groups)].taken)
    BY <1>1, TopFits, Zenon
  <1>3. Live
    <2>1. CASE groups = <<>>
      BY <2>1 DEF Live
    <2>2. CASE groups # <<>>
      <3>1. Top(groups) = groups[Len(groups)] /\ Len(groups) >= 1
        BY <1>1, <2>2, TopIs, Zenon
      <3>2. Len(groups) # 0
        BY <1>1, <3>1
      <3> QED
        BY <1>2, <3>1, <3>2, Zenon DEF Live
    <2> QED
      BY <2>1, <2>2
  <1>4. PICK f \in 1..Len(stack) : /\ \A k \in f+1..Len(stack) : ~IsFile(stack, k)
                                   /\ Base = stack[f].base
    BY BaseIs
  <1>5. Len(stack) \in Nat /\ Top(stack) = stack[Len(stack)]
    BY <1>1, TopIs, Zenon
  <1>6. f = Len(stack)
    <2>1. IsFile(stack, Len(stack))
      BY <1>5 DEF IsFile
    <2>2. ASSUME f # Len(stack) PROVE FALSE
      <3>1. Len(stack) \in f+1..Len(stack)
        BY <1>5, <2>2
      <3> QED
        BY <1>4, <2>1, <3>1
    <2> QED
      BY <2>2
  <1> QED
    BY <1>2, <1>3, <1>4, <1>5, <1>6, Zenon

\* In a call of ifelse or ifdef, a line stands in the group of the call.
LEMMA InGroup ==
  ASSUME Types, pc = "run", Nested(stack, groups), Top(stack).fn # "parseFile"
  PROVE  /\ stack # <<>> /\ stack \in Seq(Frame) /\ Top(stack) \in Frame
         /\ groups # <<>> /\ groups \in Seq(Group) /\ Top(groups) \in Group
         /\ Matches(Top(stack), Top(groups)) /\ Top(groups).live
         /\ Live = Copying(Top(stack)) /\ Live = Top(groups).taken
         /\ Nested(Pop(stack), Pop(groups))
         /\ Top(groups) = groups[Len(groups)]
  <1>1. stack \in Seq(Frame) /\ stack # <<>> /\ groups \in Seq(Group)
    BY DEF Types, TypeOK
  <1>2. /\ groups # <<>> /\ Matches(Top(stack), Top(groups)) /\ Top(groups).live
        /\ Nested(Pop(stack), Pop(groups))
    BY <1>1, TopFits, Zenon
  <1>3. Top(stack) \in Frame /\ Top(groups) \in Group /\ Top(groups) = groups[Len(groups)]
    BY <1>1, <1>2, TopIs, Zenon
  <1>4. Live = Top(groups).taken
    <2>1. Top(groups).taken \in BOOLEAN
      BY <1>3 DEF Group
    <2> QED
      BY <1>2, <2>1 DEF Live
  <1> QED
    BY <1>1, <1>2, <1>3, <1>4 DEF Matches

\* A group that opens where C reads is opened by a call.
LEMMA OpenFollows ==
  ASSUME Types, pc = "run", BasesOf(stack, Len(groups)), Nested(stack, groups), NEW l, Open(l), Live,
         groups' = GroupsAfter(l)
  PROVE  Nested(stack', groups')
  <1>1. stack \in Seq(Frame) /\ groups \in Seq(Group) /\ l.d \in Opening /\ Truth(l) \in BOOLEAN
    BY ConditionType DEF Types, TypeOK, Open
  <1>2. Len(groups) # 0 => groups[Len(groups)].taken
    <2>1. CASE Top(stack).fn = "parseFile"
      BY <2>1, InFile
    <2>2. CASE Top(stack).fn # "parseFile"
      <3>1. Live = Top(groups).taken /\ Top(groups) = groups[Len(groups)]
        BY <2>2, InGroup, Zenon
      <3> QED
        BY <3>1
    <2> QED
      BY <2>1, <2>2
  <1>3. PICK e : e = NewGroup(l)
    OBVIOUS
  <1>4. /\ e \in Group /\ e.kind = l.d /\ e.live = TRUE /\ e.taken = Truth(l)
        /\ e.chosen = Truth(l) /\ e.last = FALSE
    BY <1>1, <1>3, NewGroupType
  <1>5. groups' = Append(groups, e)
    BY <1>1, <1>3, AfterIs, Zenon
  <1>6. PICK f : f = IF l.d = "if" THEN IfElseFrame(Truth(l), FALSE) ELSE IfDefFrame(Truth(l))
    OBVIOUS
  <1>7. stack' = Append(stack, f)
    BY <1>6 DEF Open
  <1>8. f \in Frame /\ f.fn # "parseFile" /\ Matches(f, e)
    <2>1. CASE l.d = "if"
      <3>1. f \in Frame /\ f.fn = "ifelse" /\ f.cond = Truth(l) /\ f.done = FALSE
        BY <1>1, <1>6, <2>1, FramesAre
      <3> QED
        BY <1>1, <1>4, <2>1, <3>1 DEF Matches, Copying
    <2>2. CASE l.d # "if"
      <3>1. f \in Frame /\ f.fn = "ifdef" /\ f.cond = Truth(l)
        BY <1>1, <1>6, <2>2, FramesAre
      <3> QED
        BY <1>1, <1>4, <2>2, <3>1 DEF Matches, Copying
    <2> QED
      BY <2>1, <2>2
  <1>9. Nested(Append(stack, f), Append(groups, e))
    BY <1>1, <1>2, <1>4, <1>8, NestedCall
  <1> QED
    BY <1>5, <1>7, <1>9, Zenon

\* A file that is included where C reads.
LEMMA IncludeFollows ==
  ASSUME Types, pc = "run", BasesOf(stack, Len(groups)), Nested(stack, groups), NEW l, Include(l), Live,
         groups' = GroupsAfter(l)
  PROVE  Nested(stack', groups')
  <1>1. stack \in Seq(Frame) /\ groups \in Seq(Group) /\ l.d = "include" /\ Len(groups) \in Nat
    BY DEF Types, TypeOK, Include
  <1>2. Len(groups) # 0 => groups[Len(groups)].taken
    <2>1. CASE Top(stack).fn = "parseFile"
      BY <2>1, InFile
    <2>2. CASE Top(stack).fn # "parseFile"
      <3>1. Live = Top(groups).taken /\ Top(groups) = groups[Len(groups)]
        BY <2>2, InGroup, Zenon
      <3> QED
        BY <3>1
    <2> QED
      BY <2>1, <2>2
  <1>3. groups' = groups
    <2>1. l.d \notin Opening \cup {"elif", "else", "endif"}
      BY <1>1 DEF Opening
    <2> QED
      BY <2>1, AfterIs, Zenon
  <1>4. CASE stack' = stack
    BY <1>3, <1>4, Zenon
  <1>5. CASE stack' = Append(stack, ParseFrame)
    <2>1. PICK f : f = ParseFrame
      OBVIOUS
    <2>2. f \in Frame /\ f.fn = "parseFile" /\ f.base = Len(groups)
      BY <1>1, <2>1 DEF ParseFrame, Frame
    <2>3. Nested(Append(stack, f), groups)
      BY <1>1, <1>2, <2>2, NestedFile
    <2> QED
      BY <1>3, <1>5, <2>1, <2>3, Zenon
  <1> QED
    BY <1>4, <1>5 DEF Include

\* endif returns from the call.
LEMMA ReturnFollows ==
  ASSUME Types, pc = "run", Nested(stack, groups), Top(stack).fn # "parseFile", NEW l, l.d = "endif", Return,
         groups' = GroupsAfter(l)
  PROVE  Nested(stack', groups')
  <1>1. Nested(Pop(stack), Pop(groups))
    BY InGroup, Zenon
  <1>2. stack' = Pop(stack) /\ groups' = Pop(groups)
    BY AfterIs, Zenon DEF Return
  <1> QED
    BY <1>1, <1>2, Zenon

\* elif and else in a call of ifelse or ifdef.
LEMMA NextFollows ==
  ASSUME Types, pc = "run", Nested(stack, groups), Top(stack).fn # "parseFile", NEW l, l.d \in {"elif", "else"},
         groups' = GroupsAfter(l), NEW f \in Frame, f.fn # "parseFile",
         stack' = WithTop(stack, f),
         Matches(f, NextGroup(Top(groups), Condition(l), l.d = "else"))
  PROVE  Nested(stack', groups')
  <1>1. /\ stack \in Seq(Frame) /\ stack # <<>> /\ groups \in Seq(Group) /\ Top(groups) \in Group
        /\ Top(groups).live
    BY InGroup, Zenon
  <1>2. PICK e : e = NextGroup(Top(groups), Condition(l), l.d = "else")
    OBVIOUS
  <1>3. e \in Group /\ e.live = Top(groups).live
    <2>1. Condition(l) \in BOOLEAN /\ (l.d = "else") \in BOOLEAN
      BY ConditionType
    <2> QED
      BY <1>1, <1>2, <2>1, NextGroupIs, Zenon
  <1>4. groups' = WithTop(groups, e)
    BY <1>2, AfterIs, Zenon
  <1>5. Matches(f, e)
    BY <1>2, Zenon
  <1>6. e.live
    BY <1>1, <1>3, Zenon
  <1>7. Nested(WithTop(stack, f), WithTop(groups, e))
    BY <1>1, <1>3, <1>5, <1>6, NestedAgain
  <1> QED
    BY <1>4, <1>7, Zenon

\* Other directives leave the groups alone.
LEMMA OtherFollows ==
  ASSUME Nested(stack, groups), NEW l, l.d \notin Opening \cup {"elif", "else", "endif"},
         groups' = GroupsAfter(l), stack' = stack
  PROVE  Nested(stack', groups')
  <1>1. groups' = groups
    BY AfterIs, Zenon
  <1> QED
    BY <1>1, Zenon

\* parseFile.
LEMMA ParseFileFollows ==
  ASSUME Types, pc = "run", BasesOf(stack, Len(groups)), Nested(stack, groups), NEW l, WellFormed(l),
         ParseFile(l), groups' = GroupsAfter(l)
  PROVE  Nested(stack', groups')
  <1>1. Top(stack).fn = "parseFile"
    BY DEF ParseFile
  <1>2. Live /\ Base = Len(groups)
    BY <1>1, InFile
  <1>3. l.d \notin {"elif", "else", "endif"}
    <2>1. l.d \in {"elif", "else", "endif"} => Len(groups) > Base
      BY AfterType
    <2>2. ~(Len(groups) > Len(groups))
      <3>1. Len(groups) \in Nat
        BY DEF Types
      <3> QED
        BY <3>1
    <2> QED
      BY <1>2, <2>1, <2>2
  <1>4. CASE Define(l)
    <2>1. l.d \notin Opening \cup {"elif", "else", "endif"} /\ stack' = stack
      BY <1>4 DEF Define, Opening
    <2> QED
      BY <2>1, OtherFollows
  <1>5. CASE Undef(l)
    <2>1. l.d \notin Opening \cup {"elif", "else", "endif"} /\ stack' = stack
      BY <1>5 DEF Undef, Opening
    <2> QED
      BY <2>1, OtherFollows
  <1>6. CASE Open(l)
    BY <1>2, <1>6, OpenFollows
  <1>7. CASE Include(l)
    BY <1>2, <1>7, IncludeFollows
  <1>8. CASE l.d = "text" /\ Write(Expanded(l.words))
    <2>1. l.d \notin Opening \cup {"elif", "else", "endif"} /\ stack' = stack
      BY <1>8 DEF Write, Opening
    <2> QED
      BY <2>1, OtherFollows
  <1> QED
    BY <1>3, <1>4, <1>5, <1>6, <1>7, <1>8, Zenon DEF ParseFile

\* ifelse.
LEMMA IfElseFollows ==
  ASSUME Types, pc = "run", BasesOf(stack, Len(groups)), Nested(stack, groups), NEW l, WellFormed(l),
         IfElse(l), LookedFor(l), groups' = GroupsAfter(l)
  PROVE  Nested(stack', groups')
  <1> DEFINE f == Top(stack)
             g == Top(groups)
  <1>1. f.fn = "ifelse" /\ f.fn # "parseFile"
    BY DEF IfElse
  <1>2. /\ f \in Frame /\ g \in Group /\ Matches(f, g) /\ g.live /\ Live = Copying(f)
        /\ stack \in Seq(Frame) /\ stack # <<>>
    BY <1>1, InGroup, Zenon
  <1>3. f.cond \in BOOLEAN /\ f.done \in BOOLEAN /\ g.chosen = f.cond /\ (f.done => f.cond)
        /\ Live = (f.cond /\ ~f.done)
    <2>1. f.cond \in BOOLEAN /\ f.done \in BOOLEAN
      BY <1>1, <1>2, FrameIs, Zenon
    <2>2. g.chosen = f.cond /\ (f.done => f.cond)
      BY <1>1, <1>2, Zenon DEF Matches
    <2>3. Live = (f.cond /\ ~f.done)
      BY <1>1, <1>2, <2>1, Zenon DEF Copying
    <2> QED
      BY <2>1, <2>2, <2>3
  <1>4. l.d \notin Opening /\ (Live => l.d \notin {"undef", "include"})
    BY <1>1 DEF LookedFor
  <1>5. PICK e : e = NextGroup(g, Condition(l), l.d = "else")
    OBVIOUS
  <1>6. /\ e.kind = g.kind /\ e.live = g.live /\ e.last = (l.d = "else")
        /\ e.taken = (g.live /\ ~g.chosen /\ Condition(l)) /\ e.chosen = (g.chosen \/ Condition(l))
        /\ Condition(l) \in BOOLEAN
    <2>1. PICK c \in BOOLEAN : c = Condition(l)
      BY ConditionType
    <2>2. PICK b \in BOOLEAN : b = (l.d = "else")
      OBVIOUS
    <2>3. e = NextGroup(g, c, b) /\ g \in Group
      BY <1>2, <1>5, <2>1, <2>2, Zenon
    <2> HIDE DEF g
    <2>4. /\ e.kind = g.kind /\ e.live = g.live /\ e.last = b
          /\ e.taken = (g.live /\ ~g.chosen /\ c) /\ e.chosen = (g.chosen \/ c)
      BY <2>3, NextGroupIs
    <2> QED
      BY <2>1, <2>2, <2>4, Zenon
  <1>7. g.kind = "if"
    BY <1>1, <1>2, Zenon DEF Matches
  <1>8. ASSUME NEW c \in BOOLEAN, NEW d \in BOOLEAN, l.d \in {"elif", "else"},
               stack' = WithTop(stack, IfElseFrame(c, d)),
               (c /\ ~d) = (~g.chosen /\ Condition(l)),
               (g.chosen \/ Condition(l)) = c, d => c
        PROVE  Nested(stack', groups')
    <2>1. PICK h : h = IfElseFrame(c, d)
      OBVIOUS
    <2>2. h \in Frame /\ h.fn = "ifelse" /\ h.cond = c /\ h.done = d
      BY <2>1, FramesAre, Zenon
    <2>3. e.taken = (c /\ ~d) /\ e.chosen = c /\ e.kind = "if"
      BY <1>2, <1>6, <1>7, <1>8, Zenon
    <2>4. Copying(h) = e.taken
      BY <2>2, <2>3 DEF Copying
    <2>5. Matches(h, e)
      BY <1>8, <2>2, <2>3, <2>4 DEF Matches
    <2> HIDE DEF f, g
    <2>6. Matches(h, NextGroup(Top(groups), Condition(l), l.d = "else"))
      BY <1>5, <2>5, Zenon DEF g
    <2>7. h.fn # "parseFile" /\ stack' = WithTop(stack, h) /\ Top(stack).fn # "parseFile"
      BY <1>1, <1>8, <2>1, <2>2 DEF f
    <2> QED
      BY <1>8, <2>2, <2>6, <2>7, NextFollows
  <1>9. ASSUME stack' = stack, l.d \in {"elif", "else"}, f.done PROVE Nested(stack', groups')
    <2>1. stack' = WithTop(stack, f)
      BY <1>2, <1>9, TopIs, Zenon
    <2>2. e.taken = FALSE /\ e.chosen = TRUE /\ Copying(f) = FALSE /\ f.cond = TRUE
      BY <1>1, <1>3, <1>6, <1>9 DEF Copying
    <2>3. Matches(f, e)
      BY <1>1, <1>6, <1>7, <2>2, Zenon DEF Matches
    <2>4. Matches(f, NextGroup(Top(groups), Condition(l), l.d = "else"))
      BY <1>5, <2>3, Zenon
    <2>5. PICK h : h = Top(stack)
      OBVIOUS
    <2>6. /\ Top(stack).fn # "parseFile" /\ h \in Frame /\ h.fn # "parseFile" /\ stack' = WithTop(stack, h)
          /\ Matches(h, NextGroup(Top(groups), Condition(l), l.d = "else"))
      BY <1>1, <1>2, <2>1, <2>4, <2>5, Zenon
    <2>7. l.d \in {"elif", "else"}
      BY <1>9
    <2> HIDE DEF f, g
    <2> QED
      BY <2>6, <2>7, NextFollows
  <1>10. ASSUME stack' = stack, l.d \notin {"elif", "else", "endif"} PROVE Nested(stack', groups')
    <2>1. l.d \notin Opening \cup {"elif", "else", "endif"}
      BY <1>4, <1>10
    <2> QED
      BY <1>10, <2>1, OtherFollows
  <1>11. CASE l.d = "endif" /\ Return
    <2>1. Top(stack).fn # "parseFile"
      BY <1>1
    <2> QED
      BY <1>11, <2>1, ReturnFollows
  <1>12. CASE f.done /\ l.d # "endif" /\ Skip(l)
    <2>1. stack' = stack
      BY <1>12 DEF Skip, Write
    <2> QED
      BY <1>9, <1>10, <1>12, <2>1
  <1>13. CASE ~f.done /\ ~f.cond /\ l.d = "else" /\ Again(IfElseFrame(TRUE, FALSE))
    <2>1. stack' = WithTop(stack, IfElseFrame(TRUE, FALSE))
      BY <1>13 DEF Again
    <2>2. Condition(l) = TRUE /\ g.chosen = FALSE
      BY <1>3, <1>13 DEF Condition
    <2> QED
      BY <1>8, <1>13, <2>1, <2>2
  <1>14. CASE ~f.done /\ ~f.cond /\ l.d = "elif" /\ Again(IfElseFrame(Holds(l.cond), FALSE))
    <2>1. stack' = WithTop(stack, IfElseFrame(Condition(l), FALSE))
      BY <1>14 DEF Again, Condition
    <2>2. g.chosen = FALSE
      BY <1>3, <1>14
    <2> QED
      BY <1>6, <1>8, <1>14, <2>1, <2>2
  <1>15. CASE ~f.done /\ ~f.cond /\ l.d \notin {"endif", "else", "elif"} /\ Skip(l)
    <2>1. stack' = stack
      BY <1>15 DEF Skip, Write
    <2> QED
      BY <1>10, <1>15, <2>1
  <1>16. CASE ~f.done /\ f.cond /\ l.d \in {"else", "elif"} /\ Again(Done)
    <2>1. stack' = WithTop(stack, IfElseFrame(TRUE, TRUE))
      BY <1>16 DEF Again, Done
    <2>2. g.chosen = TRUE
      BY <1>3, <1>16
    <2> QED
      BY <1>6, <1>8, <1>16, <2>1, <2>2
  <1>17. CASE ~f.done /\ f.cond /\ Define(l)
    <2>1. stack' = stack /\ l.d \notin {"elif", "else", "endif"}
      BY <1>17 DEF Define
    <2> QED
      BY <1>10, <2>1
  <1>18. CASE ~f.done /\ f.cond /\ l.d \in Opening \cup {"undef", "include", "text"} /\ Copy(l)
    <2>1. stack' = stack /\ l.d \notin {"elif", "else", "endif"}
      BY <1>18 DEF Copy, Write, Opening
    <2> QED
      BY <1>10, <2>1
  <1>19. CASE Column0(l) = l.d
    BY <1>11, <1>12, <1>13, <1>14, <1>15, <1>16, <1>17, <1>18, <1>19, Zenon DEF IfElse
  <1>20. CASE l.indented
    <2>1. ~Live /\ l.d \notin {"elif", "else", "endif"} /\ Column0(l) = "text"
      BY <1>1, <1>20 DEF LookedFor, Column0
    <2>2. Skip(l)
      BY <1>3, <2>1 DEF IfElse
    <2>3. stack' = stack
      BY <2>2 DEF Skip, Write
    <2> QED
      BY <1>10, <2>1, <2>3
  <1> QED
    BY <1>19, <1>20 DEF Column0

\* ifdef.
LEMMA IfDefFollows ==
  ASSUME Types, pc = "run", BasesOf(stack, Len(groups)), Nested(stack, groups), NEW l, WellFormed(l),
         IfDef(l), LookedFor(l), groups' = GroupsAfter(l)
  PROVE  Nested(stack', groups')
  <1> DEFINE f == Top(stack)
             g == Top(groups)
  <1>1. f.fn = "ifdef" /\ f.fn # "parseFile"
    BY DEF IfDef
  <1>2. /\ f \in Frame /\ g \in Group /\ Matches(f, g) /\ g.live /\ Live = Copying(f)
    BY <1>1, InGroup, Zenon
  <1>3. f.cond \in BOOLEAN /\ (~g.last => g.chosen = f.cond) /\ Live = f.cond /\ g.kind # "if"
    <2>1. f.cond \in BOOLEAN
      BY <1>1, <1>2, FrameIs, Zenon
    <2>2. (~g.last => g.chosen = f.cond)
      BY <1>1, <1>2, Zenon DEF Matches
    <2>3. Live = f.cond
      BY <1>1, <1>2, <2>1 DEF Copying
    <2>4. g.kind # "if"
      <3>1. f.fn # "ifelse" /\ (f.fn = "ifelse") = (g.kind = "if")
        BY <1>1, <1>2 DEF Matches
      <3> QED
        BY <3>1
    <2> QED
      BY <2>1, <2>2, <2>3, <2>4
  <1>4. Live \/ l.d \notin Opening
    BY <1>1 DEF LookedFor
  <1>5. l.d # "elif" /\ (l.d = "else" => ~g.last)
    BY <1>3 DEF WellFormed
  <1>6. ASSUME stack' = stack, l.d \notin Opening \cup {"endif", "else"} PROVE Nested(stack', groups')
    <2>1. l.d \notin Opening \cup {"elif", "else", "endif"}
      BY <1>5, <1>6
    <2> QED
      BY <1>6, <2>1, OtherFollows
  <1>7. CASE l.d = "endif" /\ Return
    <2>1. Top(stack).fn # "parseFile"
      BY <1>1
    <2> QED
      BY <1>7, <2>1, ReturnFollows
  <1>8. CASE l.d = "else" /\ Again(IfDefFrame(~f.cond))
    <2>1. PICK c \in BOOLEAN : c = ~f.cond
      OBVIOUS
    <2>2. PICK h : h = IfDefFrame(c)
      OBVIOUS
    <2>3. h \in Frame /\ h.fn = "ifdef" /\ h.cond = c
      BY <2>2, FramesAre
    <2>4. PICK e : e = NextGroup(g, Condition(l), l.d = "else")
      OBVIOUS
    <2>5. Condition(l) = TRUE /\ (l.d = "else") = TRUE
      BY <1>8 DEF Condition
    <2>6. /\ e.kind = g.kind /\ e.last = TRUE
          /\ e.taken = (g.live /\ ~g.chosen /\ TRUE)
      <3>1. e = NextGroup(g, TRUE, TRUE)
        BY <2>4, <2>5, Zenon
      <3>2. TRUE \in BOOLEAN
        OBVIOUS
      <3> QED
        BY <1>2, <3>1, <3>2, NextGroupIs, Zenon
    <2>7. e.taken = c
      <3>1. g.chosen = f.cond
        BY <1>3, <1>5, <1>8
      <3> QED
        BY <1>2, <1>3, <2>1, <2>6, <3>1, Zenon
    <2>8. Matches(h, e)
      BY <1>3, <2>3, <2>6, <2>7 DEF Matches, Copying
    <2>9. Matches(h, NextGroup(Top(groups), Condition(l), l.d = "else"))
      BY <2>4, <2>8, Zenon
    <2>10. stack' = WithTop(stack, h)
      BY <1>8, <2>1, <2>2, Zenon DEF Again
    <2>11. Top(stack).fn # "parseFile" /\ h.fn # "parseFile"
      BY <1>1, <2>3
    <2> HIDE DEF f, g
    <2> QED
      BY <1>8, <2>3, <2>9, <2>10, <2>11, NextFollows
  <1>9. CASE ~f.cond /\ l.d \notin {"endif", "else"} /\ Skip(l)
    <2>1. stack' = stack
      BY <1>9 DEF Skip, Write
    <2>2. l.d \notin Opening
      BY <1>3, <1>4, <1>9
    <2> QED
      BY <1>6, <1>9, <2>1, <2>2
  <1>10. CASE f.cond /\ Define(l)
    <2>1. l.d \notin Opening \cup {"endif", "else"} /\ stack' = stack
      BY <1>10 DEF Define, Opening
    <2> QED
      BY <1>6, <2>1
  <1>11. CASE f.cond /\ Undef(l)
    <2>1. l.d \notin Opening \cup {"endif", "else"} /\ stack' = stack
      BY <1>11 DEF Undef, Opening
    <2> QED
      BY <1>6, <2>1
  <1>12. CASE f.cond /\ Open(l)
    <2>1. Live
      BY <1>3, <1>12
    <2> QED
      BY <1>12, <2>1, OpenFollows
  <1>13. CASE f.cond /\ Include(l)
    <2>1. Live
      BY <1>3, <1>13
    <2> QED
      BY <1>13, <2>1, IncludeFollows
  <1>14. CASE f.cond /\ l.d \in {"elif", "text"} /\ Copy(l)
    <2>1. l.d \notin Opening \cup {"endif", "else"} /\ stack' = stack
      BY <1>5, <1>14 DEF Copy, Write, Opening
    <2> QED
      BY <1>6, <2>1
  <1>15. CASE Column0(l) = l.d
    BY <1>7, <1>8, <1>9, <1>10, <1>11, <1>12, <1>13, <1>14, <1>15, Zenon DEF IfDef
  <1>16. CASE l.indented
    <2>1. ~Live /\ l.d \notin {"elif", "else", "endif"} /\ Column0(l) = "text"
      BY <1>1, <1>16 DEF LookedFor, Column0
    <2>2. Skip(l)
      BY <1>3, <2>1 DEF IfDef
    <2>3. stack' = stack
      BY <2>2 DEF Skip, Write
    <2>4. l.d \notin Opening \cup {"endif", "else"}
      BY <1>4, <2>1
    <2> QED
      BY <1>6, <2>3, <2>4
  <1> QED
    BY <1>15, <1>16 DEF Column0

-----------------------------------------------------------------------------
(***************************************************************************)
(* The symbols                                                             *)
(***************************************************************************)
\* The fields of a value that is being resolved.
LEMMA ChaseIs ==
  ASSUME NEW c \in Chase
  PROVE  /\ c.key \in Key /\ c.words \in Seq(Word) /\ Len(c.words) \in Nat /\ c.text \in Text
         /\ c.at \in Nat /\ c.cur \in Text \cup {NULL}
         /\ c = [key |-> c.key, words |-> c.words, text |-> c.text, at |-> c.at, cur |-> c.cur]
  <1>1. /\ c.key \in Key /\ c.words \in Seq(Word) /\ c.text \in Text
        /\ c.at \in Nat /\ c.cur \in Text \cup {NULL}
        /\ c = [key |-> c.key, words |-> c.words, text |-> c.text, at |-> c.at, cur |-> c.cur]
    BY DEF Chase
  <1> QED
    BY <1>1

\* A value of some words is resolved from its first word on.
LEMMA ChaseBegins ==
  ASSUME NEW k \in Key, NEW v \in Seq(Word), v # <<>>, NEW D
  PROVE  LET c == [key |-> k, words |-> v, text |-> Join(v), at |-> 1, cur |-> NULL]
         IN c \in Chase /\ Produced(c, D)
  <1>1. PICK n : n = Len(v) /\ n \in Nat /\ n # 0 /\ \A i \in 1..n : v[i] \in Word
    OBVIOUS
  <1>2. PICK t : t = Join(v)
    OBVIOUS
  <1>3. t \in Text /\ (n = 1 => t = v[1]) /\ (n > 1 => HasBlank(t))
    <2>1. \A i \in 1..n : v[i] \in Text
      BY <1>1, WordIs
    <2> QED
      BY <1>1, <1>2, <2>1, JoinIs
  <1>4. PICK c : c = [key |-> k, words |-> v, text |-> t, at |-> 1, cur |-> NULL]
    OBVIOUS
  <1>5. c \in Chase /\ c.words = v /\ c.text = t /\ c.at = 1 /\ c.cur = NULL
    BY <1>3, <1>4 DEF Chase
  <1>6. c.at \in 1..Len(c.words) + 1 /\ (n # 1 => n > 1) /\ Len(c.words) = n /\ c.at # 2
    BY <1>1, <1>5
  <1>7. Produced(c, D)
    BY <1>3, <1>5, <1>6, Zenon DEF Produced
  <1> QED
    BY <1>2, <1>4, <1>5, <1>7, Zenon

\* The loop goes on to the next word, with the text x.
Advanced(c, x) == [c EXCEPT !.text = x, !.at = @ + 1, !.cur = NULL]

\* A step of the loop over the words of a value.
LEMMA ChaseStep ==
  ASSUME NEW c \in Chase, NEW x \in Text
  PROVE  /\ Advanced(c, x) \in Chase /\ Advanced(c, x).words = c.words /\ Advanced(c, x).text = x
         /\ Advanced(c, x).at = c.at + 1 /\ Advanced(c, x).cur = NULL
  <1>1. PICK e : e = Advanced(c, x)
    OBVIOUS
  <1>2. c.at + 1 \in Nat /\ c.key \in Key /\ c.words \in Seq(Word)
    BY DEF Chase
  <1>3. /\ e.key = c.key /\ e.words = c.words /\ e.text = x /\ e.at = c.at + 1 /\ e.cur = NULL
        /\ e = [key |-> e.key, words |-> e.words, text |-> e.text, at |-> e.at, cur |-> e.cur]
    BY <1>1 DEF Chase, Advanced
  <1>4. e \in Chase
    BY <1>2, <1>3 DEF Chase
  <1> QED
    BY <1>1, <1>3, <1>4, Zenon

\* The next word, when the text x keeps the blanks of the text and the only word of a
\* value has become what is not a symbol.
LEMMA ProducedStep ==
  ASSUME NEW c \in Chase, NEW D, Produced(c, D), c.at <= Len(c.words), NEW x \in Text,
         HasBlank(c.text) => HasBlank(x),
         Len(c.words) = 1 /\ c.at = 1 => x \notin D
  PROVE  Advanced(c, x) \in Chase /\ Produced(Advanced(c, x), D)
  <1>1. PICK e : e = Advanced(c, x)
    OBVIOUS
  <1>2. e \in Chase /\ e.words = c.words /\ e.text = x /\ e.at = c.at + 1 /\ e.cur = NULL
    BY <1>1, ChaseStep
  <1>3. c.words # <<>> /\ c.at \in Nat /\ Len(c.words) \in Nat /\ c.at >= 1 /\ (Len(c.words) # 1 => HasBlank(c.text))
    BY ChaseIs DEF Produced
  <1>4. /\ e.at \in 1..Len(e.words) + 1
        /\ ~(Len(e.words) = 1 /\ e.at = 1) /\ (Len(e.words) = 1 /\ e.at = 2 => Len(c.words) = 1 /\ c.at = 1)
    BY <1>2, <1>3
  <1>5. Produced(e, D)
    BY <1>2, <1>3, <1>4, Zenon DEF Produced
  <1> QED
    BY <1>1, <1>2, <1>5, Zenon

\* A word that is not a symbol stays in the text.
LEMMA ProducedSkip ==
  ASSUME NEW c \in Chase, NEW D, Produced(c, D), c.at <= Len(c.words), c.words[c.at] \notin D, c.cur = NULL
  PROVE  LET e == [c EXCEPT !.at = @ + 1] IN e \in Chase /\ Produced(e, D)
  <1>1. PICK x : x = c.text /\ x \in Text
    BY ChaseIs
  <1>2. Len(c.words) = 1 /\ c.at = 1 => x \notin D
    BY <1>1 DEF Produced
  <1>3. Advanced(c, x) \in Chase /\ Produced(Advanced(c, x), D)
    BY <1>1, <1>2, ProducedStep
  <1>4. Advanced(c, x) = [c EXCEPT !.at = @ + 1]
    BY <1>1, ChaseIs DEF Advanced
  <1> QED
    BY <1>3, <1>4, Zenon

\* A value on the way to the one that replaces the word.
LEMMA ProducedValue ==
  ASSUME NEW c \in Chase, NEW D, Produced(c, D), c.at <= Len(c.words), c.words[c.at] \in D, NEW v \in Text
  PROVE  LET e == [c EXCEPT !.cur = v] IN e \in Chase /\ Produced(e, D)
  <1>1. PICK e : e = [c EXCEPT !.cur = v]
    OBVIOUS
  <1>2. e \in Chase /\ e.words = c.words /\ e.text = c.text /\ e.at = c.at
    BY <1>1 DEF Chase
  <1>3. Produced(e, D)
    BY <1>2, Zenon DEF Produced
  <1> QED
    BY <1>1, <1>2, <1>3, Zenon

\* A value that leads no further replaces its word.
LEMMA ProducedReplace ==
  ASSUME NEW c \in Chase, NEW D, Produced(c, D), c.cur # NULL, c.cur \notin D
  PROVE  LET e == [c EXCEPT !.text = Replace(@, c.words[c.at], c.cur), !.at = @ + 1, !.cur = NULL]
         IN e \in Chase /\ Produced(e, D)
  <1>1. /\ c.words \in Seq(Word) /\ Len(c.words) \in Nat /\ c.text \in Text /\ c.cur \in Text
        /\ c.at \in 1..Len(c.words) + 1 /\ c.at <= Len(c.words)
    BY ChaseIs DEF Produced
  <1>2. PICK t, w, v : t = c.text /\ w = c.words[c.at] /\ v = c.cur
    OBVIOUS
  <1>3. t \in Text /\ v \in Text /\ w \in Word
    <2>1. c.at \in 1..Len(c.words)
      BY <1>1
    <2> QED
      BY <1>1, <1>2, <2>1
  <1>4. PICK x : x = Replace(t, w, v)
    OBVIOUS
  <1>5. x \in Text /\ (HasBlank(t) => HasBlank(x))
    BY <1>3, <1>4, ReplaceType
  <1>6. ASSUME Len(c.words) = 1, c.at = 1 PROVE x \notin D
    <2>1. t = w
      BY <1>2, <1>6 DEF Produced
    <2>2. x = v
      BY <1>3, <1>4, <2>1, ReplaceWhole
    <2> QED
      BY <1>2, <2>2
  <1>7. Advanced(c, x) \in Chase /\ Produced(Advanced(c, x), D)
    BY <1>1, <1>2, <1>5, <1>6, ProducedStep
  <1>8. Advanced(c, x) = [c EXCEPT !.text = Replace(@, c.words[c.at], c.cur), !.at = @ + 1, !.cur = NULL]
    <2>1. c.text = t /\ x = Replace(c.text, c.words[c.at], c.cur)
      BY <1>2, <1>4, Zenon
    <2> QED
      BY <2>1, Zenon DEF Advanced
  <1> QED
    BY <1>7, <1>8, Zenon

\* A value that is a symbol is produced only if the symbol is not defined.
LEMMA ProducedKey ==
  ASSUME NEW c \in Chase, NEW D, Produced(c, D), c.at > Len(c.words), NEW b \in Key, c.text = b
  PROVE  b \notin D
  <1>1. c.at \in Nat /\ Len(c.words) \in Nat /\ c.at \in 1..Len(c.words) + 1
    BY ChaseIs DEF Produced
  <1>2. ~HasBlank(b)
    <2>1. b \in Word
      BY PreprocessorAssumption
    <2> QED
      BY <2>1, WordIs DEF HasBlank
  <1>3. Len(c.words) = 1
    BY <1>2 DEF Produced
  <1>4. c.at = 2
    BY <1>1, <1>3
  <1> QED
    BY <1>3, <1>4 DEF Produced

\* A new value makes no ring of several symbols unless it is a symbol that is defined.
LEMMA RingFreeBut ==
  ASSUME NEW f, RingFree(f), NEW g, NEW k, NEW v,
         \A a \in Key : g[a] = IF a = k THEN v ELSE f[a],
         \A b \in Key \ {k} : v = b => f[b] = NULL
  PROVE  RingFree(g)
  <1>1. ASSUME NEW S \in (SUBSET Key) \ {{}} PROVE \E a \in S : \A b \in S \ {a} : g[a] # b
    <2>0. S \subseteq Key /\ S # {} /\ NULL \notin S
      BY HashTableAssumption
    <2>1. CASE k \notin S
      <3>1. PICK a \in S : \A b \in S \ {a} : f[a] # b
        BY DEF RingFree
      <3>2. g[a] = f[a]
        BY <2>0, <2>1
      <3> QED
        BY <3>1, <3>2, Zenon
    <2>2. CASE k \in S /\ \E b \in S \ {k} : v = b
      <3>1. PICK b \in S \ {k} : v = b
        BY <2>2
      <3>2. b \in Key /\ b # k /\ f[b] = NULL
        BY <2>0, <3>1, Zenon
      <3>3. g[b] = NULL
        BY <3>2
      <3> QED
        BY <2>0, <3>1, <3>3, Zenon
    <2>3. CASE k \in S /\ \A b \in S \ {k} : v # b
      <3>1. g[k] = v
        BY <2>0, <2>3
      <3> QED
        BY <2>3, <3>1, Zenon
    <2> QED
      BY <2>1, <2>2, <2>3
  <1> QED
    BY <1>1, Zenon DEF RingFree

\* What the invariant says of a table: no #undef hid a symbol in it (h is FALSE), and no
\* ring of several symbols is in it (r is TRUE).
TablePart(m, h, r) ==
  /\ TableOK(m, Text) /\ Roomy(m) /\ (~h => Sound(m))
  /\ r /\ ~h => RingFree(Values(m))

\* What is not a text is not a symbol.
LEMMA NullIs == NULL \notin Text /\ NULL \notin Key
  BY PreprocessorAssumption, HashTableAssumption

\* A value that is stored.
LEMMA InsertKeeps ==
  ASSUME NEW m, NEW h, NEW r, TablePart(m, h, r), NEW k \in Key, NEW v \in Text, NEW s, s => r,
         s => \A b \in Key \ {k} : v = b => Get(m, b) = NULL
  PROVE  TablePart(Inserted(m, k, v), h, s)
  <1>1. TableOK(m, Text) /\ Roomy(m) /\ (~h => Sound(m)) /\ (r /\ ~h => RingFree(Values(m)))
    BY DEF TablePart
  <1>2. PICK p : p = Inserted(m, k, v)
    OBVIOUS
  <1>3. /\ TableOK(p, Text) /\ Roomy(p) /\ Get(p, k) = v
        /\ Sound(m) => Sound(p) /\ \A x \in Key \ {k} : Get(p, x) = Get(m, x)
    BY <1>1, <1>2, NullIs, InsertedOK
  <1>4. ASSUME s, ~h PROVE RingFree(Values(p))
    <2>1. PICK f, g : f = Values(m) /\ g = Values(p)
      OBVIOUS
    <2>2. \A a \in Key : f[a] = Get(m, a) /\ g[a] = Get(p, a)
      BY <2>1 DEF Values
    <2>3. \A a \in Key : g[a] = IF a = k THEN v ELSE f[a]
      BY <1>1, <1>3, <1>4, <2>2
    <2>4. \A b \in Key \ {k} : v = b => f[b] = NULL
      BY <1>4, <2>2
    <2>5. RingFree(f)
      BY <1>1, <1>4, <2>1
    <2>6. RingFree(g)
      BY <2>3, <2>4, <2>5, RingFreeBut
    <2> QED
      BY <2>1, <2>6, Zenon
  <1> QED
    BY <1>1, <1>2, <1>3, <1>4, Zenon DEF TablePart

\* A symbol that is deleted, and perhaps others with it (h then becomes TRUE).
LEMMA DeleteKeeps ==
  ASSUME NEW m, NEW h, NEW r, TablePart(m, h, r), NEW k \in Key, NEW i,
         i <=> (h \/ \E x \in Key \ {k} : Get(Deleted(m, k), x) # Get(m, x))
  PROVE  TablePart(Deleted(m, k), i, r)
  <1>1. TableOK(m, Text) /\ Roomy(m) /\ (~h => Sound(m)) /\ (r /\ ~h => RingFree(Values(m)))
    BY DEF TablePart
  <1>2. PICK p : p = Deleted(m, k)
    OBVIOUS
  <1>3. /\ TableOK(p, Text) /\ Roomy(p) /\ Get(p, k) = NULL
        /\ Sound(m) /\ (\A x \in Key \ {k} : Get(p, x) = Get(m, x)) => Sound(p)
    BY <1>1, <1>2, NullIs, DeletedOK
  <1>4. ASSUME ~i PROVE ~h /\ \A x \in Key \ {k} : Get(p, x) = Get(m, x)
    BY <1>2, <1>4
  <1>5. ASSUME r, ~i PROVE RingFree(Values(p))
    <2>1. PICK f, g : f = Values(m) /\ g = Values(p)
      OBVIOUS
    <2>2. \A a \in Key : f[a] = Get(m, a) /\ g[a] = Get(p, a)
      BY <2>1 DEF Values
    <2>3. \A a \in Key : g[a] = IF a = k THEN NULL ELSE f[a]
      BY <1>3, <1>4, <1>5, <2>2
    <2>4. \A b \in Key \ {k} : NULL = b => f[b] = NULL
      BY NullIs
    <2>5. RingFree(f)
      BY <1>1, <1>4, <1>5, <2>1
    <2>6. RingFree(g)
      BY <2>3, <2>4, <2>5, RingFreeBut
    <2> QED
      BY <2>1, <2>6, Zenon
  <1> QED
    BY <1>1, <1>2, <1>3, <1>4, <1>5, Zenon DEF TablePart

-----------------------------------------------------------------------------
(***************************************************************************)
(* Every step keeps the invariant                                          *)
(***************************************************************************)
\* What the invariant says of the stack, of the symbols and of the rest.
StackPart ==
  /\ stack \in Seq(Frame) /\ (stack # <<>> => stack[1].fn = "parseFile")
  /\ groups \in Seq(Group) /\ plain \in BOOLEAN
  /\ BasesOf(stack, Len(groups)) /\ (plain => Nested(stack, groups))

SymbolPart ==
  /\ unresolved \in BOOLEAN /\ hidden \in BOOLEAN
  /\ TablePart(map, hidden, ~unresolved)
  /\ chase # NULL => chase \in Chase /\ Produced(chase, Symbols)

ControlPart ==
  /\ pc \in {"args", "run", "exit0", "exit1"} /\ count \in 0..MaxInputs
  /\ chase # NULL => pc = "run"
  /\ pc = "args" => stack = <<>>
  /\ pc = "run" => stack # <<>>

\* A ring is looked for in the table.
LEMMA RingIs ==
  NoRingOfSeveral <=> (~unresolved /\ ~hidden => RingFree(Values(map)))
  <1>1. PICK f : f = Values(map)
    OBVIOUS
  <1>2. \A a \in Key : Lookup(a) = f[a]
    BY <1>1 DEF Lookup, Values
  <1>3. RingFree(f) <=> \A S \in (SUBSET Key) \ {{}} : \E a \in S : \A b \in S \ {a} : Lookup(a) # b
    <2>1. ASSUME NEW S \in (SUBSET Key) \ {{}}
          PROVE  (\E a \in S : \A b \in S \ {a} : f[a] # b) <=> (\E a \in S : \A b \in S \ {a} : Lookup(a) # b)
      <3>1. ASSUME NEW a \in S
            PROVE  (\A b \in S \ {a} : f[a] # b) <=> (\A b \in S \ {a} : Lookup(a) # b)
        <4>1. Lookup(a) = f[a]
          BY <1>2
        <4> QED
          BY <4>1, Zenon
      <3> QED
        BY <3>1, Zenon
    <2> QED
      BY <2>1, Zenon DEF RingFree
  <1> QED
    BY <1>1, <1>3, Zenon DEF NoRingOfSeveral

\* A value that is resolved has the fields TypeOK asks for.
LEMMA ChaseTypeOK ==
  ASSUME NEW c \in Chase, NEW D, Produced(c, D)
  PROVE  c.key \in Key /\ c.text \in Text /\ c.at \in 1..Len(c.words) + 1
  BY ChaseIs DEF Produced

\* The parts are the invariant.
LEMMA IInvIs ==
  IInv <=> StackPart /\ SymbolPart /\ ControlPart
  <1>1. ASSUME IInv PROVE StackPart /\ SymbolPart /\ ControlPart
    <2>1. SymbolPart
      BY <1>1, RingIs DEF IInv, Types, TypeOK, SymbolPart, TablePart
    <2> QED
      BY <1>1, <2>1 DEF IInv, Types, TypeOK, StackPart, ControlPart
  <1>2. ASSUME StackPart, SymbolPart, ControlPart PROVE IInv
    <2>1. chase # NULL => /\ chase.key \in Key /\ chase.text \in Text
                          /\ chase.at \in 1..Len(chase.words) + 1
      BY <1>2, ChaseTypeOK DEF SymbolPart
    <2>2. TypeOK
      BY <1>2, <2>1 DEF TypeOK, StackPart, SymbolPart, ControlPart, TablePart
    <2>3. Types
      BY <1>2, <2>2 DEF Types, StackPart, SymbolPart, ControlPart
    <2>4. NoRingOfSeveral /\ Roomy(map) /\ (~hidden => Sound(map))
      BY <1>2, RingIs DEF SymbolPart, TablePart
    <2> QED
      BY <1>2, <2>3, <2>4 DEF IInv, StackPart, SymbolPart
  <1> QED
    BY <1>1, <1>2

\* The same after a step.
LEMMA IInvNext ==
  ASSUME StackPart', SymbolPart', ControlPart'
  PROVE  IInv'
  BY IInvIs, PTL

\* The symbols are those of the table.
LEMMA SymbolsSame ==
  ASSUME map' = map
  PROVE  Symbols' = Symbols
  BY DEF Symbols, Defined, Lookup

\* A symbol is what the table has a value for, and get finds nothing else.
LEMMA SymbolsAreDefined ==
  ASSUME NEW t
  PROVE  t \in Symbols <=> Lookup(t) # NULL
  BY DEF Symbols, Defined, Lookup

\* The table keeps its part when no line defines or deletes a symbol.
LEMMA SymbolsStay ==
  ASSUME SymbolPart, UNCHANGED <<map, chase, marks>>
  PROVE  SymbolPart'
  BY SymbolsSame DEF SymbolPart, marks

\* A line changes the symbols by #define and #undef alone.
LEMMA LineKeepsSymbols ==
  ASSUME IInv, NEW l \in Line, ReadLine(l)
  PROVE  SymbolPart' /\ pc' \in {"run", "exit1"} /\ (chase' # NULL => pc' = "run")
  <1>1. pc = "run" /\ chase = NULL
    BY DEF ReadLine
  <1>2. SymbolPart /\ unresolved \in BOOLEAN /\ hidden \in BOOLEAN /\ TablePart(map, hidden, ~unresolved)
    BY IInvIs DEF SymbolPart
  <1>3. Keeps \/ Define(l) \/ Undef(l)
    BY LineDoes DEF IInv
  <1>4. CASE Keeps
    BY <1>1, <1>2, <1>4, SymbolsStay DEF Keeps
  <1>5. CASE Undef(l)
    <2>1. PICK k : k = l.key
      OBVIOUS
    <2>2. /\ k \in Key /\ map' = Deleted(map, k) /\ chase' = NULL /\ pc' = "run" /\ unresolved' = unresolved
          /\ hidden' = (hidden \/ \E x \in Key \ {k} : Get(map', x) # Get(map, x))
      BY <1>1, <1>5, <2>1, PreprocessorAssumption, Zenon DEF Undef
    <2>3. PICK i \in BOOLEAN : i = hidden'
      BY <1>2, <2>2
    <2>4. TablePart(Deleted(map, k), i, ~unresolved)
      <3>1. i <=> (hidden \/ \E x \in Key \ {k} : Get(Deleted(map, k), x) # Get(map, x))
        BY <2>2, <2>3
      <3> QED
        BY <1>2, <2>2, <3>1, DeleteKeeps
    <2>5. TablePart(map', hidden', ~unresolved')
      BY <2>2, <2>3, <2>4, Zenon
    <2> QED
      BY <1>2, <2>2, <2>3, <2>5, Zenon DEF SymbolPart
  <1>6. CASE Define(l)
    <2>1. PICK k, v, t : k = l.key /\ v = l.val /\ t = Join(v)
      OBVIOUS
    <2>2. k \in Key /\ v \in Seq(Word) /\ pc' = "run" /\ hidden' = hidden
      BY <1>1, <1>6, <2>1, PreprocessorAssumption, Zenon DEF Define
    <2>3. CASE l.d = "continued" \/ v = <<>>
      <3>1. /\ map' = Inserted(map, k, t) /\ chase' = NULL
            /\ unresolved' = (unresolved \/ v # <<>>)
        BY <1>1, <1>6, <2>1, <2>3 DEF Define
      <3>2. t \in Text /\ (v = <<>> => t = <<>>)
        <4>1. PICK n : n = Len(v) /\ n \in Nat /\ (v = <<>> => n = 0)
          BY <2>2
        <4>2. \A i \in 1..n : v[i] \in Text
          BY <2>2, <4>1, WordIs
        <4> QED
          BY <2>1, <4>1, <4>2, JoinIs
      <3>3. PICK s \in BOOLEAN : s = ~unresolved'
        OBVIOUS
      <3>4. s => ~unresolved /\ v = <<>>
        BY <3>1, <3>3
      <3>5. s => \A b \in Key \ {k} : t = b => Get(map, b) = NULL
        <4>1. \A b \in Key : b # <<>>
          BY PreprocessorAssumption DEF Word
        <4> QED
          BY <3>2, <3>4, <4>1
      <3>6. TablePart(Inserted(map, k, t), hidden, s)
        BY <1>2, <2>2, <3>2, <3>4, <3>5, InsertKeeps
      <3>7. TablePart(map', hidden', ~unresolved') /\ unresolved' \in BOOLEAN /\ hidden' \in BOOLEAN
        BY <1>2, <2>2, <3>1, <3>3, <3>6, Zenon
      <3> QED
        BY <2>2, <3>1, <3>7, Zenon DEF SymbolPart
    <2>4. CASE ~(l.d = "continued" \/ v = <<>>)
      <3>1. /\ chase' = [key |-> k, words |-> v, text |-> t, at |-> 1, cur |-> NULL]
            /\ map' = map /\ unresolved' = unresolved
        BY <1>6, <2>1, <2>4 DEF Define
      <3>2. PICK D : D = Symbols'
        OBVIOUS
      <3>3. chase' \in Chase /\ Produced(chase', D)
        BY <2>1, <2>2, <2>4, <3>1, ChaseBegins
      <3> QED
        BY <1>2, <2>2, <3>1, <3>2, <3>3, Zenon DEF SymbolPart
    <2> QED
      BY <2>3, <2>4
  <1> QED
    BY <1>3, <1>4, <1>5, <1>6

\* A step of defineMap.
LEMMA ResolveKeepsSymbols ==
  ASSUME IInv, Resolve
  PROVE  SymbolPart' /\ UNCHANGED <<stack, groups, plain, count, pc>>
  <1>1. chase # NULL /\ pc = "run"
    BY DEF Resolve, Resolving, NotAName, FirstValue, NextValue, Substitute, StoreResolved
  <1>2. /\ unresolved \in BOOLEAN /\ hidden \in BOOLEAN /\ TablePart(map, hidden, ~unresolved)
        /\ chase \in Chase /\ Produced(chase, Symbols)
    BY <1>1, IInvIs DEF SymbolPart
  <1>3. UNCHANGED <<stack, groups, plain, count, pc, unresolved, hidden>>
    BY DEF Resolve, NotAName, FirstValue, NextValue, Substitute, StoreResolved, history, marks
  <1>4. PICK c, D : c = chase /\ D = Symbols
    OBVIOUS
  <1>5. c \in Chase /\ Produced(c, D)
    BY <1>2, <1>4, Zenon
  <1>6. /\ c.text \in Text /\ c.key \in Key /\ c.cur \in Text \cup {NULL}
        /\ c.cur # NULL => c.at <= Len(c.words) /\ c.words[c.at] \in D
    BY <1>5, ChaseIs DEF Produced
  <1>7. ASSUME NEW t PROVE /\ t \in D <=> Lookup(t) # NULL
                           /\ t \in D <=> Defined(t)
                           /\ Lookup(t) \in Text \cup {NULL}
    BY <1>2, <1>4, SymbolsAreDefined, LookupIs DEF TablePart, Defined
  <1>8. ASSUME map' = map, chase' \in Chase, Produced(chase', D) PROVE SymbolPart'
    <2>1. Produced(chase', Symbols')
      BY <1>4, <1>8, SymbolsSame, Zenon
    <2>2. TablePart(map', hidden', ~unresolved')
      BY <1>2, <1>3, <1>8
    <2> QED
      BY <1>2, <1>3, <1>8, <2>1, <2>2, Zenon DEF SymbolPart
  <1>9. CASE NotAName
    <2>1. /\ c.at <= Len(c.words) /\ c.cur = NULL /\ ~Defined(c.words[c.at])
          /\ chase' = [c EXCEPT !.at = @ + 1] /\ map' = map
      BY <1>4, <1>9 DEF NotAName, Token
    <2>2. c.words[c.at] \notin D
      BY <1>7, <2>1
    <2>3. chase' \in Chase /\ Produced(chase', D)
      BY <1>5, <2>1, <2>2, ProducedSkip
    <2> QED
      BY <1>3, <1>8, <2>1, <2>3
  <1>10. CASE FirstValue \/ NextValue
    <2>1. PICK v : /\ c.at <= Len(c.words) /\ c.words[c.at] \in D /\ v \in Text
                   /\ chase' = [c EXCEPT !.cur = v] /\ map' = map
      <3>1. CASE FirstValue
        <4>1. PICK w : /\ w = c.words[c.at] /\ c.at <= Len(c.words) /\ Defined(w)
                       /\ chase' = [c EXCEPT !.cur = Lookup(w)] /\ map' = map
          BY <1>4, <3>1 DEF FirstValue, Token
        <4>2. w \in D /\ Lookup(w) \in Text
          BY <1>7, <4>1
        <4> QED
          BY <4>1, <4>2, Zenon
      <3>2. CASE NextValue
        <4>1. PICK w : /\ w = c.cur /\ w # NULL /\ Lookup(w) # NULL
                       /\ chase' = [c EXCEPT !.cur = Lookup(w)] /\ map' = map
          BY <1>4, <3>2 DEF NextValue
        <4>2. Lookup(w) \in Text
          BY <1>7, <4>1
        <4> QED
          BY <1>6, <4>1, <4>2, Zenon
      <3> QED
        BY <1>10, <3>1, <3>2
    <2>2. chase' \in Chase /\ Produced(chase', D)
      BY <1>5, <2>1, ProducedValue
    <2> QED
      BY <1>3, <1>8, <2>1, <2>2
  <1>11. CASE Substitute
    <2>1. /\ c.cur # NULL /\ Lookup(c.cur) = NULL /\ map' = map
          /\ chase' = [c EXCEPT !.text = Replace(@, c.words[c.at], c.cur), !.at = @ + 1, !.cur = NULL]
      BY <1>4, <1>11 DEF Substitute, Token
    <2>2. c.cur \notin D
      BY <1>7, <2>1
    <2>3. chase' \in Chase /\ Produced(chase', D)
      BY <1>5, <2>1, <2>2, ProducedReplace
    <2> QED
      BY <1>3, <1>8, <2>1, <2>3
  <1>12. CASE StoreResolved
    <2>1. PICK k, v : k = c.key /\ v = c.text
      OBVIOUS
    <2>2. /\ c.at > Len(c.words) /\ map' = Inserted(map, k, v) /\ chase' = NULL
          /\ k \in Key /\ v \in Text
      BY <1>4, <1>6, <1>12, <2>1 DEF StoreResolved
    <2>3. ASSUME NEW b \in Key \ {k}, v = b PROVE Get(map, b) = NULL
      <3>1. b \notin D
        <4>1. b \in Key /\ c.text = b
          BY <2>1, <2>3
        <4> QED
          BY <1>5, <2>2, <4>1, ProducedKey
      <3> QED
        BY <1>7, <3>1 DEF Lookup
    <2>4. PICK s \in BOOLEAN : s = ~unresolved
      OBVIOUS
    <2>5. TablePart(Inserted(map, k, v), hidden, s)
      BY <1>2, <2>2, <2>3, <2>4, InsertKeeps
    <2>6. TablePart(map', hidden', ~unresolved')
      BY <1>3, <2>2, <2>4, <2>5
    <2>7. SymbolPart'
      BY <1>2, <1>3, <2>2, <2>6, Zenon DEF SymbolPart
    <2> QED
      BY <1>3, <2>7
  <1> QED
    BY <1>9, <1>10, <1>11, <1>12 DEF Resolve

\* The stack and the groups after a line.
LEMMA LineKeepsGroups ==
  ASSUME IInv, NEW l, ReadLine(l)
  PROVE  StackPart' /\ stack' # <<>>
  <1>1. /\ Types /\ pc = "run" /\ BasesOf(stack, Len(groups)) /\ (plain => Nested(stack, groups))
        /\ plain \in BOOLEAN
    BY DEF IInv, Types, ReadLine
  <1>2. /\ WellFormed(l) /\ groups' = GroupsAfter(l) /\ plain' = (plain /\ LookedFor(l))
        /\ ParseFile(l) \/ IfElse(l) \/ IfDef(l)
    BY DEF ReadLine
  <1>3. StackOK(stack') /\ groups' \in Seq(Group) /\ BasesOf(stack', Len(groups'))
    BY <1>1, LineKeepsStack
  <1>4. plain' \in BOOLEAN
    BY <1>1, <1>2
  <1>5. ASSUME plain' PROVE Nested(stack', groups')
    <2>1. Nested(stack, groups) /\ LookedFor(l)
      BY <1>1, <1>2, <1>5
    <2>2. CASE ParseFile(l)
      BY <1>1, <1>2, <2>1, <2>2, ParseFileFollows
    <2>3. CASE IfElse(l)
      BY <1>1, <1>2, <2>1, <2>3, IfElseFollows
    <2>4. CASE IfDef(l)
      BY <1>1, <1>2, <2>1, <2>4, IfDefFollows
    <2> QED
      BY <1>2, <2>2, <2>3, <2>4
  <1> QED
    BY <1>3, <1>4, <1>5, Zenon DEF StackPart, StackOK

\* The command line changes no more than the table.
LEMMA GetArgKeeps ==
  ASSUME IInv, GetArg
  PROVE  IInv'
  <1>1. StackPart /\ SymbolPart /\ ControlPart
    BY IInvIs
  <1>2. pc = "args" /\ UNCHANGED <<stack, chase, groups, plain>> /\ count < MaxInputs /\ count' = count + 1
    BY DEF GetArg
  <1>3. chase = NULL /\ stack = <<>>
    BY <1>1, <1>2 DEF ControlPart
  <1>4. PICK a \in Argument : ArgDefine(a) \/ ArgDirectory(a) \/ ArgOutput(a) \/ ArgFile(a)
    BY DEF GetArg
  <1>5. pc' \in {"args", "exit1"}
    BY <1>2, <1>4 DEF ArgDefine, ArgDirectory, ArgOutput, ArgFile
  <1>6. SymbolPart'
    <2>1. CASE ArgDefine(a)
      <3>1. PICK k, v, t : k = a.key /\ v = a.val /\ t = Join(v)
        OBVIOUS
      <3>2. k \in Key /\ v \in Seq(Word)
        BY <2>1, <3>1, PreprocessorAssumption DEF ArgDefine
      <3>3. map' = Inserted(map, k, t) /\ unresolved' = TRUE /\ hidden' = hidden
        BY <2>1, <3>1 DEF ArgDefine
      <3>4. t \in Text
        <4>1. PICK n : n = Len(v) /\ n \in Nat
          BY <3>2
        <4>2. \A i \in 1..n : v[i] \in Text
          BY <3>2, <4>1, WordIs
        <4> QED
          BY <3>1, <4>1, <4>2, JoinIs
      <3>5. TablePart(map, hidden, ~unresolved) /\ hidden \in BOOLEAN
        BY <1>1 DEF SymbolPart
      <3>6. TablePart(Inserted(map, k, t), hidden, FALSE)
        BY <3>2, <3>4, <3>5, InsertKeeps
      <3>7. TablePart(map', hidden', ~unresolved')
        BY <3>3, <3>6
      <3> QED
        BY <1>2, <1>3, <3>3, <3>5, <3>7 DEF SymbolPart
    <2>2. CASE ArgDirectory(a) \/ ArgOutput(a) \/ ArgFile(a)
      <3>1. UNCHANGED <<map, chase, marks>>
        BY <1>2, <2>2 DEF ArgDirectory, ArgOutput, ArgFile
      <3> QED
        BY <1>1, <3>1, SymbolsStay
    <2> QED
      BY <1>4, <2>1, <2>2
  <1>7. StackPart'
    BY <1>1, <1>2 DEF StackPart
  <1>8. ControlPart'
    <2>1. count' \in 0..MaxInputs
      BY <1>1, <1>2, PreprocessorAssumption DEF ControlPart
    <2> QED
      BY <1>2, <1>3, <1>5, <2>1 DEF ControlPart
  <1> QED
    BY <1>6, <1>7, <1>8, IInvNext

\* main calls parseFile outside of conditionals.
LEMMA StartKeeps ==
  ASSUME IInv, Start
  PROVE  IInv'
  <1>1. StackPart /\ SymbolPart /\ ControlPart
    BY IInvIs
  <1>2. /\ pc = "args" /\ UNCHANGED <<map, chase, groups, plain, count, marks>>
        /\ \/ pc' = "run" /\ stack' = <<ParseFrame>>
           \/ pc' = "exit1" /\ stack' = stack
    BY DEF Start, history
  <1>3. stack = <<>> /\ chase = NULL
    BY <1>1, <1>2 DEF ControlPart
  <1>4. SymbolPart'
    BY <1>1, <1>2, SymbolsStay
  <1>5. CASE pc' = "exit1" /\ stack' = stack
    <2>1. StackPart'
      BY <1>1, <1>2, <1>5 DEF StackPart
    <2>2. ControlPart'
      BY <1>1, <1>2, <1>3, <1>5 DEF ControlPart
    <2> QED
      BY <1>4, <2>1, <2>2, IInvNext
  <1>6. CASE pc' = "run" /\ stack' = <<ParseFrame>>
    <2>1. PICK f, s, g, n : f = ParseFrame /\ s = stack /\ g = groups /\ n = Len(groups)
      OBVIOUS
    <2>2. g \in Seq(Group) /\ n \in Nat /\ n = Len(g) /\ s \in Seq(Frame) /\ BasesOf(s, n)
      BY <1>1, <2>1 DEF StackPart
    <2>3. f \in Frame /\ f.fn = "parseFile" /\ f.base = n
      BY <2>1, <2>2 DEF ParseFrame, Frame
    <2>4. stack' = Append(s, f)
      BY <1>3, <1>6, <2>1
    <2>5. stack' \in Seq(Frame) /\ stack' # <<>> /\ stack'[1].fn = "parseFile"
      BY <1>6, <2>1, <2>3
    <2>6. BasesOf(stack', Len(groups'))
      <3>1. BasesOf(Append(s, f), n)
        BY <2>2, <2>3, BasesFile
      <3> QED
        BY <1>2, <2>1, <2>4, <3>1, Zenon
    <2>7. ASSUME plain' PROVE Nested(stack', groups')
      <3>1. Nested(s, g)
        BY <1>1, <1>2, <2>1, <2>7 DEF StackPart
      <3>2. Len(g) = 0
        <4>1. Calls(s, Len(s)) = Len(g) /\ Len(s) = 0
          BY <1>3, <2>1, <3>1 DEF Nested
        <4> QED
          BY <4>1, CallsNone
      <3>3. Nested(Append(s, f), g)
        BY <2>2, <2>3, <3>1, <3>2, NestedFile
      <3> QED
        BY <1>2, <2>1, <2>4, <3>3, Zenon
    <2>8. StackPart'
      BY <1>1, <1>2, <2>5, <2>6, <2>7, Zenon DEF StackPart
    <2>9. ControlPart'
      BY <1>1, <1>2, <1>3, <1>6, <2>5 DEF ControlPart
    <2> QED
      BY <1>4, <2>8, <2>9, IInvNext
  <1> QED
    BY <1>2, <1>5, <1>6

\* The end of a file returns from parseFile and the calls it made.
LEMMA EndOfFileKeeps ==
  ASSUME IInv, EndOfFile
  PROVE  IInv'
  <1>1. StackPart /\ SymbolPart /\ ControlPart
    BY IInvIs
  <1>2. Types /\ pc = "run" /\ chase = NULL /\ BasesOf(stack, Len(groups))
    BY DEF IInv, EndOfFile
  <1>3. PICK f \in 1..Len(stack) :
           /\ IsFile(stack, f) /\ \A k \in f+1..Len(stack) : ~IsFile(stack, k)
           /\ Base = stack[f].base /\ Base \in 0..Len(groups)
           /\ \A j \in 1..Len(stack) : IsFile(stack, j) => stack[j].base <= Base
           /\ f = CHOOSE j \in 1..Len(stack) :
                    stack[j].fn = "parseFile" /\ \A k \in j+1..Len(stack) : stack[k].fn # "parseFile"
    BY <1>2, BaseIs
  <1>4. /\ stack' = SubSeq(stack, 1, f - 1) /\ groups' = SubSeq(groups, 1, Base)
        /\ pc' = (IF f = 1 THEN "exit0" ELSE "run")
        /\ UNCHANGED <<map, chase, count, plain, marks>>
    BY <1>3, Zenon DEF EndOfFile
  <1>5. PICK s, g, n, b : s = stack /\ g = groups /\ n = f - 1 /\ b = Base
    OBVIOUS
  <1>6. s \in Seq(Frame) /\ g \in Seq(Group) /\ n \in 0..Len(s) /\ b \in 0..Len(g) /\ f = n + 1
    <2>1. s \in Seq(Frame) /\ g \in Seq(Group)
      BY <1>1, <1>5 DEF StackPart
    <2>2. f \in 1..Len(s) /\ b \in 0..Len(g)
      BY <1>3, <1>5
    <2>3. Len(s) \in Nat
      BY <2>1
    <2> QED
      BY <1>5, <2>1, <2>2, <2>3
  <1>7. /\ SubSeq(s, 1, n) \in Seq(Frame) /\ Len(SubSeq(s, 1, n)) = n
        /\ \A i \in 1..n : SubSeq(s, 1, n)[i] = s[i]
    BY <1>6, Cut
  <1>8. SubSeq(g, 1, b) \in Seq(Group) /\ Len(SubSeq(g, 1, b)) = b
    BY <1>6, Cut
  <1>9. PICK t, h : t = SubSeq(s, 1, n) /\ h = SubSeq(g, 1, b)
    OBVIOUS
  <1>10. t = stack' /\ h = groups'
    BY <1>4, <1>5, <1>9, Zenon
  <1>11. BasesOf(t, Len(h))
    <2>1. BasesOf(s, Len(g)) /\ Len(g) \in Nat
      BY <1>2, <1>5, <1>6
    <2>2. BasesOf(t, Len(g))
      BY <1>6, <1>9, <2>1, BasesCut, Zenon
    <2>3. ASSUME NEW j \in 1..Len(t), IsFile(t, j) PROVE t[j].base <= b
      <3>1. j \in 1..n /\ j \in 1..Len(s) /\ t[j] = s[j]
        BY <1>6, <1>7, <1>9
      <3>2. IsFile(s, j)
        BY <2>3, <3>1 DEF IsFile
      <3> QED
        BY <1>3, <1>5, <3>1, <3>2
    <2>4. t \in Seq(Frame) /\ Len(h) = b
      BY <1>7, <1>8, <1>9, Zenon
    <2> QED
      BY <2>1, <2>2, <2>3, <2>4, BasesBound
  <1>12. ASSUME plain' PROVE Nested(t, h)
    <2>1. Nested(s, g)
      BY <1>1, <1>4, <1>5, <1>12 DEF StackPart
    <2>2. Nested(SubSeq(s, 1, n), SubSeq(g, 1, Calls(s, n)))
      BY <1>6, <2>1, NestedCut
    <2>3. b = Calls(s, n)
      <3>1. f \in 1..Len(s) /\ IsFile(s, f) /\ b = s[f].base
        BY <1>3, <1>5
      <3>2. b = Calls(s, f)
        BY <2>1, <3>1 DEF Nested, Fits
      <3>3. Calls(s, f) = Calls(s, f - 1)
        BY <3>1, CallsNext
      <3> QED
        BY <1>5, <3>2, <3>3
    <2> QED
      BY <1>9, <2>2, <2>3, Zenon
  <1>13. t # <<>> <=> f # 1
    <2>1. t \in Seq(Frame) /\ Len(t) = n
      BY <1>7, <1>9, Zenon
    <2>2. t # <<>> <=> n # 0
      BY <2>1
    <2>3. n # 0 <=> f # 1
      BY <1>6
    <2> QED
      BY <2>2, <2>3, Zenon
  <1>14. t # <<>> => t[1].fn = "parseFile"
    <2>1. SUFFICES ASSUME t # <<>> PROVE t[1].fn = "parseFile"
      OBVIOUS
    <2>2. 1 \in 1..n /\ s # <<>>
      BY <1>6, <1>13, <2>1
    <2>3. t[1] = s[1]
      BY <1>7, <1>9, <2>2
    <2> QED
      BY <1>1, <1>5, <2>2, <2>3 DEF StackPart
  <1>15. StackPart'
    <2>1. t \in Seq(Frame) /\ h \in Seq(Group) /\ plain' \in BOOLEAN
      BY <1>1, <1>4, <1>7, <1>8, <1>9, Zenon DEF StackPart
    <2> QED
      BY <1>10, <1>11, <1>12, <1>14, <2>1, Zenon DEF StackPart
  <1>16. SymbolPart'
    BY <1>1, <1>4, SymbolsStay
  <1>17. ControlPart'
    BY <1>1, <1>2, <1>4, <1>10, <1>13 DEF ControlPart
  <1> QED
    BY <1>15, <1>16, <1>17, IInvNext

\* Nothing is open and nothing is defined when the program starts.
LEMMA InitIInv ==
  ASSUME Init
  PROVE  IInv
  <1>1. StackPart
    <2>1. Calls(<<>>, 0) = 0
      BY CallsNone
    <2> QED
      BY <2>1 DEF Init, StackPart, BasesOf, Nested
  <1>2. SymbolPart
    <2>1. PICK n : n = 6 /\ n \in Nat /\ n > 0
      OBVIOUS
    <2>2. PICK m : m = CreateHashMap(n)
      OBVIOUS
    <2>3. /\ TableOK(m, Text) /\ HasSpace(m) /\ Sound(m) /\ Covers(m)
          /\ m.size = n /\ m.cnt = 0 /\ \A k \in Key : Get(m, k) = NULL
      BY <2>1, <2>2, NullIs, CreateOK
    <2>4. Roomy(m)
      <3>1. m.size >= 5 /\ 4 * m.cnt <= 3 * m.size + 4
        BY <2>1, <2>3
      <3> QED
        BY <2>3, <3>1 DEF Roomy
    <2>5. RingFree(Values(m))
      <3>1. ASSUME NEW S \in (SUBSET Key) \ {{}} PROVE \E a \in S : \A b \in S \ {a} : Values(m)[a] # b
        <4>1. PICK a \in S : a \in Key
          OBVIOUS
        <4>2. Values(m)[a] = NULL
          BY <2>3, <4>1 DEF Values
        <4> QED
          BY <4>1, <4>2, NullIs
      <3> QED
        BY <3>1 DEF RingFree
    <2>6. map = m /\ chase = NULL /\ unresolved = FALSE /\ hidden = FALSE
      BY <2>1, <2>2 DEF Init
    <2> QED
      BY <2>3, <2>4, <2>5, <2>6 DEF SymbolPart, TablePart
  <1>3. ControlPart
    BY PreprocessorAssumption DEF Init, ControlPart
  <1> QED
    BY <1>1, <1>2, <1>3, IInvIs

\* Every step keeps the invariant.
LEMMA NextKeepsIInv ==
  ASSUME IInv, [Next]_vars
  PROVE  IInv'
  <1>1. CASE GetArg
    BY <1>1, GetArgKeeps
  <1>2. CASE Start
    BY <1>2, StartKeeps
  <1>3. CASE Resolve
    <2>1. SymbolPart' /\ UNCHANGED <<stack, groups, plain, count, pc>>
      BY <1>3, ResolveKeepsSymbols
    <2>2. StackPart /\ ControlPart /\ pc = "run"
      BY <1>3, IInvIs DEF Resolve, Resolving, NotAName, FirstValue, NextValue, Substitute, StoreResolved
    <2>3. StackPart'
      BY <2>1, <2>2 DEF StackPart
    <2>4. ControlPart'
      BY <2>1, <2>2 DEF ControlPart
    <2> QED
      BY <2>1, <2>3, <2>4, IInvNext
  <1>4. CASE EndOfFile
    BY <1>4, EndOfFileKeeps
  <1>5. ASSUME NEW l \in Line, ReadLine(l) PROVE IInv'
    <2>1. SymbolPart' /\ pc' \in {"run", "exit1"} /\ (chase' # NULL => pc' = "run")
      BY <1>5, LineKeepsSymbols
    <2>2. StackPart' /\ stack' # <<>>
      BY <1>5, LineKeepsGroups
    <2>3. ControlPart'
      <3>1. count' \in 0..MaxInputs
        BY <1>5, IInvIs, PreprocessorAssumption DEF ReadLine, ControlPart
      <3> QED
        BY <2>1, <2>2, <3>1 DEF ControlPart
    <2> QED
      BY <2>1, <2>2, <2>3, IInvNext
  <1>6. CASE UNCHANGED vars
    <2>1. StackPart /\ SymbolPart /\ ControlPart
      BY IInvIs
    <2>2. /\ UNCHANGED <<map, stack, chase, out>> /\ UNCHANGED <<pc, count, groups, plain, marks>>
      BY <1>6 DEF vars, state, history
    <2>3. StackPart'
      BY <2>1, <2>2 DEF StackPart
    <2>4. SymbolPart'
      BY <2>1, <2>2, SymbolsStay
    <2>5. ControlPart'
      BY <2>1, <2>2 DEF ControlPart
    <2> QED
      BY <2>3, <2>4, <2>5, IInvNext
  <1> QED
    BY <1>1, <1>2, <1>3, <1>4, <1>5, <1>6 DEF Next

-----------------------------------------------------------------------------
(***************************************************************************)
(* What the preprocessor does                                              *)
(***************************************************************************)
\* Whatever the lines and the arguments are: the stack of calls, the table and the
\* value being resolved agree with one another (main.c:13, helper.c:65).
THEOREM Invariance == Spec => []IInv
  <1>1. Init => IInv
    BY InitIInv
  <1>2. IInv /\ [Next]_vars => IInv'
    BY NextKeepsIInv
  <1> QED
    BY <1>1, <1>2, PTL DEF Spec

\* Every variable of the preprocessor keeps its type (parseFile, ifelse, ifdef and
\* defineMap of main.c and helper.c).
THEOREM TypeCorrect == Spec => []TypeOK
  <1>1. IInv => TypeOK
    BY DEF IInv, Types
  <1> QED
    BY <1>1, Invariance, PTL

\* A stack that follows the groups copies exactly what C takes.
LEMMA NestedCopies ==
  ASSUME IInv
  PROVE  CallsAreGroups
  <1>1. SUFFICES ASSUME plain
                 PROVE  /\ Calls(stack, Len(stack)) = Len(groups)
                        /\ \A j \in 1..Len(stack) : ~IsFile(stack, j) =>
                             Copying(stack[j]) = groups[Calls(stack, j)].taken
    BY Zenon DEF CallsAreGroups, Calls, IsFile
  <1>2. Nested(stack, groups)
    BY <1>1 DEF IInv
  <1>3. ASSUME NEW j \in 1..Len(stack), ~IsFile(stack, j)
        PROVE  Copying(stack[j]) = groups[Calls(stack, j)].taken
    <2>1. Matches(stack[j], groups[Calls(stack, j)])
      BY <1>2, <1>3, Zenon DEF Nested, Fits
    <2> QED
      BY <2>1, Zenon DEF Matches
  <1>4. Calls(stack, Len(stack)) = Len(groups)
    BY <1>2, Zenon DEF Nested
  <1> QED
    BY <1>3, <1>4

\* The calls of ifelse and ifdef on the C stack are the conditionals that are open in C,
\* and each copies its lines exactly when C takes its group, through every elif, else and
\* included file, until a conditional stands where the code does not look for one.
THEOREM CallsFollowGroups == Spec => []CallsAreGroups
  BY Invariance, NestedCopies, PTL

\* defineMap never closes a ring of several definitions: however a #define, #undef or
\* another #define changes the table, only values that it stored unresolved (-D, a #define
\* over several lines) can, and symbols that the #undef of another one hid from get
\* (hashmap.c:129).
THEOREM NoRing == Spec => []NoRingOfSeveral
  <1>1. IInv => NoRingOfSeveral
    BY DEF IInv
  <1> QED
    BY <1>1, Invariance, PTL

\* A line of a group that C skips writes and defines nothing, and a text line of a group
\* that C takes is written.
LEMMA LineFollows ==
  ASSUME IInv, NEW l \in Line, ReadLine(l), plain
  PROVE  /\ ~Live => (out' = NULL /\ chase' = NULL /\ map' = map)
         /\ (Live /\ l.d = "text" /\ l.words # <<>>) => out' # NULL
  <1>1. /\ Types /\ pc = "run" /\ chase = NULL /\ BasesOf(stack, Len(groups)) /\ Nested(stack, groups)
        /\ ParseFile(l) \/ IfElse(l) \/ IfDef(l)
    BY DEF IInv, Types, ReadLine
  <1>2. ASSUME l.d = "text" PROVE Join(l.words) # NULL /\ Expanded(l.words) # NULL
    <2>1. PICK words : words = l.words /\ words \in Seq(Word)
      BY <1>2, PreprocessorAssumption
    <2>2. PICK n : n \in Nat /\ n = Len(words) /\ \A i \in 1..n : words[i] \in Text
      BY <2>1, WordIs
    <2>3. Join(words) \in Text
      BY <2>2, JoinIs
    <2>4. TableOK(map, Text) /\ Roomy(map)
      BY DEF IInv, Types, TypeOK
    <2>5. PICK f \in [0..n -> Text] : Expanded(words) = f[n]
      BY <2>1, <2>2, <2>4, ExpandedLoop
    <2>6. Expanded(words) \in Text
      BY <2>2, <2>5
    <2> QED
      BY <2>1, <2>3, <2>6, NullIs
  <1>3. ASSUME Skip(l) PROVE out' = NULL /\ chase' = NULL /\ map' = map
    BY <1>1, <1>3 DEF Skip, Write
  <1>4. ASSUME Return PROVE out' = NULL /\ chase' = NULL /\ map' = map
    BY <1>1, <1>4 DEF Return
  <1>5. ASSUME NEW f, Again(f) PROVE out' = NULL /\ chase' = NULL /\ map' = map
    BY <1>1, <1>5 DEF Again
  <1>6. ASSUME Copy(l), l.d = "text", l.words # <<>> PROVE out' # NULL
    BY <1>2, <1>6 DEF Copy, Write
  <1>7. CASE ParseFile(l)
    <2>1. Live
      BY <1>1, <1>7, InFile DEF ParseFile
    <2>2. ASSUME l.d = "text" PROVE out' # NULL
      <3>1. out' = Expanded(l.words)
        BY <1>7, <2>2 DEF ParseFile, Define, Undef, Open, Include, Opening, Write
      <3> QED
        BY <1>2, <2>2, <3>1
    <2> QED
      BY <2>1, <2>2
  <1>8. CASE IfElse(l)
    <2>1. PICK f : f = Top(stack)
      OBVIOUS
    <2>2. f.fn = "ifelse" /\ f \in Frame /\ Live = Copying(f)
      BY <1>1, <1>8, <2>1, InGroup DEF IfElse
    <2>3. f.cond \in BOOLEAN /\ f.done \in BOOLEAN
      BY <2>2, FrameIs
    <2>4. Live = (f.cond /\ ~f.done)
      BY <2>2, <2>3 DEF Copying
    <2>5. CASE Live
      <3>1. ASSUME l.d = "text" PROVE Copy(l)
        BY <1>8, <2>1, <2>4, <2>5, <3>1 DEF IfElse, Define, Column0
      <3> QED
        BY <1>6, <2>5, <3>1
    <2>6. CASE ~Live
      BY <1>3, <1>4, <1>5, <1>8, <2>1, <2>3, <2>4, <2>6, Zenon DEF IfElse
    <2> QED
      BY <2>5, <2>6
  <1>9. CASE IfDef(l)
    <2>1. PICK f : f = Top(stack)
      OBVIOUS
    <2>2. f.fn = "ifdef" /\ f \in Frame /\ Live = Copying(f)
      BY <1>1, <1>9, <2>1, InGroup DEF IfDef
    <2>3. f.cond \in BOOLEAN
      BY <2>2, FrameIs
    <2>4. Live = f.cond
      BY <2>2, <2>3 DEF Copying
    <2>5. CASE Live
      <3>1. ASSUME l.d = "text" PROVE Copy(l)
        BY <1>9, <2>1, <2>4, <2>5, <3>1 DEF IfDef, Define, Undef, Open, Include, Opening, Column0
      <3> QED
        BY <1>6, <2>5, <3>1
    <2>6. CASE ~Live
      BY <1>3, <1>4, <1>5, <1>9, <2>1, <2>3, <2>4, <2>6, Zenon DEF IfDef
    <2> QED
      BY <2>5, <2>6
  <1> QED
    BY <1>1, <1>7, <1>8, <1>9

\* As long as the lines are where the code looks for them, nothing of a skipped group is
\* written or defined, and no text of a group that is taken is lost (parseFile, ifelse and
\* ifdef of main.c).
THEOREM LinesFollow == Spec => LinesFollowGroups
  <1>1. IInv /\ [Next]_vars =>
          [\A l \in Line : ReadLine(l) /\ plain =>
             /\ ~Live => (out' = NULL /\ chase' = NULL /\ map' = map)
             /\ (Live /\ l.d = "text" /\ l.words # <<>>) => out' # NULL]_vars
    BY LineFollows
  <1> QED
    BY <1>1, Invariance, PTL DEF Spec, LinesFollowGroups

\* An ordinary line of a file is written as it is expanded.
LEMMA LineReplaced ==
  ASSUME IInv, NEW l \in Line, OrdinaryLine(l), ValuesApart(l.words), WordsApart(l.words)
  PROVE  out' = Replaced(l.words)
  <1>1. /\ ParseFile(l) /\ l.d = "text" /\ l.words \in Seq(Word)
        /\ TableOK(map, Text) /\ Roomy(map)
    BY PreprocessorAssumption DEF IInv, Types, TypeOK, OrdinaryLine, ReadLine, IfElse, IfDef
  <1>2. out' = Expanded(l.words)
    BY <1>1 DEF ParseFile, Define, Undef, Open, Include, Opening, Write
  <1> QED
    BY <1>1, <1>2, ExpandedIsReplaced

\* parseFile replaces every defined symbol of an ordinary line by its value and nothing
\* else, though each replacement searches the line from its start and within words, when
\* no symbol of the line is part of another word or of a value (helper.c:182).
THEOREM SymbolsAre == Spec => SymbolsReplaced
  <1>1. IInv /\ [Next]_vars =>
          [\A l \in Line :
             OrdinaryLine(l) /\ ValuesApart(l.words) /\ WordsApart(l.words)
               => out' = Replaced(l.words)]_vars
    BY LineReplaced
  <1> QED
    BY <1>1, Invariance, PTL DEF Spec, SymbolsReplaced

=============================================================================
