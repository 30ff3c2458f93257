---------------------------- MODULE InitCheckProofs ----------------------------
(***************************************************************************)
(* What the check of the monitoring boxes is worth, for every number of    *)
(* hosts and tenants and every order in which a daemon prints them.        *)
(***************************************************************************)
EXTENDS InitCheck, FiniteSetTheorems, TLAPS

\* A daemon prints each of its tenants once.
LEMMA OrderNamesEach ==
    ASSUME NEW U \in SUBSET Tenants, NEW s \in SetToSeqs(U)
    PROVE  /\ IsFiniteSet(U) /\ Cardinality(U) \in Nat
           /\ Cardinality(U) <= Cardinality(Tenants)
           /\ s \in Seq(U) /\ Len(s) = Cardinality(U)
           /\ \A i, j \in 1..Len(s) : s[i] = s[j] => i = j
           /\ \A t \in U : \E i \in 1..Len(s) : s[i] = t
<1> DEFINE n == Cardinality(U)
<1>1. IsFiniteSet(U) /\ n <= Cardinality(Tenants)
  BY InitCheckAssumption, FS_Subset
<1>2. n \in Nat
  BY <1>1, FS_CardinalityType
<1>3. s \in [1..n -> U] /\ \A i, j \in 1..n : i # j => s[i] # s[j]
  BY DEF SetToSeqs
<1> HIDE DEF n
<1>4. s \in Seq(U) /\ Len(s) = n
  BY <1>2, <1>3
<1>5. s \in Injection(1..n, U)
  BY <1>3 DEF Injection, IsInjective
<1>6. Cardinality(1..n) = n
  BY <1>2, FS_Interval
<1>7. s \in Surjection(1..n, U)
  BY <1>1, <1>5, <1>6, FS_Injection DEF n
<1>8. \A t \in U : \E i \in 1..n : s[i] = t
  BY <1>7 DEF Surjection
<1> QED BY <1>1, <1>2, <1>3, <1>4, <1>8 DEF n

-------------------------------------------------------------------------------
\* What is read of the output, by layout.
AnyLine == [tenant : Tenants \cup {"none"}, word : {"published", "consumed", "heading"}]

LEMMA WorkersLines ==
    ASSUME NEW s \in Seq(Tenants), NEW word \in {"published", "consumed"}
    PROVE  /\ Workers(s, word) \in Seq(AnyLine) /\ Len(Workers(s, word)) = Len(s)
           /\ \A i \in 1..Len(s) : /\ Workers(s, word)[i].tenant = s[i]
                                   /\ Workers(s, word)[i].word = word
<1>1. Len(s) \in Nat /\ \A i \in 1..Len(s) : s[i] \in Tenants
  OBVIOUS
<1>2. \A i \in 1..Len(s) : Line(s[i], word) \in AnyLine
  BY <1>1 DEF Line, AnyLine
<1> QED BY <1>1, <1>2 DEF Workers, Line

LEMMA Joined ==
    ASSUME NEW a \in Seq(AnyLine), NEW b \in Seq(AnyLine), NEW c, c = a \o b
    PROVE  /\ c \in Seq(AnyLine) /\ Len(c) = Len(a) + Len(b)
           /\ \A i \in 1..Len(a) : c[i] = a[i]
           /\ \A i \in 1..Len(b) : c[Len(a) + i] = b[i]
OBVIOUS

LEMMA PublishedFirst ==
    ASSUME NEW s \in Seq(Tenants)
    PROVE  LET lines == Output(s, "published_first")
           IN  /\ Read(lines) = 1..Len(s)
               /\ \A i \in 1..Len(s) : lines[i].tenant = s[i]
<1> DEFINE n == Len(s)
           pub == Workers(s, "published")
           con == Workers(s, "consumed")
           lines == Output(s, "published_first")
<1>1. n \in Nat
  OBVIOUS
<1>2. /\ pub \in Seq(AnyLine) /\ con \in Seq(AnyLine) /\ Len(pub) = n /\ Len(con) = n
      /\ \A i \in 1..n : /\ pub[i].tenant = s[i] /\ pub[i].word = "published"
                         /\ con[i].tenant = s[i] /\ con[i].word = "consumed"
  BY WorkersLines
<1>3. /\ Len(lines) = n + n
      /\ \A i \in 1..n : lines[i] = pub[i] /\ lines[n + i] = con[i]
  <2>1. lines = pub \o con
    BY DEF Output
  <2> HIDE DEF lines, pub, con, n
  <2>0. pub \in Seq(AnyLine) /\ con \in Seq(AnyLine)
    BY <1>2
  <2>2. /\ Len(lines) = Len(pub) + Len(con)
        /\ \A i \in 1..Len(pub) : lines[i] = pub[i]
        /\ \A i \in 1..Len(con) : lines[Len(pub) + i] = con[i]
    BY <2>1, <2>0, SMT
  <2> QED BY <1>1, <1>2, <2>2
<1> HIDE DEF pub, con
<1>4. /\ \A i \in 1..n : lines[i].tenant = s[i] /\ lines[i].word = "published"
      /\ n > 0 => lines[n + 1].word = "consumed"
  <2> HIDE DEF lines, n
  <2> QED BY <1>1, <1>2, <1>3
<1> HIDE DEF lines, n
<1>5. Read(lines) = 1..n
  BY <1>1, <1>3, <1>4 DEF Read, EndCommand
<1> QED BY <1>4, <1>5 DEF lines, n

LEMMA HeadingFirst ==
    ASSUME NEW s \in Seq(Tenants)
    PROVE  LET lines == Output(s, "heading")
           IN  /\ Read(lines) = 1..(Len(s) + 1)
               /\ lines[1].tenant = "none"
               /\ \A i \in 1..Len(s) : lines[i + 1].tenant = s[i]
<1> DEFINE n == Len(s)
           pub == Workers(s, "published")
           con == Workers(s, "consumed")
           head == <<Heading>> \o pub
           lines == Output(s, "heading")
<1>1. n \in Nat
  OBVIOUS
<1>2. /\ pub \in Seq(AnyLine) /\ con \in Seq(AnyLine) /\ Len(pub) = n /\ Len(con) = n
      /\ \A i \in 1..n : /\ pub[i].tenant = s[i] /\ pub[i].word = "published"
                         /\ con[i].tenant = s[i] /\ con[i].word = "consumed"
  BY WorkersLines
<1>3. <<Heading>> \in Seq(AnyLine) /\ Len(<<Heading>>) = 1
  BY DEF Heading, AnyLine
<1>4. /\ head \in Seq(AnyLine) /\ Len(head) = 1 + n /\ head[1] = Heading
      /\ \A i \in 1..n : head[1 + i] = pub[i]
  <2> HIDE DEF n, pub
  <2> QED BY <1>1, <1>2, <1>3, Joined
<1>5. /\ Len(lines) = n + n + 1
      /\ \A i \in 1..(n + 1) : lines[i] = head[i]
      /\ \A i \in 1..n : lines[(n + 1) + i] = con[i]
  <2>1. lines = head \o con
    BY DEF Output
  <2> HIDE DEF lines, head, pub, con, n
  <2>0. head \in Seq(AnyLine) /\ con \in Seq(AnyLine)
    BY <1>2, <1>4
  <2>2. /\ Len(lines) = Len(head) + Len(con)
        /\ \A i \in 1..Len(head) : lines[i] = head[i]
        /\ \A i \in 1..Len(con) : lines[Len(head) + i] = con[i]
    BY <2>1, <2>0, SMT
  <2>3. Len(head) = n + 1
    BY <1>1, <1>4
  <2> QED BY <1>1, <1>2, <2>2, <2>3
<1> HIDE DEF lines, head, pub, con, n
<1>6. /\ lines[1].tenant = "none"
      /\ \A i \in 1..n : lines[i + 1].tenant = s[i] /\ lines[i + 1].word = "published"
      /\ n > 0 => lines[n + 2].word = "consumed"
  <2>1. head[1].tenant = "none"
    BY <1>4 DEF Heading
  <2>2. n > 0 => lines[(n + 1) + 1] = con[1]
    BY <1>1, <1>5
  <2>3. \A i \in 1..n : lines[i + 1] = pub[i]
    BY <1>1, <1>4, <1>5
  <2>4. n > 0 => lines[n + 2] = con[1]
    <3>1. (n + 1) + 1 = n + 2
      BY <1>1
    <3> QED BY <2>2, <3>1
  <2>5. lines[1] = head[1]
    BY <1>1, <1>5
  <2>6. n > 0 => con[1].word = "consumed"
    BY <1>1, <1>2
  <2> QED BY <1>2, <2>1, <2>3, <2>4, <2>5, <2>6
<1>7. \A j \in 2..(n + 1) : lines[j].word = "published"
  <2> TAKE j \in 2..(n + 1)
  <2>1. j - 1 \in 1..n /\ (j - 1) + 1 = j
    BY <1>1
  <2> QED BY <1>6, <2>1
<1>8. Read(lines) = 1..(n + 1)
  BY <1>1, <1>5, <1>6, <1>7 DEF Read, EndCommand
<1> QED BY <1>6, <1>8 DEF lines, n

LEMMA ConsumedFirst ==
    ASSUME NEW s \in Seq(Tenants)
    PROVE  LET lines == Output(s, "consumed_first")
           IN  /\ Read(lines) = IF Len(s) = 1 THEN 1..2 ELSE IF Len(s) = 0 THEN {} ELSE {1}
               /\ Len(s) > 0 => lines[1].tenant = s[1]
               /\ Len(s) = 1 => lines[2].tenant = s[1]
<1> DEFINE n == Len(s)
           pub == Workers(s, "published")
           con == Workers(s, "consumed")
           lines == Output(s, "consumed_first")
<1>1. n \in Nat
  OBVIOUS
<1>2. /\ pub \in Seq(AnyLine) /\ con \in Seq(AnyLine) /\ Len(pub) = n /\ Len(con) = n
      /\ \A i \in 1..n : /\ pub[i].tenant = s[i] /\ pub[i].word = "published"
                         /\ con[i].tenant = s[i] /\ con[i].word = "consumed"
  BY WorkersLines
<1>3. /\ Len(lines) = n + n
      /\ \A i \in 1..n : lines[i] = con[i] /\ lines[n + i] = pub[i]
  <2>1. lines = con \o pub
    BY DEF Output
  <2> HIDE DEF lines, pub, con, n
  <2>0. con \in Seq(AnyLine) /\ pub \in Seq(AnyLine)
    BY <1>2
  <2>2. /\ Len(lines) = Len(con) + Len(pub)
        /\ \A i \in 1..Len(con) : lines[i] = con[i]
        /\ \A i \in 1..Len(pub) : lines[Len(con) + i] = pub[i]
    BY <2>1, <2>0, SMT
  <2> QED BY <1>1, <1>2, <2>2
<1> HIDE DEF pub, con
<1>4. /\ \A i \in 1..n : lines[i].tenant = s[i] /\ lines[i].word = "consumed"
      /\ n = 1 => lines[2].tenant = s[1] /\ lines[2].word = "published"
  <2> HIDE DEF lines, n
  <2> QED BY <1>1, <1>2, <1>3
<1> HIDE DEF lines, n
<1>5. CASE n = 0
  BY <1>3, <1>5 DEF Read, lines, n
<1>6. CASE n = 1
  <2>1. Read(lines) = 1..2
    BY <1>3, <1>4, <1>6 DEF Read, EndCommand
  <2> QED BY <1>4, <1>6, <2>1 DEF lines, n
<1>7. CASE n > 1
  <2>1. 2 \in 1..n /\ Len(lines) = n + n /\ lines[2].word = "consumed"
    BY <1>1, <1>3, <1>4, <1>7
  <2>2. \A i \in Read(lines) : i \in 1..(n + n) /\ 2 \notin 2..i
    BY <2>1 DEF Read, EndCommand
  <2>3. 1 \in Read(lines)
    BY <1>1, <1>7, <2>1 DEF Read
  <2>4. Read(lines) = {1}
    BY <1>1, <2>2, <2>3
  <2> QED BY <1>1, <1>4, <1>7, <2>4 DEF lines, n
<1> QED BY <1>1, <1>5, <1>6, <1>7

LEMMA ByWorker ==
    ASSUME NEW s \in Seq(Tenants)
    PROVE  LET lines == Output(s, "by_worker")
           IN  /\ Read(lines) = IF Len(s) = 0 THEN {} ELSE {1}
               /\ Len(s) > 0 => lines[1].tenant = s[1]
<1> DEFINE n == Len(s)
           lines == Output(s, "by_worker")
<1>1. n \in Nat
  OBVIOUS
<1>2. lines = [i \in 1..(2 * n) |-> Line(s[(i + 1) \div 2],
                                         IF i % 2 = 1 THEN "published" ELSE "consumed")]
  BY DEF Output
<1>3. Len(lines) = 2 * n
  BY <1>1, <1>2
<1>4. n > 0 => lines[1].tenant = s[1] /\ lines[2].word = "consumed"
  <2>1. (1 + 1) \div 2 = 1 /\ 2 % 2 # 1
    OBVIOUS
  <2> QED BY <1>1, <1>2, <2>1 DEF Line
<1> HIDE DEF lines, n
<1>5. Read(lines) = IF n = 0 THEN {} ELSE {1}
  BY <1>1, <1>3, <1>4 DEF Read, EndCommand
<1> QED BY <1>4, <1>5 DEF lines, n

\* What a host's output contributes to a check: positions of lines that name new tenants
\* it publishes for; each once, unless it prints what it consumed first and has one worker;
\* and all of them, if it prints what it published first.
LEMMA CountedLines ==
    ASSUME NEW U \in SUBSET Tenants, NEW s \in SetToSeqs(U), NEW how \in Layouts,
           NEW new \in SUBSET Tenants
    PROVE  LET lines == Output(s, how)
               C == Counted(lines, new)
           IN  /\ C \subseteq 1..(Cardinality(Tenants) + 1)
               /\ \A i \in C : lines[i].tenant \in U \cap new
               /\ \A i, j \in C : lines[i].tenant = lines[j].tenant =>
                      i = j \/ (how = "consumed_first" /\ U = {lines[i].tenant})
               /\ how \in {"published_first", "heading"} =>
                      \A t \in U \cap new : \E i \in C : lines[i].tenant = t
<1> DEFINE n == Len(s)
           N == Cardinality(Tenants)
           lines == Output(s, how)
           C == Counted(lines, new)
           Shape == /\ C \subseteq 1..(N + 1)
                    /\ \A i \in C : lines[i].tenant \in U \cap new
                    /\ \A i, j \in C : lines[i].tenant = lines[j].tenant =>
                           i = j \/ (how = "consumed_first" /\ U = {lines[i].tenant})
                    /\ how \in {"published_first", "heading"} =>
                           \A t \in U \cap new : \E i \in C : lines[i].tenant = t
<1> HIDE DEF Shape
<1>1. /\ n \in Nat /\ N \in Nat /\ n <= N /\ s \in Seq(Tenants) /\ \A i \in 1..n : s[i] \in U
      /\ \A i, j \in 1..n : s[i] = s[j] => i = j
      /\ \A t \in U : \E i \in 1..n : s[i] = t
  <2>1. N \in Nat
    BY InitCheckAssumption, FS_CardinalityType
  <2> QED BY <2>1, OrderNamesEach
<1>2. /\ "none" \notin new
      /\ how \in {"published_first", "heading", "consumed_first", "by_worker"}
  BY InitCheckAssumption
<1> SUFFICES Shape
  BY DEF Shape
<1>3. CASE how = "published_first"
  <2>1. Read(lines) = 1..n /\ \A i \in 1..n : lines[i].tenant = s[i]
    BY <1>1, <1>3, PublishedFirst
  <2> HIDE DEF n, N, lines
  <2>2. C = {i \in 1..n : s[i] \in new}
    BY <2>1 DEF Counted
  <2>3. C \subseteq 1..(N + 1)
    BY <1>1, <2>2
  <2>4. \A i \in C : lines[i].tenant \in U \cap new
    BY <1>1, <2>1, <2>2
  <2>5. \A i, j \in C : lines[i].tenant = lines[j].tenant => i = j
    BY <1>1, <2>1, <2>2
  <2>6. \A t \in U \cap new : \E i \in C : lines[i].tenant = t
    BY <1>1, <2>1, <2>2
  <2> QED BY <2>3, <2>4, <2>5, <2>6 DEF Shape
<1>4. CASE how = "heading"
  <2>1. /\ Read(lines) = 1..(n + 1) /\ lines[1].tenant = "none"
        /\ \A i \in 1..n : lines[i + 1].tenant = s[i]
    BY <1>1, <1>4, HeadingFirst
  <2> HIDE DEF n, N, lines
  <2>2. \A j \in 2..(n + 1) : lines[j].tenant = s[j - 1] /\ j - 1 \in 1..n
    <3> TAKE j \in 2..(n + 1)
    <3>1. j - 1 \in 1..n /\ (j - 1) + 1 = j
      BY <1>1
    <3> QED BY <2>1, <3>1
  <2>3. C \subseteq 2..(n + 1)
    BY <1>1, <1>2, <2>1 DEF Counted
  <2>4. \A i \in C : lines[i].tenant \in U \cap new
    BY <1>1, <2>2, <2>3 DEF Counted
  <2>5. \A i, j \in C : lines[i].tenant = lines[j].tenant => i = j
    <3> SUFFICES ASSUME NEW i \in C, NEW j \in C, lines[i].tenant = lines[j].tenant
                 PROVE  i = j
      OBVIOUS
    <3>1. i \in 2..(n + 1) /\ j \in 2..(n + 1)
      BY <2>3
    <3>2. s[i - 1] = s[j - 1] /\ i - 1 \in 1..n /\ j - 1 \in 1..n
      BY <2>2, <3>1
    <3>3. i - 1 = j - 1
      BY <1>1, <3>2
    <3> QED BY <1>1, <3>1, <3>3
  <2>6. \A t \in U \cap new : \E i \in C : lines[i].tenant = t
    <3> TAKE t \in U \cap new
    <3>1. PICK i \in 1..n : s[i] = t
      BY <1>1
    <3>2. i + 1 \in 1..(n + 1)
      BY <1>1
    <3> QED BY <2>1, <3>1, <3>2 DEF Counted
  <2>7. C \subseteq 1..(N + 1)
    BY <1>1, <2>3
  <2> QED BY <2>4, <2>5, <2>6, <2>7 DEF Shape
<1>5. CASE how = "consumed_first"
  <2>1. /\ Read(lines) = IF n = 1 THEN 1..2 ELSE IF n = 0 THEN {} ELSE {1}
        /\ n > 0 => lines[1].tenant = s[1]
        /\ n = 1 => lines[2].tenant = s[1]
    BY <1>1, <1>5, ConsumedFirst
  <2>2. C = {i \in Read(lines) : lines[i].tenant \in new}
    BY DEF Counted
  <2> HIDE DEF n, N, lines, C
  <2>3. CASE n = 0
    BY <2>1, <2>2, <1>5, <2>3 DEF Shape
  <2>4. CASE n = 1
    <3>1. C \subseteq 1..2 /\ \A i \in 1..2 : lines[i].tenant = s[1]
      BY <2>1, <2>2, <2>4
    <3>2. U = {s[1]}
      BY <1>1, <2>4
    <3>3. C \subseteq 1..(N + 1)
      BY <1>1, <2>4, <3>1
    <3>4. \A i \in C : lines[i].tenant \in U \cap new
      BY <2>2, <3>1, <3>2
    <3> QED BY <1>5, <3>1, <3>2, <3>3, <3>4 DEF Shape
  <2>5. CASE n > 1
    <3>1. C \subseteq {1} /\ lines[1].tenant = s[1]
      <4>1. n # 1 /\ n # 0 /\ n > 0
        BY <1>1, <2>5
      <4>2. Read(lines) = {1}
        BY <2>1, <4>1
      <4> QED BY <2>1, <2>2, <4>1, <4>2
    <3>2. \A i \in C : i = 1 /\ lines[i].tenant \in U \cap new
      BY <1>1, <2>2, <2>5, <3>1
    <3>3. C \subseteq 1..(N + 1)
      BY <1>1, <3>1
    <3> QED BY <1>5, <3>2, <3>3 DEF Shape
  <2> QED BY <1>1, <2>3, <2>4, <2>5
<1>6. CASE how = "by_worker"
  <2>1. /\ Read(lines) = IF n = 0 THEN {} ELSE {1}
        /\ n > 0 => lines[1].tenant = s[1]
    BY <1>1, <1>6, ByWorker
  <2>2. C = {i \in Read(lines) : lines[i].tenant \in new}
    BY DEF Counted
  <2> HIDE DEF n, N, lines, C
  <2>3. C \subseteq {1} /\ (C # {} => n > 0)
    <3>1. n = 0 => Read(lines) = {}
      BY <2>1
    <3>2. n # 0 => Read(lines) = {1}
      BY <2>1
    <3> QED BY <1>1, <2>2, <3>1, <3>2
  <2>4. \A i \in C : i = 1 /\ lines[i].tenant \in U \cap new
    BY <1>1, <2>1, <2>2, <2>3
  <2>5. C \subseteq 1..(N + 1)
    BY <1>1, <2>3
  <2> QED BY <1>6, <2>4, <2>5 DEF Shape
<1> QED BY <1>2, <1>3, <1>4, <1>5, <1>6

-------------------------------------------------------------------------------
\* A check in terms of the lines found: which host has a line and which tenant it names.
Finding(found, name) ==
    /\ IsFiniteSet(found) /\ name \in [found -> entries]
    /\ \A x \in found : x[1] \in answered' /\ <<x[1], name[x]>> \in publishing
    /\ \A x, y \in found : x[1] = y[1] /\ name[x] = name[y] =>
           x = y \/ (layout = "consumed_first" /\ Up(x[1]) = {name[x]})
    /\ layout \in {"published_first", "heading"} =>
           \A h \in answered' : \A t \in Up(h) \cap entries :
               \E x \in found : x[1] = h /\ name[x] = t
    /\ inited_tenants' = {name[x] : x \in found}
    /\ all_tenants_inited' <=> Cardinality(found) = Cardinality(entries)

LEMMA CheckEffect ==
    ASSUME TypeOK, Check
    PROVE  /\ checks \in 0..InitCheckCount /\ checks < InitCheckCount /\ checks' = checks + 1
           /\ reported = << >> /\ UNCHANGED <<fixedVars, publishing, reported>>
           /\ seen' = publishing /\ answered' \subseteq hosts /\ all_tenants_inited' \in BOOLEAN
           /\ \E found : \E name : Finding(found, name)
<1>1. /\ checks < InitCheckCount /\ checks' = checks + 1 /\ reported = << >>
      /\ UNCHANGED <<fixedVars, publishing, reported>> /\ seen' = publishing
      /\ checks \in 0..InitCheckCount
  BY DEF Check, ChecksLeft, TypeOK
<1>2. PICK ok \in SUBSET hosts :
      \E order \in [ok -> UNION {SetToSeqs(s) : s \in SUBSET Tenants}] :
        LET lines == [h \in ok |-> Output(order[h], layout)]
            found == UNION {{<<h, i>> : i \in Counted(lines[h], entries)} : h \in ok}
        IN  /\ \A h \in ok : order[h] \in SetToSeqs(Up(h))
            /\ all_tenants_inited' = AllInited(Cardinality(found), entries)
            /\ inited_tenants' = {lines[x[1]][x[2]].tenant : x \in found}
            /\ answered' = ok
  BY DEF Check
<1>3. PICK order \in [ok -> UNION {SetToSeqs(s) : s \in SUBSET Tenants}] :
        LET lines == [h \in ok |-> Output(order[h], layout)]
            found == UNION {{<<h, i>> : i \in Counted(lines[h], entries)} : h \in ok}
        IN  /\ \A h \in ok : order[h] \in SetToSeqs(Up(h))
            /\ all_tenants_inited' = AllInited(Cardinality(found), entries)
            /\ inited_tenants' = {lines[x[1]][x[2]].tenant : x \in found}
            /\ answered' = ok
  BY <1>2
<1> DEFINE lines == [h \in ok |-> Output(order[h], layout)]
           found == UNION {{<<h, i>> : i \in Counted(lines[h], entries)} : h \in ok}
           name == [x \in found |-> lines[x[1]][x[2]].tenant]
           N == Cardinality(Tenants)
<1>4. /\ \A h \in ok : order[h] \in SetToSeqs(Up(h))
      /\ all_tenants_inited' = AllInited(Cardinality(found), entries)
      /\ inited_tenants' = {lines[x[1]][x[2]].tenant : x \in found}
      /\ answered' = ok
  BY <1>3
<1>5. ASSUME NEW h \in ok
      PROVE  /\ Counted(lines[h], entries) \subseteq 1..(N + 1)
             /\ \A i \in Counted(lines[h], entries) : lines[h][i].tenant \in Up(h) \cap entries
             /\ \A i, j \in Counted(lines[h], entries) :
                    lines[h][i].tenant = lines[h][j].tenant =>
                        i = j \/ (layout = "consumed_first" /\ Up(h) = {lines[h][i].tenant})
             /\ layout \in {"published_first", "heading"} =>
                    \A t \in Up(h) \cap entries :
                        \E i \in Counted(lines[h], entries) : lines[h][i].tenant = t
  <2>1. /\ Up(h) \in SUBSET Tenants /\ order[h] \in SetToSeqs(Up(h)) /\ layout \in Layouts
        /\ entries \in SUBSET Tenants
    BY <1>4, <1>5 DEF Up, TypeOK
  <2>2. lines[h] = Output(order[h], layout)
    BY <1>5
  <2> DEFINE out == Output(order[h], layout)
  <2>3. /\ Counted(out, entries) \subseteq 1..(N + 1)
        /\ \A i \in Counted(out, entries) : out[i].tenant \in Up(h) \cap entries
        /\ \A i, j \in Counted(out, entries) : out[i].tenant = out[j].tenant =>
               i = j \/ (layout = "consumed_first" /\ Up(h) = {out[i].tenant})
        /\ layout \in {"published_first", "heading"} =>
               \A t \in Up(h) \cap entries : \E i \in Counted(out, entries) : out[i].tenant = t
    BY <2>1, CountedLines
  <2>4. lines[h] = out
    BY <2>2
  <2> HIDE DEF out, lines, N
  <2> QED BY <2>3, <2>4
<1> HIDE DEF lines
<1>6. \A h, i : <<h, i>> \in found <=> h \in ok /\ i \in Counted(lines[h], entries)
  OBVIOUS
<1>7. \A x \in found : x = <<x[1], x[2]>> /\ x[1] \in ok /\ x[2] \in Counted(lines[x[1]], entries)
  OBVIOUS
<1> HIDE DEF found
<1>8. IsFiniteSet(found)
  <2>1. IsFiniteSet(ok)
    <3>1. ok \in SUBSET Hosts
      BY DEF TypeOK
    <3> QED BY <3>1, FS_Subset, InitCheckAssumption
  <2>2. N \in Nat
    BY FS_CardinalityType, InitCheckAssumption
  <2> HIDE DEF N
  <2>3. IsFiniteSet(1..(N + 1))
    <3>1. 1 \in Int /\ N + 1 \in Int
      BY <2>2
    <3> QED BY <3>1, FS_Interval
  <2>4. IsFiniteSet(ok \X (1..(N + 1)))
    BY <2>1, <2>3, FS_Product
  <2>5. found \in SUBSET (ok \X (1..(N + 1)))
    <3>1. \A x \in found : x[2] \in 1..(N + 1)
      BY <1>5, <1>7 DEF N
    <3> QED BY <1>7, <3>1
  <2> QED BY <2>4, <2>5, FS_Subset
<1>9. \A x \in found : name[x] = lines[x[1]][x[2]].tenant
  OBVIOUS
<1>10. /\ name \in [found -> entries]
       /\ \A x \in found : x[1] \in answered' /\ <<x[1], name[x]>> \in publishing
  <2>1. \A x \in found : name[x] \in Up(x[1]) \cap entries
    BY <1>5, <1>7, <1>9
  <2>2. name = [x \in found |-> name[x]]
    OBVIOUS
  <2> HIDE DEF name
  <2> QED BY <1>4, <1>7, <2>1, <2>2 DEF Up
<1>11. inited_tenants' = {name[x] : x \in found}
  BY <1>4, <1>9
<1> HIDE DEF name
<1>12. \A x, y \in found : x[1] = y[1] /\ name[x] = name[y] =>
           x = y \/ (layout = "consumed_first" /\ Up(x[1]) = {name[x]})
  <2> SUFFICES ASSUME NEW x \in found, NEW y \in found, x[1] = y[1], name[x] = name[y]
               PROVE  x = y \/ (layout = "consumed_first" /\ Up(x[1]) = {name[x]})
    OBVIOUS
  <2>1. x[2] = y[2] \/ (layout = "consumed_first" /\ Up(x[1]) = {name[x]})
    BY <1>5, <1>7, <1>9
  <2>2. x = <<x[1], x[2]>> /\ y = <<y[1], y[2]>>
    BY <1>7
  <2> QED BY <2>1, <2>2
<1>13. layout \in {"published_first", "heading"} =>
           \A h \in answered' : \A t \in Up(h) \cap entries :
               \E x \in found : x[1] = h /\ name[x] = t
  <2> SUFFICES ASSUME layout \in {"published_first", "heading"},
                      NEW h \in ok, NEW t \in Up(h) \cap entries
               PROVE  \E x \in found : x[1] = h /\ name[x] = t
    BY <1>4
  <2>1. PICK i \in Counted(lines[h], entries) : lines[h][i].tenant = t
    BY <1>5
  <2>2. <<h, i>> \in found
    BY <1>6
  <2>3. name[<<h, i>>] = t
    BY <1>9, <2>1, <2>2
  <2> QED BY <2>2, <2>3
<1>14. all_tenants_inited' <=> Cardinality(found) = Cardinality(entries)
  BY <1>4 DEF AllInited
<1>15. all_tenants_inited' \in BOOLEAN
  BY <1>4 DEF AllInited
<1>16. Finding(found, name)
  BY <1>8, <1>10, <1>11, <1>12, <1>13, <1>14 DEF Finding
<1> QED BY <1>1, <1>4, <1>15, <1>16

-------------------------------------------------------------------------------
\* Before the first check nothing has been found ...
Unchecked == checks = 0 => ~all_tenants_inited /\ inited_tenants = {} /\ answered = {} /\ seen = {}

\* ... and the report is the outcome of the last one.
Told == reported # << >> => reported = [t \in events |-> Outcome(t)]

OneHost == Cardinality(hosts) = 1 /\ answered = hosts /\ layout \in {"published_first", "heading"}
SeenOn(t) == \E h \in hosts : <<h, t>> \in seen

\* What OneHostIsExact says of the report, said of the last check.
Exact == OneHost => /\ inited_tenants = {t \in entries : SeenOn(t)}
                    /\ all_tenants_inited => inited_tenants = entries

Doubled(u) == \/ \E h, g \in hosts : h # g /\ {<<h, u>>, <<g, u>>} \subseteq seen
              \/ layout = "consumed_first" /\ \E h \in hosts : {x \in seen : x[1] = h} = {<<h, u>>}

\* What MiscountNeedsDouble says of the report, said of the last check.
Paired == /\ \A t \in inited_tenants : t \in entries /\ SeenOn(t)
          /\ all_tenants_inited =>
                 \A t \in entries : ~SeenOn(t) => \E u \in entries : Doubled(u)

CheckInv == TypeOK /\ Unchecked /\ Told /\ FindsAsModelled /\ Exact /\ Paired

LEMMA CheckTypes ==
    ASSUME TypeOK, Check
    PROVE  TypeOK' /\ Unchecked' /\ Told'
<1>1. /\ checks \in 0..InitCheckCount /\ checks < InitCheckCount /\ checks' = checks + 1
      /\ reported = << >> /\ UNCHANGED <<fixedVars, publishing, reported>>
      /\ seen' = publishing /\ answered' \subseteq hosts /\ all_tenants_inited' \in BOOLEAN
  BY CheckEffect
<1>2. inited_tenants' \subseteq Tenants
  <2>1. PICK found : \E name : Finding(found, name)
    BY CheckEffect
  <2>2. PICK name : Finding(found, name)
    BY <2>1
  <2> QED BY <2>2 DEF Finding, TypeOK
<1>3. checks' \in 0..InitCheckCount /\ checks' # 0
  BY <1>1, InitCheckAssumption
<1>4. TypeOK'
  BY <1>1, <1>2, <1>3 DEF TypeOK, fixedVars
<1> QED BY <1>1, <1>3, <1>4 DEF Unchecked, Told

\* Each line found is one of a publishing host that answered, and unless the daemon prints
\* what it consumed first they are as many as there are such pairs.
LEMMA CheckFinds ==
    ASSUME TypeOK, Check
    PROVE  FindsAsModelled'
<1> SUFFICES ASSUME layout' # "consumed_first"
             PROVE  \E lines \in SUBSET (seen' \cap (answered' \X entries')) :
                        /\ inited_tenants' = {line[2] : line \in lines}
                        /\ all_tenants_inited' <=> Cardinality(lines) = Cardinality(entries')
  BY DEF FindsAsModelled
<1>1. /\ UNCHANGED fixedVars /\ seen' = publishing
  BY CheckEffect
<1>2. PICK found : \E name : Finding(found, name)
  BY CheckEffect
<1>3. PICK name : Finding(found, name)
  BY <1>2
<1> DEFINE pair == [x \in found |-> <<x[1], name[x]>>]
           lines == {pair[x] : x \in found}
<1>4. /\ IsFiniteSet(found) /\ name \in [found -> entries]
      /\ \A x \in found : x[1] \in answered' /\ <<x[1], name[x]>> \in publishing
      /\ inited_tenants' = {name[x] : x \in found}
      /\ all_tenants_inited' <=> Cardinality(found) = Cardinality(entries)
  BY <1>3 DEF Finding
<1>5. \A x, y \in found : x[1] = y[1] /\ name[x] = name[y] => x = y
  BY <1>1, <1>3 DEF Finding, fixedVars
<1>6. Cardinality(lines) = Cardinality(found)
  <2>1. \A x, y \in found : pair[x] = pair[y] => x = y
    BY <1>5
  <2> HIDE DEF pair
  <2>2. pair \in [found -> lines]
    <3>1. pair = [x \in found |-> pair[x]]
      BY DEF pair
    <3> QED BY <3>1
  <2>3. pair \in Bijection(found, lines)
    BY <2>1, <2>2 DEF Bijection, Injection, Surjection, IsInjective
  <2>4. ExistsBijection(found, lines)
    BY <2>3 DEF ExistsBijection
  <2> HIDE DEF lines
  <2> QED BY <1>4, <2>4, FS_Bijection
<1>7. lines \in SUBSET (seen' \cap (answered' \X entries'))
  BY <1>1, <1>4 DEF fixedVars
<1>8. inited_tenants' = {line[2] : line \in lines}
  <2>1. \A x \in found : pair[x][2] = name[x]
    OBVIOUS
  <2> HIDE DEF pair
  <2>2. {line[2] : line \in lines} = {name[x] : x \in found}
    BY <2>1
  <2> QED BY <1>4, <2>2
<1> HIDE DEF lines
<1> QED BY <1>1, <1>4, <1>6, <1>7, <1>8 DEF fixedVars

LEMMA CheckExact ==
    ASSUME TypeOK, Check
    PROVE  Exact'
<1>1. UNCHANGED fixedVars /\ seen' = publishing
  BY CheckEffect
<1>2. PICK found : \E name : Finding(found, name)
  BY CheckEffect
<1>3. PICK name : Finding(found, name)
  BY <1>2
<1> SUFFICES ASSUME OneHost'
             PROVE  /\ inited_tenants' = {t \in entries : SeenOn(t)'}
                    /\ all_tenants_inited' => inited_tenants' = entries
  BY <1>1 DEF Exact, fixedVars
<1>4. PICK h : hosts = {h}
  <2>1. IsFiniteSet(hosts)
    <3>1. hosts \in SUBSET Hosts
      BY DEF TypeOK
    <3> QED BY <3>1, FS_Subset, InitCheckAssumption
  <2>2. Cardinality(hosts) = 1
    BY <1>1 DEF OneHost, fixedVars
  <2> QED BY <2>1, <2>2, FS_Singleton
<1>5. answered' = {h} /\ layout \in {"published_first", "heading"}
  BY <1>1, <1>4 DEF OneHost, fixedVars
<1>6. \A t \in entries : SeenOn(t)' <=> <<h, t>> \in publishing
  BY <1>1, <1>4 DEF SeenOn, fixedVars
<1>7. /\ IsFiniteSet(found) /\ name \in [found -> entries]
      /\ \A x \in found : x[1] = h /\ <<h, name[x]>> \in publishing
      /\ inited_tenants' = {name[x] : x \in found}
      /\ all_tenants_inited' <=> Cardinality(found) = Cardinality(entries)
  BY <1>3, <1>5 DEF Finding
<1>8. \A x, y \in found : name[x] = name[y] => x = y
  <2>1. \A x, y \in found : x[1] = y[1] /\ name[x] = name[y] => x = y
    BY <1>3, <1>5 DEF Finding
  <2> QED BY <1>7, <2>1
<1>9. \A t \in entries : <<h, t>> \in publishing => \E x \in found : name[x] = t
  BY <1>3, <1>5 DEF Finding, Up, TypeOK
<1>10. inited_tenants' = {t \in entries : SeenOn(t)'}
  BY <1>6, <1>7, <1>9
<1>11. ASSUME all_tenants_inited'
       PROVE  inited_tenants' = entries
  <2>1. Cardinality(found) = Cardinality(entries)
    BY <1>7, <1>11
  <2>2. name \in Injection(found, entries)
    BY <1>7, <1>8 DEF Injection, IsInjective
  <2>3. IsFiniteSet(entries)
    <3>1. entries \in SUBSET Tenants
      BY DEF TypeOK
    <3> QED BY <3>1, FS_Subset, InitCheckAssumption
  <2>4. name \in Surjection(found, entries)
    BY <2>1, <2>2, <2>3, FS_Injection
  <2> QED BY <1>7, <2>4 DEF Surjection
<1> QED BY <1>10, <1>11

\* With a tenant that nobody publishes for, as many lines as entries name one twice.
LEMMA CheckPaired ==
    ASSUME TypeOK, Check
    PROVE  Paired'
<1>1. UNCHANGED fixedVars /\ seen' = publishing /\ answered' \subseteq hosts
  BY CheckEffect
<1>2. PICK found : \E name : Finding(found, name)
  BY CheckEffect
<1>3. PICK name : Finding(found, name)
  BY <1>2
<1>4. /\ IsFiniteSet(found) /\ name \in [found -> entries]
      /\ \A x \in found : x[1] \in hosts /\ <<x[1], name[x]>> \in publishing
      /\ inited_tenants' = {name[x] : x \in found}
      /\ all_tenants_inited' <=> Cardinality(found) = Cardinality(entries)
  BY <1>1, <1>3 DEF Finding
<1>5. \A t \in inited_tenants' : t \in entries' /\ SeenOn(t)'
  BY <1>1, <1>4 DEF SeenOn, fixedVars
<1>6. ASSUME all_tenants_inited', NEW t \in entries, ~SeenOn(t)'
      PROVE  \E u \in entries : Doubled(u)'
  <2>1. IsFiniteSet(entries)
    <3>1. entries \in SUBSET Tenants
      BY DEF TypeOK
    <3> QED BY <3>1, FS_Subset, InitCheckAssumption
  <2>2. /\ IsFiniteSet(entries \ {t}) /\ Cardinality(entries \ {t}) = Cardinality(entries) - 1
        /\ Cardinality(entries) \in Nat
    BY <1>6, <2>1, FS_RemoveElement, FS_CardinalityType
  <2>3. Cardinality(entries \ {t}) < Cardinality(found)
    BY <1>4, <1>6, <2>2
  <2>4. name \in [found -> entries \ {t}]
    BY <1>1, <1>4, <1>6 DEF SeenOn, fixedVars
  <2>5. PICK x \in found, y \in found : x # y /\ name[x] = name[y]
    BY <1>4, <2>2, <2>3, <2>4, FS_PigeonHole
  <2> DEFINE u == name[x]
  <2>6. u \in entries /\ <<x[1], u>> \in publishing /\ <<y[1], u>> \in publishing
        /\ x[1] \in hosts /\ y[1] \in hosts
    BY <1>4, <2>5
  <2>7. CASE x[1] # y[1]
    BY <1>1, <2>6, <2>7 DEF Doubled, fixedVars
  <2>8. CASE x[1] = y[1]
    <3>1. layout = "consumed_first" /\ Up(x[1]) = {u}
      BY <1>3, <2>5, <2>8 DEF Finding
    <3>2. {z \in publishing : z[1] = x[1]} = {<<x[1], u>>}
      BY <2>6, <3>1 DEF Up, TypeOK
    <3> QED BY <1>1, <2>6, <3>1, <3>2 DEF Doubled, fixedVars
  <2> QED BY <2>7, <2>8
<1> QED BY <1>1, <1>5, <1>6 DEF Paired, fixedVars

LEMMA CheckInvHolds == Spec => []CheckInv
<1>1. Init => CheckInv
  <2> SUFFICES ASSUME Init
               PROVE  CheckInv
    OBVIOUS
  <2>1. TypeOK
    <3>1. /\ hosts \subseteq Hosts /\ layout \in Layouts /\ entries \subseteq events
          /\ events \subseteq Tenants /\ publishing \subseteq hosts \X Tenants
      BY DEF Init
    <3>2. seen \subseteq publishing /\ inited_tenants \subseteq Tenants /\ answered \subseteq hosts
      BY DEF Init
    <3>3. checks \in 0..InitCheckCount /\ reported = << >>
      BY InitCheckAssumption, SMT DEF Init
    <3>4. all_tenants_inited \in BOOLEAN
      BY Zenon DEF Init
    <3> QED BY <3>1, <3>2, <3>3, <3>4 DEF TypeOK
  <2>4. checks = 0 /\ Unchecked /\ Told
    BY DEF Init, Unchecked, Told
  <2>5. FindsAsModelled
    BY <2>4 DEF FindsAsModelled
  <2>2. ~OneHost
    <3>1. hosts # {} /\ answered = {}
      BY DEF Init
    <3> QED BY <3>1 DEF OneHost
  <2>3. Paired
    <3>1. inited_tenants = {} /\ ~all_tenants_inited
      BY DEF Init
    <3> QED BY <3>1 DEF Paired
  <2> QED BY <2>1, <2>2, <2>3, <2>4, <2>5 DEF CheckInv, Exact
<1>2. CheckInv /\ [Next]_vars => CheckInv'
  <2> SUFFICES ASSUME CheckInv, [Next]_vars
               PROVE  CheckInv'
    OBVIOUS
  \* Only a check changes what was found.
  <2>1. ASSUME UNCHANGED <<fixedVars, checkVars>>
        PROVE  Unchecked' /\ FindsAsModelled' /\ Exact' /\ Paired'
    <3>1. Unchecked'
      BY <2>1 DEF CheckInv, Unchecked, checkVars
    <3>2. FindsAsModelled'
      <4>1. FindsAsModelled' <=> FindsAsModelled
        BY <2>1 DEF FindsAsModelled, fixedVars, checkVars
      <4> QED BY <4>1 DEF CheckInv
    <3>3. Exact'
      <4>1. OneHost' = OneHost /\ \A t : SeenOn(t)' = SeenOn(t)
        BY <2>1 DEF OneHost, SeenOn, fixedVars, checkVars
      <4>2. Exact
        BY DEF CheckInv
      <4> QED BY <2>1, <4>1, <4>2 DEF Exact, fixedVars, checkVars
    <3>4. Paired'
      <4>1. /\ \A t : SeenOn(t)' = SeenOn(t)
            /\ \A t : Doubled(t)' = Doubled(t)
        BY <2>1 DEF Doubled, SeenOn, fixedVars, checkVars
      <4>2. Paired
        BY DEF CheckInv
      <4> QED BY <2>1, <4>1, <4>2 DEF Paired, fixedVars, checkVars
    <3> QED BY <3>1, <3>2, <3>3, <3>4
  <2>2. ASSUME NEW h \in Hosts, NEW t \in Tenants, PublisherStarts(h, t)
        PROVE  CheckInv'
    <3>1. UNCHANGED <<fixedVars, checkVars>> /\ reported = << >> /\ reported' = << >>
      BY <2>2 DEF PublisherStarts
    <3>2. TypeOK'
      BY <2>2, <3>1 DEF PublisherStarts, CheckInv, TypeOK, fixedVars, checkVars
    <3> QED BY <2>1, <3>1, <3>2 DEF CheckInv, Told
  <2>3. CASE Check
    BY <2>3, CheckTypes, CheckFinds, CheckExact, CheckPaired DEF CheckInv
  <2>4. CASE Report
    <3>1. UNCHANGED <<fixedVars, checkVars>>
      BY <2>4 DEF Report
    <3>2. \A t : Outcome(t)' = Outcome(t)
      BY <3>1 DEF Outcome, checkVars
    <3>3. TypeOK' /\ reported' = [t \in events' |-> Outcome(t)]
      BY <2>4, <3>1 DEF Report, Outcome, CheckInv, TypeOK, fixedVars, checkVars
    <3> QED BY <2>1, <3>1, <3>2, <3>3 DEF CheckInv, Told
  <2>5. CASE UNCHANGED vars
    <3>1. UNCHANGED <<fixedVars, checkVars>> /\ reported' = reported
      BY <2>5 DEF vars, fixedVars, checkVars
    <3>2. \A t : Outcome(t)' = Outcome(t)
      BY <3>1 DEF Outcome, checkVars
    <3>3. TypeOK'
      BY <2>5 DEF CheckInv, TypeOK, vars
    <3>4. Told'
      BY <3>1, <3>2 DEF CheckInv, Told, fixedVars
    <3> QED BY <2>1, <3>1, <3>3, <3>4 DEF CheckInv
  <2> QED BY <2>2, <2>3, <2>4, <2>5 DEF Next
<1> QED BY <1>1, <1>2, PTL DEF Spec

-------------------------------------------------------------------------------
\* Types: no more checks than init_check_count, and a status for every queued event
\* (start_monbox_init_check, _process_monbox_init_events).
THEOREM CheckTypesCorrect == Spec => []TypeOK
BY CheckInvHolds, PTL DEF CheckInv

\* Unless the daemon prints what it consumed first, what a check reads is what
\* MonboxEvents.CheckInit lets it find: _check_if_all_tenants_inited counts lines of
\* publishers that run on hosts that answered, none of them twice.
THEOREM ReadingAsModelled == Spec => []FindsAsModelled
BY CheckInvHolds, PTL DEF CheckInv

\* On one host that prints what it published first the report of
\* _process_monbox_init_events is exact: COMPLETED are the tenants whose publisher was up.
THEOREM ExactOnOneHost == Spec => []OneHostIsExact
<1>1. CheckInv => OneHostIsExact
  <2> SUFFICES ASSUME CheckInv, OneHost, reported # << >>, NEW t \in entries
               PROVE  reported[t] = "COMPLETED" <=> \E h \in hosts : <<h, t>> \in seen
    BY DEF OneHostIsExact, OneHost
  <2>1. t \in events /\ reported[t] = Outcome(t)
    BY DEF CheckInv, TypeOK, Told
  <2>2. Outcome(t) = "COMPLETED" <=> all_tenants_inited \/ t \in inited_tenants
    BY DEF Outcome
  <2> QED BY <2>1, <2>2 DEF CheckInv, Exact, SeenOn
<1> QED BY <1>1, CheckInvHolds, PTL

\* A tenant is reported COMPLETED without a publisher only because the lines of another
\* one were counted twice (the comparison of two counts in _check_if_all_tenants_inited).
THEOREM MiscountsAreDoubles == Spec => []MiscountNeedsDouble
<1>1. CheckInv => MiscountNeedsDouble
  <2> SUFFICES ASSUME CheckInv, reported # << >>, NEW t \in entries,
                      reported[t] = "COMPLETED", \A h \in hosts : <<h, t>> \notin seen
               PROVE  \E u \in entries : Doubled(u)
    BY DEF MiscountNeedsDouble, Doubled
  <2>1. t \in events /\ reported[t] = Outcome(t)
    BY DEF CheckInv, TypeOK, Told
  <2>2. all_tenants_inited \/ t \in inited_tenants
    BY <2>1 DEF Outcome
  <2> QED BY <2>2 DEF CheckInv, Paired, SeenOn
<1> QED BY <1>1, CheckInvHolds, PTL

===============================================================================
