-------------------------- MODULE MtpDecode_proofs ---------------------------
(***************************************************************************)
(* Proofs about MtpDecode: speculation changes no token (Lossless), leaves *)
(* nothing of rejected drafts below a committed length (KvIsHistory), and  *)
(* a generator closed on a device that works is closed clean, wherever its *)
(* consumer or an exception has ended it, for any rows, drafts, chunk      *)
(* size, prompts and model.                                                *)
(***************************************************************************)
EXTENDS MtpDecode, SequenceTheorems, WellFoundedInduction, TLAPS

\* A generator is at work, and its consumer has not left; the rows are about to be
\* dropped, or nothing is left.
Working == {"starting", "loop", "yielding", "waiting"}
Dropped == {"rolledBack", "failed", "over"}

GenType == [phase : {"idle", "closing"} \cup Working \cup Dropped,
            committed : [Row -> Nat], next : [Row -> Token \cup {None}], seedRows : [Row -> Nat],
            speculative : BOOLEAN, pending : {Nothing} \cup [Row -> Seq(Token)], failed : BOOLEAN]

TypeOK ==
  /\ history \in [Row -> Seq(Token)] /\ len \in [Row -> Nat] /\ target \in [Row -> Token \cup {None}]
  /\ prompt \in [Row -> Prompt] /\ todo \in [Row -> Seq(Token)] /\ published \in [Row -> Seq(Token)]
  /\ \A r \in Row : DOMAIN kv[r] = 1..MaxLen /\ DOMAIN mtpKv[r] = 1..MaxLen
  /\ gen \in GenType /\ device \in {"ok", "lost"}

\* What a row holds and will consume next, once it has been prefilled.
Full(r) == Append(history[r], target[r])

\* text is what the model makes of input, token by token.
Right(text, input) ==
  \A p \in 1..Len(text) : text[p] = IF p <= Len(input) THEN input[p] ELSE Selects(SubSeq(text, 1, p - 1))

\* The first n positions of a row's KV are of text, those of the MTP layer one
\* token ahead.
KvOf(row, text, n) == \A p \in 1..n : row[p] = SubSeq(text, 1, p)
MtpOf(row, text, n) == \A p \in 1..n : row[p] = SubSeq(text, 1, p + 1)

\* The tokens of a request are those of its row.
Told(r) == Len(prompt[r]) <= Len(history[r]) /\ prompt[r] \o published[r] = Full(r)

\* A row nobody generates for.
IdleRow(r) ==
  /\ len[r] = Len(history[r]) /\ len[r] <= MaxLen
  /\ KvOf(kv[r], history[r], len[r]) /\ MtpOf(mtpKv[r], history[r], len[r] - 1)
  /\ todo[r] # Nothing => prompt[r] = history[r] \o todo[r]
  /\ todo[r] = Nothing => /\ target[r] \in Token
                          /\ Right(Full(r), prompt[r])
                          /\ Told(r)

\* A row at any time: what has failed may have left it positions too many, or too
\* few for its last token, which then is its next token too.
SoundRow(r) ==
  /\ KvOf(kv[r], history[r], Len(history[r])) /\ Right(history[r], prompt[r])
  /\ todo[r] = Nothing /\ Len(history[r]) <= len[r] /\ target[r] # None => Right(Full(r), prompt[r])

\* A row an exception has left cut or reported, or neither.
PartRow(r) ==
  SoundRow(r) /\ todo[r] = Nothing /\ gen.committed[r] <= Len(history[r]) /\ Len(history[r]) <= len[r]

\* A row of the generator.
BusyRow(r) ==
  /\ todo[r] = Nothing /\ target[r] \in Token
  /\ gen.committed[r] = Len(history[r]) /\ gen.committed[r] <= MaxLen
  /\ Right(Full(r), prompt[r])
  /\ KvOf(kv[r], history[r], gen.committed[r]) /\ MtpOf(mtpKv[r], Full(r), gen.committed[r])

\* Before the last committed token has been run again, and after.
StartingRow(r) ==
  /\ len[r] = gen.committed[r] + 1 /\ len[r] + V <= MaxLen
  /\ gen.next[r] = Selects(Full(r)) /\ gen.next[r] \in Token
  /\ Len(prompt[r]) <= len[r] /\ prompt[r] \o published[r] = Append(Full(r), gen.next[r])
  /\ gen.seedRows[r] = r - 1
  /\ flight.op = "replay" => flight.input[r] = <<target[r]>>
  /\ flight.op = "none" => /\ kv[r][len[r]] = Full(r)
                           /\ mtpKv[r][len[r]] = Append(Full(r), gen.next[r])
                           /\ seed[gen.seedRows[r]] = Append(Full(r), gen.next[r])

\* Between two steps.
LoopRow(r) ==
  /\ gen.next[r] = target[r] /\ len[r] = gen.committed[r]
  /\ seed[gen.seedRows[r]] = Full(r)
  /\ Len(prompt[r]) <= Len(history[r])
  /\ IF gen.pending = Nothing THEN len[r] + V <= MaxLen /\ prompt[r] \o published[r] = Full(r)
     ELSE prompt[r] \o (published[r] \o gen.pending[r]) = Full(r)

\* After a text the tokens of a step have run: what was selected after each of
\* them, and what the KV, the MTP layer and the carry buffer (from a row of it on)
\* hold of them.
Ran(text, input, selected, row, mtpRow, carried, at) ==
  /\ input \in Seq(Token) /\ Len(input) = V
  /\ \A j \in 1..V :
       LET context == text \o SubSeq(input, 1, j)
       IN /\ selected[j] = Selects(context)
          /\ row[Len(text) + j] = context
          /\ mtpRow[Len(text) + j] = Append(context, selected[j])
          /\ carried[at + (j - 1)] = Append(context, selected[j])

\* A step is on its way, or has run.
StepRow(r) ==
  /\ gen.next[r] = target[r] /\ len[r] = gen.committed[r] + V /\ len[r] <= MaxLen
  /\ Len(prompt[r]) <= Len(history[r])
  /\ IF gen.pending = Nothing THEN prompt[r] \o published[r] = Full(r)
     ELSE prompt[r] \o (published[r] \o gen.pending[r]) = Full(r)
  /\ flight.op = "step" => /\ flight.input[r] \in Seq(Token) /\ Len(flight.input[r]) = V
                           /\ flight.input[r][1] = target[r]
                           /\ seed[gen.seedRows[r]] = Full(r)
  /\ flight.op = "none" => /\ Ran(history[r], result[r].input, result[r].selected, kv[r], mtpKv[r], seed, (r - 1) * V)
                           /\ result[r].input[1] = target[r]

\* The consumer has left, or an exception has been thrown.
ClosingRow(r) ==
  /\ gen.speculative \/ len[r] = gen.committed[r]
  /\ ~gen.failed => Told(r)
  /\ flight.op # "none" => flight.input[r] \in Seq(Token)

ClosingInv ==
  \/ \A r \in Row : BusyRow(r) /\ ClosingRow(r)
  \/ flight.op = "none" /\ gen.failed /\ gen.speculative /\ \A r \in Row : PartRow(r)

PhaseInv ==
  /\ gen.phase = "idle" => flight.op = "none" /\ \A r \in Row : IdleRow(r)
  /\ gen.phase \in Working => ~gen.failed /\ \A r \in Row : BusyRow(r)
  /\ gen.phase = "starting" => /\ gen.speculative /\ gen.pending = Nothing /\ flight.op \in {"none", "replay"}
                               /\ \A r \in Row : StartingRow(r)
  /\ gen.phase = "loop" => ~gen.speculative /\ flight.op = "none" /\ \A r \in Row : LoopRow(r)
  /\ gen.phase \in {"yielding", "waiting"} =>
       /\ gen.speculative /\ flight.op \in {"none", "step"} /\ \A r \in Row : StepRow(r)
       /\ gen.pending = Nothing <=> gen.phase = "waiting"
  /\ gen.phase = "closing" => ClosingInv
  /\ gen.phase \in Dropped => \A r \in Row : SoundRow(r)
  /\ gen.phase \in Dropped /\ device = "ok" => flight.op = "none"
  /\ gen.phase = "rolledBack" => \A r \in Row : len[r] = Len(history[r])

IInv == TypeOK /\ PhaseInv
-----------------------------------------------------------------------------
(* Constants and sequences                                               *)

\* What the assumption says of the constants.
LEMMA Constants ==
  ASSUME MtpAssumption
  PROVE  /\ Rows \in Nat \ {0} /\ NumDrafts \in Nat \ {0} /\ ChunkSize \in Nat \ {0, 1} /\ MaxLen \in Nat
         /\ V \in Nat /\ V = NumDrafts + 1 /\ V > 1
         /\ Row = 1..Rows /\ None \notin Token
         /\ \A input \in Prompt : input \in Seq(Token) /\ Len(input) \in 1..MaxLen
         /\ \A text \in Seq(Token) : Len(text) \in 1..MaxLen => Selects(text) \in Token
<1>1. /\ Rows \in Nat \ {0} /\ NumDrafts \in Nat \ {0} /\ ChunkSize \in Nat \ {0, 1} /\ MaxLen \in Nat
  BY DEF MtpAssumption
<1>2. V \in Nat /\ V = NumDrafts + 1 /\ V > 1
  BY <1>1 DEF V
<1>3. None \notin Token
  <2> DEFINE max == CHOOSE t \in Token : \A u \in Token : u <= t
  <2>1. max \in Token /\ \A u \in Token : u <= max
    BY DEF MtpAssumption
  <2>2. max \in Int /\ None = 2 + max
    BY <2>1 DEF None, MtpAssumption
  <2> HIDE DEF max
  <2> QED
    BY <2>1, <2>2 DEF MtpAssumption
<1>4. \A text \in Seq(Token) : Len(text) \in 1..MaxLen => Selects(text) \in Token
  <2> SUFFICES ASSUME NEW text \in Seq(Token), Len(text) \in 1..MaxLen PROVE Selects(text) \in Token
    OBVIOUS
  <2>1. text \in [1..Len(text) -> Token]
    BY LenProperties
  <2> QED
    BY <2>1 DEF MtpAssumption
<1> QED
  BY <1>1, <1>2, <1>3, <1>4 DEF MtpAssumption, Row

\* a is how b begins.
Begins(a, b) == Len(a) <= Len(b) /\ \A i \in 1..Len(a) : b[i] = a[i]

\* The first n tokens.
LEMMA SubFacts ==
  ASSUME NEW s \in Seq(Token), NEW n \in Nat, n <= Len(s)
  PROVE  /\ SubSeq(s, 1, n) \in Seq(Token) /\ Len(SubSeq(s, 1, n)) = n
         /\ \A i \in 1..n : SubSeq(s, 1, n)[i] = s[i]
         /\ Begins(SubSeq(s, 1, n), s)
<1>1. \A i \in 1..n : s[i] \in Token
  BY ElementOfSeq, LenProperties
<1>2. SubSeq(s, 1, n) \in Seq(Token) /\ Len(SubSeq(s, 1, n)) = n
  BY <1>1, SubSeqProperties
<1>3. \A i \in 1..n : SubSeq(s, 1, n)[i] = s[i]
  BY <1>1, SubSeqProperties
<1> QED
  BY <1>2, <1>3 DEF Begins

\* What two sequences begin with, as far as they agree.
LEMMA BeginsSame ==
  ASSUME NEW a \in Seq(Token), NEW b \in Seq(Token), Begins(a, b), NEW n \in Nat, n <= Len(a)
  PROVE  SubSeq(b, 1, n) = SubSeq(a, 1, n)
<1>1. Len(a) \in Nat /\ Len(b) \in Nat /\ n <= Len(b)
  BY LenProperties DEF Begins
<1>2. \A i \in 1..n : SubSeq(a, 1, n)[i] = a[i] /\ SubSeq(b, 1, n)[i] = b[i] /\ b[i] = a[i]
  BY <1>1, SubFacts DEF Begins
<1>3. /\ SubSeq(a, 1, n) \in Seq(Token) /\ SubSeq(b, 1, n) \in Seq(Token)
      /\ Len(SubSeq(a, 1, n)) = n /\ Len(SubSeq(b, 1, n)) = n
  BY <1>1, SubFacts
<1> QED
  BY <1>2, <1>3, SeqEqual

\* What begins a beginning begins the whole.
LEMMA BeginsTrans ==
  ASSUME NEW a \in Seq(Token), NEW b \in Seq(Token), NEW c \in Seq(Token), Begins(a, b), Begins(b, c)
  PROVE  Begins(a, c)
<1>1. Len(a) \in Nat /\ Len(b) \in Nat /\ Len(c) \in Nat /\ Len(a) <= Len(b) /\ Len(b) <= Len(c)
  BY LenProperties DEF Begins
<1>2. \A i \in 1..Len(a) : i \in 1..Len(b)
  BY <1>1
<1> QED
  BY <1>1, <1>2 DEF Begins

\* A concatenation begins with its first part.
LEMMA JoinFacts ==
  ASSUME NEW a \in Seq(Token), NEW b \in Seq(Token)
  PROVE  /\ a \o b \in Seq(Token) /\ Len(a \o b) = Len(a) + Len(b) /\ Begins(a, a \o b)
         /\ \A i \in 1..Len(a) : (a \o b)[i] = a[i]
         /\ \A j \in 1..Len(b) : (a \o b)[Len(a) + j] = b[j]
<1>1. Len(a) \in Nat /\ Len(b) \in Nat
  BY LenProperties
<1>2. /\ a \o b \in Seq(Token) /\ Len(a \o b) = Len(a) + Len(b)
      /\ \A i \in 1..(Len(a) + Len(b)) : (a \o b)[i] = IF i <= Len(a) THEN a[i] ELSE b[i - Len(a)]
  BY ConcatProperties
<1> DEFINE n == Len(a)
           m == Len(b)
           c == a \o b
<1> HIDE DEF n, m, c
<1>3. n \in Nat /\ m \in Nat /\ \A i \in 1..(n + m) : c[i] = IF i <= n THEN a[i] ELSE b[i - n]
  BY <1>1, <1>2 DEF n, m, c
<1>4. \A i \in 1..n : i \in 1..(n + m) /\ i <= n
  BY <1>3
<1>5. \A i \in 1..n : c[i] = a[i]
  BY <1>3, <1>4
<1>6. \A j \in 1..m : n + j \in 1..(n + m) /\ ~(n + j <= n) /\ (n + j) - n = j
  BY <1>3
<1>7. \A j \in 1..m : c[n + j] = b[j]
  BY <1>3, <1>6
<1>8. Len(c) = n + m /\ n <= n + m
  BY <1>2, <1>3 DEF c, n, m
<1> QED
  BY <1>2, <1>5, <1>7, <1>8 DEF Begins, n, m, c

\* Concatenation is associative.
LEMMA JoinAssoc ==
  ASSUME NEW a \in Seq(Token), NEW b \in Seq(Token), NEW c \in Seq(Token)
  PROVE  (a \o b) \o c = a \o (b \o c)
  BY ConcatAssociative

\* One more token.
LEMMA AppendFacts ==
  ASSUME NEW s \in Seq(Token), NEW t \in Token
  PROVE  /\ Append(s, t) \in Seq(Token) /\ Len(Append(s, t)) = Len(s) + 1 /\ Begins(s, Append(s, t))
         /\ \A i \in 1..Len(s) : Append(s, t)[i] = s[i]
         /\ Append(s, t)[Len(s) + 1] = t
         /\ SubSeq(Append(s, t), 1, Len(s)) = s
<1>1. /\ Append(s, t) \in Seq(Token) /\ Len(Append(s, t)) = Len(s) + 1
      /\ \A i \in 1..Len(s) : Append(s, t)[i] = s[i]
      /\ Append(s, t)[Len(s) + 1] = t
  BY AppendProperties
<1>2. Len(s) \in Nat
  BY LenProperties
<1>3. Begins(s, Append(s, t))
  BY <1>1, <1>2 DEF Begins
<1>4. SubSeq(Append(s, t), 1, Len(s)) = SubSeq(s, 1, Len(s))
  BY <1>1, <1>2, <1>3, BeginsSame
<1> QED
  BY <1>1, <1>3, <1>4, SubSeqFull

\* The first tokens of a concatenation.
LEMMA JoinSub ==
  ASSUME NEW a \in Seq(Token), NEW b \in Seq(Token), NEW j \in Nat, j <= Len(b)
  PROVE  SubSeq(a \o b, 1, Len(a) + j) = a \o SubSeq(b, 1, j)
<1> DEFINE n == Len(a)
           c == a \o b
           d == a \o SubSeq(b, 1, j)
           e == SubSeq(c, 1, n + j)
<1>1. n \in Nat /\ Len(b) \in Nat /\ n + j \in Nat /\ n + j <= n + Len(b)
  BY LenProperties
<1>2. SubSeq(b, 1, j) \in Seq(Token) /\ Len(SubSeq(b, 1, j)) = j /\ \A i \in 1..j : SubSeq(b, 1, j)[i] = b[i]
  BY SubFacts
<1>3. /\ c \in Seq(Token) /\ Len(c) = n + Len(b)
      /\ \A i \in 1..n : c[i] = a[i]
      /\ \A i \in 1..Len(b) : c[n + i] = b[i]
  BY JoinFacts
<1>4. /\ d \in Seq(Token) /\ Len(d) = n + j
      /\ \A i \in 1..n : d[i] = a[i]
      /\ \A i \in 1..j : d[n + i] = SubSeq(b, 1, j)[i]
  BY <1>2, JoinFacts
<1>5. e \in Seq(Token) /\ Len(e) = n + j /\ \A i \in 1..(n + j) : e[i] = c[i]
  BY <1>1, <1>3, SubFacts
<1> HIDE DEF n, c, d, e
<1>6. \A i \in 1..(n + j) : e[i] = d[i]
  <2> SUFFICES ASSUME NEW i \in 1..(n + j) PROVE e[i] = d[i]
    OBVIOUS
  <2>1. CASE i <= n
    BY <1>1, <1>3, <1>4, <1>5, <2>1
  <2>2. CASE ~(i <= n)
    <3>1. i - n \in 1..j /\ i - n \in 1..Len(b) /\ n + (i - n) = i
      BY <1>1, <2>2
    <3>2. c[n + (i - n)] = b[i - n] /\ d[n + (i - n)] = b[i - n]
      BY <1>2, <1>3, <1>4, <3>1
    <3> QED
      BY <1>5, <3>1, <3>2
  <2> QED
    BY <2>1, <2>2
<1>7. e = d
  BY <1>4, <1>5, <1>6, SeqEqual
<1> QED
  BY <1>7 DEF n, c, d, e

\* The first tokens and the next one.
LEMMA SubNext ==
  ASSUME NEW s \in Seq(Token), NEW n \in Nat, n < Len(s)
  PROVE  Append(SubSeq(s, 1, n), s[n + 1]) = SubSeq(s, 1, n + 1)
<1>1. Len(s) \in Nat /\ n + 1 \in 1..Len(s) /\ n <= Len(s) /\ n + 1 \in Nat /\ n + 1 <= Len(s)
  BY LenProperties
<1>2. s[n + 1] \in Token
  BY <1>1, ElementOfSeq
<1>3. SubSeq(s, 1, n) \in Seq(Token) /\ Len(SubSeq(s, 1, n)) = n /\ \A i \in 1..n : SubSeq(s, 1, n)[i] = s[i]
  BY <1>1, SubFacts
<1>4. SubSeq(s, 1, n + 1) \in Seq(Token) /\ Len(SubSeq(s, 1, n + 1)) = n + 1
      /\ \A i \in 1..(n + 1) : SubSeq(s, 1, n + 1)[i] = s[i]
  BY <1>1, SubFacts
<1> DEFINE a == SubSeq(s, 1, n)
           b == SubSeq(s, 1, n + 1)
           c == Append(a, s[n + 1])
<1>5. c \in Seq(Token) /\ Len(c) = n + 1 /\ (\A i \in 1..n : c[i] = a[i]) /\ c[n + 1] = s[n + 1]
  BY <1>2, <1>3, AppendFacts
<1> HIDE DEF a, b, c
<1>6. \A i \in 1..(n + 1) : c[i] = b[i]
  <2>1. \A i \in 1..(n + 1) : i \in 1..n \/ i = n + 1
    OBVIOUS
  <2>2. \A i \in 1..n : c[i] = s[i] /\ i \in 1..(n + 1)
    BY <1>3, <1>5 DEF a
  <2> QED
    BY <1>4, <1>5, <2>1, <2>2 DEF b
<1>7. c = b
  BY <1>4, <1>5, <1>6, SeqEqual DEF b
<1> QED
  BY <1>7 DEF a, b, c
-----------------------------------------------------------------------------
(* Texts                                                                 *)

\* How a right text begins is right.
LEMMA RightCut ==
  ASSUME NEW a \in Seq(Token), NEW b \in Seq(Token), Begins(a, b), NEW input, Right(b, input)
  PROVE  Right(a, input)
<1>1. Len(a) \in Nat /\ Len(b) \in Nat
  BY LenProperties
<1>2. SUFFICES ASSUME NEW p \in 1..Len(a)
               PROVE  a[p] = IF p <= Len(input) THEN input[p] ELSE Selects(SubSeq(a, 1, p - 1))
  BY DEF Right
<1>3. p \in 1..Len(b) /\ p - 1 \in Nat /\ p - 1 <= Len(a) /\ b[p] = a[p]
  BY <1>1 DEF Begins
<1>4. SubSeq(b, 1, p - 1) = SubSeq(a, 1, p - 1)
  BY <1>3, BeginsSame
<1> QED
  BY <1>3, <1>4 DEF Right

\* A right text is right with what the model selects after it.
LEMMA RightGrow ==
  ASSUME NEW a \in Seq(Token), NEW b \in Seq(Token), Begins(a, b), NEW input, Right(a, input), Len(input) <= Len(a),
         Len(input) \in Nat,
         \A p \in (Len(a) + 1)..Len(b) : b[p] = Selects(SubSeq(b, 1, p - 1))
  PROVE  Right(b, input)
<1>1. Len(a) \in Nat /\ Len(b) \in Nat
  BY LenProperties
<1>2. SUFFICES ASSUME NEW p \in 1..Len(b)
               PROVE  b[p] = IF p <= Len(input) THEN input[p] ELSE Selects(SubSeq(b, 1, p - 1))
  BY DEF Right
<1>3. CASE p <= Len(a)
  <2>1. p \in 1..Len(a) /\ p - 1 \in Nat /\ p - 1 <= Len(a) /\ b[p] = a[p]
    BY <1>1, <1>3 DEF Begins
  <2>2. SubSeq(b, 1, p - 1) = SubSeq(a, 1, p - 1)
    BY <2>1, BeginsSame
  <2> QED
    BY <2>1, <2>2 DEF Right
<1>4. CASE ~(p <= Len(a))
  <2>1. p \in (Len(a) + 1)..Len(b) /\ ~(p <= Len(input))
    BY <1>1, <1>4
  <2> QED
    BY <2>1
<1> QED
  BY <1>3, <1>4

\* What the KV is of, seen from a longer text.
LEMMA KvGrow ==
  ASSUME NEW a \in Seq(Token), NEW b \in Seq(Token), Begins(a, b), NEW row, NEW n \in Nat, n <= Len(a)
  PROVE  KvOf(row, a, n) <=> KvOf(row, b, n)
<1>1. \A p \in 1..n : p \in Nat /\ p <= Len(a)
  BY LenProperties
<1>2. \A p \in 1..n : SubSeq(b, 1, p) = SubSeq(a, 1, p)
  BY <1>1, BeginsSame
<1> QED
  BY <1>2 DEF KvOf

\* The same for the MTP layer.
LEMMA MtpGrow ==
  ASSUME NEW a \in Seq(Token), NEW b \in Seq(Token), Begins(a, b), NEW row, NEW n \in Int, n + 1 <= Len(a)
  PROVE  MtpOf(row, a, n) <=> MtpOf(row, b, n)
<1>1. \A p \in 1..n : p + 1 \in Nat /\ p + 1 <= Len(a)
  BY LenProperties
<1>2. \A p \in 1..n : SubSeq(b, 1, p + 1) = SubSeq(a, 1, p + 1)
  BY <1>1, BeginsSame
<1> QED
  BY <1>2 DEF MtpOf
-----------------------------------------------------------------------------
(* The device                                                            *)

\* What is read of a KV that is of a text is that text.
LEMMA ContextIs ==
  ASSUME NEW r \in Row, NEW text \in Seq(Token), NEW n \in Nat, n <= Len(text), KvOf(kv[r], text, n)
  PROVE  Context(r, n) = SubSeq(text, 1, n)
<1> DEFINE c == Context(r, n)
           s == SubSeq(text, 1, n)
<1>1. \A q \in 1..n : Last(kv[r][q]) = text[q] /\ text[q] \in Token
  <2> SUFFICES ASSUME NEW q \in 1..n PROVE Last(kv[r][q]) = text[q] /\ text[q] \in Token
    OBVIOUS
  <2>1. q \in Nat /\ q <= Len(text) /\ q \in 1..q /\ q \in 1..Len(text)
    BY LenProperties
  <2>2. Len(SubSeq(text, 1, q)) = q /\ SubSeq(text, 1, q)[q] = text[q]
    BY <2>1, SubFacts
  <2>3. kv[r][q] = SubSeq(text, 1, q)
    BY DEF KvOf
  <2> QED
    BY <2>1, <2>2, <2>3, ElementOfSeq DEF Last
<1>2. c = [q \in 1..n |-> Last(kv[r][q])]
  BY DEF Context
<1>3. c \in Seq(Token) /\ Len(c) = n /\ \A q \in 1..n : c[q] = text[q]
  BY <1>1, <1>2
<1>4. s \in Seq(Token) /\ Len(s) = n /\ \A q \in 1..n : s[q] = text[q]
  BY SubFacts
<1> HIDE DEF c, s
<1>5. c = s
  BY <1>3, <1>4, SeqEqual
<1> QED
  BY <1>5 DEF c, s

\* The contexts of tokens run after it.
LEMMA ContextsIs ==
  ASSUME NEW r \in Row, NEW text \in Seq(Token), NEW n \in Nat, n <= Len(text), KvOf(kv[r], text, n),
         NEW tokens \in Seq(Token)
  PROVE  /\ DOMAIN Contexts(r, n, tokens) = 1..Len(tokens)
         /\ \A j \in 1..Len(tokens) : Contexts(r, n, tokens)[j] = SubSeq(text, 1, n) \o SubSeq(tokens, 1, j)
  BY ContextIs, LenProperties DEF Contexts

\* Positions up to the n-th are not written, those behind it are.
LEMMA WrittenIs ==
  ASSUME NEW old, DOMAIN old = 1..MaxLen, NEW n \in Nat, NEW contexts, NEW k \in Nat, DOMAIN contexts = 1..k,
         MaxLen \in Nat
  PROVE  /\ DOMAIN Written(old, n, contexts) = 1..MaxLen
         /\ \A p \in 1..MaxLen : p <= n => Written(old, n, contexts)[p] = old[p]
         /\ \A j \in 1..k : n + j <= MaxLen => Written(old, n, contexts)[n + j] = contexts[j]
<1>1. \A p \in 1..MaxLen : p <= n => ~(p - n \in 1..k)
  OBVIOUS
<1>2. \A j \in 1..k : n + j <= MaxLen => n + j \in 1..MaxLen /\ (n + j) - n = j
  OBVIOUS
<1>3. \A p \in 1..MaxLen : Written(old, n, contexts)[p] = IF p - n \in 1..k THEN contexts[p - n] ELSE old[p]
  BY DEF Written
<1>4. DOMAIN Written(old, n, contexts) = 1..MaxLen
  BY DEF Written
<1> HIDE DEF Written
<1> QED
  BY <1>1, <1>2, <1>3, <1>4
-----------------------------------------------------------------------------
(* The generator                                                         *)

\* The fields of the generator.
LEMMA GenFacts ==
  ASSUME gen \in GenType
  PROVE  /\ gen.committed \in [Row -> Nat] /\ gen.next \in [Row -> Token \cup {None}]
         /\ gen.seedRows \in [Row -> Nat] /\ gen.speculative \in BOOLEAN /\ gen.failed \in BOOLEAN
         /\ gen.pending \in {Nothing} \cup [Row -> Seq(Token)]
         /\ gen.phase \in {"idle", "closing"} \cup Working \cup Dropped
  BY DEF GenType

\* A generator is its fields.
LEMMA GenIs ==
  ASSUME NEW phase \in {"idle", "closing"} \cup Working \cup Dropped,
         NEW committed \in [Row -> Nat], NEW next \in [Row -> Token \cup {None}],
         NEW seedRows \in [Row -> Nat], NEW speculative \in BOOLEAN,
         NEW pending \in {Nothing} \cup [Row -> Seq(Token)], NEW fail \in BOOLEAN
  PROVE  [phase |-> phase, committed |-> committed, next |-> next, seedRows |-> seedRows,
          speculative |-> speculative, pending |-> pending, failed |-> fail] \in GenType
  BY DEF GenType

\* The generator starts.
LEMMA StartGen ==
  ASSUME MtpAssumption, TypeOK, CanStart
  PROVE  /\ Starting \in GenType
         /\ Starting.phase = "starting" /\ Starting.speculative = TRUE /\ Starting.pending = Nothing
         /\ Starting.failed = FALSE /\ Starting.next = target
         /\ Starting.committed = [r \in Row |-> len[r] - 1] /\ Starting.seedRows = [r \in Row |-> r - 1]
<1> DEFINE com == [r \in Row |-> len[r] - 1]
           rows == [r \in Row |-> r - 1]
<1>1. \A r \in Row : len[r] \in Nat /\ len[r] # 0
  <2> SUFFICES ASSUME NEW r \in Row PROVE len[r] \in Nat /\ len[r] # 0
    OBVIOUS
  <2>1. history[r] \in Seq(Token) /\ history[r] # <<>> /\ len[r] = Len(history[r])
    BY DEF CanStart, TypeOK, Nothing
  <2> QED
    BY <2>1, EmptySeq
<1>2. com \in [Row -> Nat] /\ rows \in [Row -> Nat] /\ target \in [Row -> Token \cup {None}]
  BY <1>1 DEF TypeOK, Row
<1>3. Starting = [Idle EXCEPT !.phase = "starting", !.speculative = TRUE, !.next = target,
                              !.committed = com, !.seedRows = rows]
  BY DEF Starting
<1> HIDE DEF com, rows
<1>4. Starting = [phase |-> "starting", committed |-> com, next |-> target, seedRows |-> rows,
                  speculative |-> TRUE, pending |-> Nothing, failed |-> FALSE]
  BY <1>3 DEF Idle
<1>5. Starting \in GenType
  BY <1>2, <1>4 DEF GenType, Working
<1> QED
  BY <1>4, <1>5 DEF com, rows

\* The report of the token run again, of every row.
LEMMA StartedGen ==
  ASSUME MtpAssumption, TypeOK, gen' = [gen EXCEPT !.phase = "loop", !.speculative = FALSE, !.committed = len]
  PROVE  /\ gen' \in GenType
         /\ gen'.phase = "loop" /\ gen'.speculative = FALSE /\ gen'.committed = len
         /\ gen'.pending = gen.pending /\ gen'.failed = gen.failed /\ gen'.next = gen.next
         /\ gen'.seedRows = gen.seedRows
<1>1. gen \in GenType /\ len \in [Row -> Nat]
  BY DEF TypeOK
<1> QED
  BY <1>1 DEF GenType, Working

\* A step is launched.
LEMMA LaunchGen ==
  ASSUME MtpAssumption, TypeOK, NEW drafts, Launch(drafts)
  PROVE  /\ gen' \in GenType
         /\ gen'.phase = IF gen.pending = Nothing THEN "waiting" ELSE "yielding"
         /\ gen'.speculative = TRUE /\ gen'.committed = gen.committed
         /\ gen'.pending = gen.pending /\ gen'.failed = gen.failed /\ gen'.next = gen.next
         /\ gen'.seedRows = gen.seedRows
<1> DEFINE phase == IF gen.pending = Nothing THEN "waiting" ELSE "yielding"
<1>1. gen' = [gen EXCEPT !.speculative = TRUE, !.phase = phase]
  BY DEF Launch
<1>2. gen \in GenType /\ phase \in {"waiting", "yielding"}
  BY DEF TypeOK
<1> HIDE DEF phase
<1>3. /\ gen' \in GenType /\ gen'.phase = phase
      /\ gen'.speculative = TRUE /\ gen'.committed = gen.committed
      /\ gen'.pending = gen.pending /\ gen'.failed = gen.failed /\ gen'.next = gen.next
      /\ gen'.seedRows = gen.seedRows
  BY <1>1, <1>2 DEF GenType, Working
<1> QED
  BY <1>3 DEF phase

\* What a step made is reported.
LEMMA YieldGen ==
  ASSUME MtpAssumption, TypeOK, NEW goOn \in BOOLEAN, Yield(goOn)
  PROVE  /\ gen' \in GenType
         /\ gen'.phase = IF goOn THEN "waiting" ELSE "closing"
         /\ gen'.speculative = gen.speculative /\ gen'.committed = gen.committed
         /\ gen'.pending = Nothing /\ gen'.failed = gen.failed /\ gen'.next = gen.next
         /\ gen'.seedRows = gen.seedRows
<1> DEFINE phase == IF goOn THEN "waiting" ELSE "closing"
<1>1. gen' = [gen EXCEPT !.pending = Nothing, !.phase = phase]
  BY DEF Yield
<1>2. gen \in GenType /\ phase \in {"waiting", "closing"}
  BY DEF TypeOK
<1> HIDE DEF phase
<1>3. /\ gen' \in GenType /\ gen'.phase = phase
      /\ gen'.speculative = gen.speculative /\ gen'.committed = gen.committed
      /\ gen'.pending = Nothing /\ gen'.failed = gen.failed /\ gen'.next = gen.next
      /\ gen'.seedRows = gen.seedRows
  BY <1>1, <1>2 DEF GenType, Working
<1> QED
  BY <1>3 DEF phase

\* The consumer or an exception ends it, with what else is set then.
LEMMA EndGen ==
  ASSUME MtpAssumption, TypeOK
  PROVE  /\ LET end == [gen EXCEPT !.phase = "closing"]
            IN /\ end \in GenType /\ end.phase = "closing" /\ end.committed = gen.committed
               /\ end.failed = gen.failed /\ end.speculative = gen.speculative
         /\ Failing \in GenType /\ Failing.phase = "closing" /\ Failing.committed = gen.committed
         /\ Failing.failed = TRUE /\ Failing.speculative = gen.speculative
         /\ LET end == [Failing EXCEPT !.speculative = TRUE]
            IN /\ end \in GenType /\ end.phase = "closing" /\ end.committed = gen.committed
               /\ end.failed = TRUE /\ end.speculative = TRUE
         /\ LET end == [Failing EXCEPT !.committed = gen.committed]
            IN /\ end \in GenType /\ end.phase = "closing" /\ end.committed = gen.committed
               /\ end.failed = TRUE /\ end.speculative = gen.speculative
<1>1. gen \in GenType
  BY DEF TypeOK
<1>2. /\ Failing \in GenType /\ Failing.phase = "closing" /\ Failing.committed = gen.committed
      /\ Failing.failed = TRUE /\ Failing.speculative = gen.speculative
  BY <1>1 DEF GenType, Failing
<1>3. LET end == [gen EXCEPT !.phase = "closing"]
      IN /\ end \in GenType /\ end.phase = "closing" /\ end.committed = gen.committed
         /\ end.failed = gen.failed /\ end.speculative = gen.speculative
  BY <1>1 DEF GenType
<1>4. LET end == [Failing EXCEPT !.speculative = TRUE]
      IN /\ end \in GenType /\ end.phase = "closing" /\ end.committed = gen.committed
         /\ end.failed = TRUE /\ end.speculative = TRUE
  BY <1>2 DEF GenType
<1>5. LET end == [Failing EXCEPT !.committed = gen.committed]
      IN /\ end \in GenType /\ end.phase = "closing" /\ end.committed = gen.committed
         /\ end.failed = TRUE /\ end.speculative = gen.speculative
  BY <1>1, <1>2 DEF GenType
<1> QED
  BY <1>2, <1>3, <1>4, <1>5

\* No generator.
LEMMA NoGen ==
  ASSUME NEW phase \in {"idle"} \cup Dropped
  PROVE  /\ LET none == [Idle EXCEPT !.phase = phase]
            IN none \in GenType /\ none.phase = phase
         /\ Idle = [Idle EXCEPT !.phase = "idle"] /\ Idle.phase = "idle"
<1> DEFINE zero == [r \in Row |-> 0]
           nothing == [r \in Row |-> None]
<1>1. zero \in [Row -> Nat] /\ nothing \in [Row -> Token \cup {None}]
  OBVIOUS
<1>2. Idle = [phase |-> "idle", committed |-> zero, next |-> nothing, seedRows |-> zero,
              speculative |-> FALSE, pending |-> Nothing, failed |-> FALSE]
  BY DEF Idle
<1> HIDE DEF zero, nothing
<1>3. Idle \in GenType
  BY <1>1, <1>2 DEF GenType
<1>4. Idle.phase = "idle"
  BY <1>2
<1>5. Idle = [Idle EXCEPT !.phase = "idle"]
  <2> DEFINE none == Idle
  <2>1. none \in GenType /\ none.phase = "idle"
    BY <1>3, <1>4
  <2> HIDE DEF none
  <2>2. none = [none EXCEPT !.phase = "idle"]
    BY <2>1 DEF GenType
  <2> QED
    BY <2>2 DEF none
<1> QED
  BY <1>3, <1>4, <1>5 DEF GenType
-----------------------------------------------------------------------------
(* Rows                                                                  *)

\* The types of what belongs to a row.
LEMMA RowFacts ==
  ASSUME MtpAssumption, TypeOK, NEW r \in Row
  PROVE  /\ history[r] \in Seq(Token) /\ Len(history[r]) \in Nat /\ len[r] \in Nat
         /\ prompt[r] \in Prompt /\ prompt[r] \in Seq(Token) /\ Len(prompt[r]) \in 1..MaxLen
         /\ todo[r] \in Seq(Token) /\ published[r] \in Seq(Token) /\ target[r] \in Token \cup {None}
         /\ DOMAIN kv[r] = 1..MaxLen /\ DOMAIN mtpKv[r] = 1..MaxLen
         /\ r \in Nat /\ r \in 1..Rows /\ gen.committed[r] \in Nat /\ gen.next[r] \in Token \cup {None}
         /\ gen.pending # Nothing => gen.pending[r] \in Seq(Token)
<1>1. /\ history[r] \in Seq(Token) /\ len[r] \in Nat /\ prompt[r] \in Prompt /\ todo[r] \in Seq(Token)
      /\ published[r] \in Seq(Token) /\ target[r] \in Token \cup {None}
      /\ DOMAIN kv[r] = 1..MaxLen /\ DOMAIN mtpKv[r] = 1..MaxLen
  BY DEF TypeOK
<1>2. gen.committed[r] \in Nat /\ gen.next[r] \in Token \cup {None}
  BY GenFacts DEF TypeOK
<1>3. gen.pending # Nothing => gen.pending[r] \in Seq(Token)
  BY GenFacts DEF TypeOK
<1> QED
  BY <1>1, <1>2, <1>3, Constants, LenProperties

\* The text of a row with its next token.
LEMMA FullFacts ==
  ASSUME MtpAssumption, TypeOK, NEW r \in Row, target[r] \in Token
  PROVE  /\ Full(r) \in Seq(Token) /\ Len(Full(r)) = Len(history[r]) + 1 /\ Begins(history[r], Full(r))
         /\ Full(r)[Len(history[r]) + 1] = target[r] /\ SubSeq(Full(r), 1, Len(history[r])) = history[r]
         /\ \A i \in 1..Len(history[r]) : Full(r)[i] = history[r][i]
  BY RowFacts, AppendFacts DEF Full

\* What a row of the generator depends on.
LEMMA BusySame ==
  ASSUME NEW r \in Row, BusyRow(r), todo' = todo, UNCHANGED <<history, target, prompt, kv, mtpKv>>,
         gen'.committed = gen.committed
  PROVE  BusyRow(r)' /\ Full(r)' = Full(r)
<1>1. Full(r)' = Full(r)
  BY DEF Full
<1> QED
  BY <1>1 DEF BusyRow

\* What a row depends on that nobody generates for any more.
LEMMA SoundSame ==
  ASSUME NEW r \in Row, SoundRow(r), history'[r] = history[r], prompt'[r] = prompt[r], kv'[r] = kv[r],
         todo'[r] = todo[r], target'[r] = target[r], len'[r] = len[r]
  PROVE  SoundRow(r)'
<1>1. Full(r)' = Full(r)
  BY DEF Full
<1> QED
  BY <1>1 DEF SoundRow

\* A row of the generator is sound, at any length.
LEMMA BusySound ==
  ASSUME MtpAssumption, TypeOK, NEW r \in Row, BusyRow(r)
  PROVE  SoundRow(r)
<1>1. history[r] \in Seq(Token) /\ Full(r) \in Seq(Token) /\ Begins(history[r], Full(r))
  BY RowFacts, FullFacts DEF BusyRow
<1>2. Right(history[r], prompt[r])
  BY <1>1, RightCut DEF BusyRow
<1> QED
  BY <1>2 DEF BusyRow, SoundRow

\* So is a row nobody generates for.
LEMMA IdleSound ==
  ASSUME MtpAssumption, TypeOK, NEW r \in Row, IdleRow(r)
  PROVE  SoundRow(r)
<1>1. history[r] \in Seq(Token) /\ todo[r] \in Seq(Token)
  BY RowFacts
<1>2. Right(history[r], prompt[r])
  <2>1. CASE todo[r] = Nothing
    <3>1. target[r] \in Token /\ Right(Full(r), prompt[r])
      BY <2>1 DEF IdleRow
    <3>2. Full(r) \in Seq(Token) /\ Begins(history[r], Full(r))
      BY <3>1, FullFacts
    <3> QED
      BY <1>1, <3>1, <3>2, RightCut
  <2>2. CASE todo[r] # Nothing
    <3>1. prompt[r] = history[r] \o todo[r]
      BY <2>2 DEF IdleRow
    <3>2. /\ Len(prompt[r]) = Len(history[r]) + Len(todo[r])
          /\ \A p \in 1..Len(history[r]) : prompt[r][p] = history[r][p]
      <4>1. /\ Len(history[r] \o todo[r]) = Len(history[r]) + Len(todo[r])
            /\ \A p \in 1..Len(history[r]) : (history[r] \o todo[r])[p] = history[r][p]
        BY <1>1, JoinFacts
      <4> QED
        BY <3>1, <4>1
    <3>3. Len(history[r]) \in Nat /\ Len(todo[r]) \in Nat
      BY <1>1, LenProperties
    <3>4. \A p \in 1..Len(history[r]) : p <= Len(prompt[r])
      <4> DEFINE n == Len(history[r])
                 m == Len(todo[r])
                 l == Len(prompt[r])
      <4>1. l = n + m /\ n \in Nat /\ m \in Nat
        BY <3>2, <3>3
      <4> HIDE DEF n, m, l
      <4>2. \A p \in 1..n : p <= l
        BY <4>1
      <4> QED
        BY <4>2 DEF n, l
    <3> QED
      BY <3>2, <3>4 DEF Right
  <2> QED
    BY <2>1, <2>2
<1> QED
  BY <1>2, Constants DEF IdleRow, SoundRow

\* In every phase.
LEMMA SoundRows ==
  ASSUME MtpAssumption, IInv, NEW r \in Row
  PROVE  SoundRow(r)
<1>1. TypeOK /\ PhaseInv /\ gen.phase \in {"idle", "closing"} \cup Working \cup Dropped
  BY GenFacts DEF IInv, TypeOK
<1>2. CASE gen.phase = "idle"
  BY <1>1, <1>2, IdleSound DEF PhaseInv
<1>3. CASE gen.phase \in Working
  BY <1>1, <1>3, BusySound DEF PhaseInv
<1>4. CASE gen.phase = "closing"
  BY <1>1, <1>4, BusySound DEF PhaseInv, ClosingInv, PartRow
<1>5. CASE gen.phase \in Dropped
  BY <1>1, <1>5 DEF PhaseInv
<1> QED
  BY <1>1, <1>2, <1>3, <1>4, <1>5

\* A row that is cut stays sound.
LEMMA CutSound ==
  ASSUME MtpAssumption, TypeOK, NEW r \in Row, SoundRow(r),
         kv'[r] = kv[r], prompt'[r] = prompt[r], todo'[r] = todo[r], len'[r] \in Nat,
         NEW n \in Nat, n <= Len(history[r]), history'[r] = SubSeq(history[r], 1, n),
         \/ todo[r] # Nothing
         \/ len'[r] < n
         \/ n = Len(history[r]) /\ target'[r] = target[r] /\ (target[r] = None \/ Right(Full(r), prompt[r]))
         \/ n < Len(history[r]) /\ target'[r] = history[r][n + 1]
  PROVE  SoundRow(r)' /\ history'[r] \in Seq(Token) /\ Len(history'[r]) = n
<1> DEFINE a == history[r]
           b == SubSeq(a, 1, n)
<1>1. a \in Seq(Token) /\ Len(a) \in Nat
  BY RowFacts
<1>2. b \in Seq(Token) /\ Len(b) = n /\ Begins(b, a) /\ history'[r] = b
  BY <1>1, SubFacts
<1>3. KvOf(kv[r], a, Len(a)) /\ Right(a, prompt[r])
  BY DEF SoundRow
<1> HIDE DEF b
<1>4. Right(b, prompt[r])
  BY <1>1, <1>2, <1>3, RightCut
<1>5. KvOf(kv[r], a, n)
  <2>1. \A p \in 1..n : p \in 1..Len(a)
    BY <1>1
  <2> QED
    BY <1>3, <2>1 DEF KvOf
<1>6. KvOf(kv[r], b, n)
  BY <1>1, <1>2, <1>5, KvGrow
<1>7. ASSUME todo[r] = Nothing, n <= len'[r], target'[r] # None PROVE Right(Append(b, target'[r]), prompt[r])
  <2>1. ~(len'[r] < n)
    BY <1>7
  <2>2. CASE n = Len(history[r]) /\ target'[r] = target[r] /\ (target[r] = None \/ Right(Full(r), prompt[r]))
    <3>1. b = a
      BY <1>1, <2>2, SubSeqFull DEF b
    <3>2. Right(Full(r), prompt[r])
      BY <1>7, <2>2 DEF SoundRow
    <3> QED
      BY <2>2, <3>1, <3>2 DEF Full
  <2>3. CASE n < Len(history[r]) /\ target'[r] = history[r][n + 1]
    <3> DEFINE c == SubSeq(a, 1, n + 1)
    <3>1. Append(b, target'[r]) = c
      BY <1>1, <2>3, SubNext DEF b
    <3>2. n + 1 \in Nat /\ n + 1 <= Len(a)
      BY <1>1, <2>3
    <3>3. c \in Seq(Token) /\ Begins(c, a)
      BY <1>1, <3>2, SubFacts
    <3> HIDE DEF c
    <3> QED
      BY <1>1, <1>3, <3>1, <3>3, RightCut
  <2> QED
    BY <1>7, <2>1, <2>2, <2>3
<1>8. Full(r)' = Append(b, target'[r])
  BY <1>2 DEF Full
<1> QED
  BY <1>2, <1>4, <1>6, <1>7, <1>8 DEF SoundRow

\* The last token of a row is taken back.
LEMMA FrontFacts ==
  ASSUME NEW s \in Seq(Token), s # Nothing
  PROVE  /\ Len(s) - 1 \in Nat /\ Len(s) - 1 < Len(s) /\ Front(s) = SubSeq(s, 1, Len(s) - 1)
         /\ Last(s) = s[(Len(s) - 1) + 1] /\ Last(s) \in Token
<1>1. Len(s) \in Nat /\ Len(s) # 0
  BY EmptySeq, LenProperties DEF Nothing
<1>2. Len(s) - 1 \in Nat /\ (Len(s) - 1) + 1 = Len(s) /\ Len(s) \in 1..Len(s)
  BY <1>1
<1>3. s[Len(s)] \in Token
  BY <1>2, ElementOfSeq
<1> QED
  BY <1>2, <1>3 DEF Front, Last

\* The types, of what a step leaves alone.
LEMMA TypeSame ==
  ASSUME MtpAssumption, TypeOK, UNCHANGED <<history, target, prompt, todo>>, len' \in [Row -> Nat], published' \in [Row -> Seq(Token)],
         UNCHANGED <<kv, mtpKv, device>>, gen' \in GenType
  PROVE  TypeOK'
  BY DEF TypeOK

\* The consumer goes on, or leaves.
LEMMA YieldInv ==
  ASSUME MtpAssumption, IInv, NEW goOn \in BOOLEAN, Yield(goOn)
  PROVE  IInv'
<1> USE DEF IInv
<1>1. /\ gen' \in GenType
      /\ gen'.phase = IF goOn THEN "waiting" ELSE "closing"
      /\ gen'.speculative = gen.speculative /\ gen'.committed = gen.committed
      /\ gen'.pending = Nothing /\ gen'.failed = gen.failed /\ gen'.next = gen.next
      /\ gen'.seedRows = gen.seedRows
  BY YieldGen
<1>2. /\ gen.phase = "yielding" /\ UNCHANGED <<history, len, target, prompt, todo, kv, mtpKv, seed, result, flight, device>>
      /\ published' = [r \in Row |-> published[r] \o gen.pending[r]]
  BY DEF Yield, sequences, buffers
<1>3. /\ gen.pending # Nothing /\ gen.speculative /\ ~gen.failed /\ flight.op \in {"none", "step"}
      /\ \A r \in Row : BusyRow(r) /\ StepRow(r)
  BY <1>2 DEF PhaseInv, Working
<1>4. \A r \in Row : published[r] \in Seq(Token) /\ gen.pending[r] \in Seq(Token)
  BY <1>3, RowFacts
<1>5. \A r \in Row : published[r] \o gen.pending[r] \in Seq(Token)
  BY <1>4, ConcatProperties
<1>6. published' \in [Row -> Seq(Token)] /\ len' \in [Row -> Nat]
  BY <1>2, <1>5 DEF TypeOK
<1>7. TypeOK'
  BY <1>1, <1>2, <1>6, TypeSame
<1>8. \A r \in Row : BusyRow(r)' /\ Full(r)' = Full(r)
  BY <1>1, <1>2, <1>3, BusySame
<1>9. \A r \in Row : prompt'[r] \o published'[r] = Full(r)'
  BY <1>2, <1>3, <1>8 DEF StepRow
<1>10. CASE goOn
  <2>1. \A r \in Row : StepRow(r)'
    BY <1>1, <1>2, <1>3, <1>8, <1>9 DEF StepRow
  <2> QED
    BY <1>1, <1>2, <1>3, <1>7, <1>8, <1>10, <2>1 DEF PhaseInv, Working, Dropped
<1>11. CASE ~goOn
  <2>1. \A r \in Row : ClosingRow(r)'
    BY <1>1, <1>2, <1>3, <1>8, <1>9 DEF StepRow, ClosingRow, Told
  <2> QED
    BY <1>1, <1>2, <1>3, <1>7, <1>8, <1>11, <2>1 DEF PhaseInv, ClosingInv, Working, Dropped
<1> QED
  BY <1>10, <1>11

\* An exception leaves what was committed.
LEMMA FailInv ==
  ASSUME MtpAssumption, IInv, Fail
  PROVE  IInv'
<1> USE DEF IInv
<1>1. /\ gen' \in GenType
      /\ gen'.phase = "closing" /\ gen'.committed = gen.committed /\ gen'.failed = TRUE
  BY EndGen DEF Fail
<1>2. \/ len' = len /\ gen'.speculative = gen.speculative
      \/ gen'.speculative /\ \E n \in [Row -> Reserved] : len' = [r \in Row |-> gen.committed[r] + n[r]]
  BY EndGen DEF Fail
<1>3. /\ gen.phase \in Working
      /\ UNCHANGED <<history, target, prompt, todo, published, kv, mtpKv, seed, result, flight, device>>
  BY DEF Fail, requests, buffers, Working
<1>4. \A r \in Row : BusyRow(r)
  BY <1>3 DEF PhaseInv
<1>5. len' \in [Row -> Nat]
  <2>1. CASE len' = len
    BY <2>1 DEF TypeOK
  <2>2. ASSUME NEW n \in [Row -> Reserved], len' = [r \in Row |-> gen.committed[r] + n[r]] PROVE len' \in [Row -> Nat]
    <3>1. \A i \in Reserved : i \in Nat
      BY Constants DEF Reserved
    <3>2. \A r \in Row : gen.committed[r] + n[r] \in Nat
      BY <3>1, RowFacts
    <3> QED
      BY <2>2, <3>2
  <2> QED
    BY <1>2, <2>1, <2>2
<1>6. TypeOK'
  BY <1>1, <1>3, <1>5, TypeSame DEF TypeOK
<1>7. \A r \in Row : BusyRow(r)'
  BY <1>1, <1>3, <1>4, BusySame
<1>8. \A r \in Row : flight.op # "none" => flight.input[r] \in Seq(Token)
  <2> SUFFICES ASSUME NEW r \in Row, flight.op # "none" PROVE flight.input[r] \in Seq(Token)
    OBVIOUS
  <2>1. CASE gen.phase = "starting"
    <3>1. flight.input[r] = <<target[r]>> /\ target[r] \in Token
      BY <1>4, <2>1 DEF PhaseInv, StartingRow, BusyRow
    <3> QED
      BY <3>1
  <2>2. CASE gen.phase \in {"waiting", "yielding"}
    BY <2>2 DEF PhaseInv, StepRow
  <2>3. gen.phase # "loop"
    BY DEF PhaseInv
  <2> QED
    BY <1>3, <2>1, <2>2, <2>3 DEF Working
<1>9. \A r \in Row : ~gen.speculative => len[r] = gen.committed[r]
  BY <1>3 DEF PhaseInv, LoopRow, Working
<1>10. \A r \in Row : ClosingRow(r)'
  <2> SUFFICES ASSUME NEW r \in Row PROVE ClosingRow(r)'
    OBVIOUS
  <2>1. gen'.speculative \/ len'[r] = gen.committed[r]
    BY <1>2, <1>9
  <2> QED
    BY <1>1, <1>3, <1>8, <2>1 DEF ClosingRow
<1> QED
  BY <1>1, <1>6, <1>7, <1>10 DEF PhaseInv, ClosingInv, Working, Dropped

\* The bound ends the requests.
LEMMA StopInv ==
  ASSUME MtpAssumption, IInv, Stop
  PROVE  IInv'
<1> USE DEF IInv
<1>1. gen.phase = "loop" /\ UNCHANGED <<history, len, target, prompt, todo, kv, mtpKv, seed, result, flight, device>>
  BY DEF Stop, sequences, buffers
<1>2. /\ ~gen.speculative /\ ~gen.failed /\ flight.op = "none"
      /\ \A r \in Row : BusyRow(r) /\ LoopRow(r)
  BY <1>1 DEF PhaseInv, Working
<1>3. /\ gen' \in GenType
      /\ gen'.phase = "closing" /\ gen'.committed = gen.committed /\ ~gen'.failed /\ ~gen'.speculative
  BY <1>2, EndGen DEF Stop
<1>4. gen.pending # Nothing
  <2>1. PICK r \in Row : len[r] + V > MaxLen
    BY DEF Stop
  <2>2. len[r] + V \in Nat /\ MaxLen \in Nat
    BY RowFacts, Constants
  <2>3. gen.pending = Nothing => len[r] + V <= MaxLen
    BY <1>2 DEF LoopRow
  <2> HIDE DEF V
  <2> QED
    BY <2>1, <2>2, <2>3
<1>5. published' = [r \in Row |-> published[r] \o gen.pending[r]]
  BY DEF Stop
<1>6. \A r \in Row : published[r] \in Seq(Token) /\ gen.pending[r] \in Seq(Token)
  BY <1>4, RowFacts
<1>7. \A r \in Row : published[r] \o gen.pending[r] \in Seq(Token)
  BY <1>6, ConcatProperties
<1>8. published' \in [Row -> Seq(Token)] /\ len' \in [Row -> Nat]
  BY <1>1, <1>5, <1>7 DEF TypeOK
<1>9. TypeOK'
  BY <1>1, <1>3, <1>8, TypeSame
<1>10. \A r \in Row : BusyRow(r)' /\ Full(r)' = Full(r)
  BY <1>1, <1>2, <1>3, BusySame
<1>11. \A r \in Row : ClosingRow(r)'
  BY <1>1, <1>2, <1>3, <1>4, <1>5, <1>10 DEF LoopRow, ClosingRow, Told
<1> QED
  BY <1>1, <1>2, <1>3, <1>9, <1>10, <1>11 DEF PhaseInv, ClosingInv, Working, Dropped

\* The finally block gives back what was not committed, from where an exception
\* has left it too.
LEMMA CloseInv ==
  ASSUME MtpAssumption, IInv, Close
  PROVE  IInv'
<1> USE DEF IInv
<1> DEFINE phase == IF gen.failed THEN "rolledBack" ELSE "idle"
           com == gen.committed
           cut(r) == gen.speculative /\ com[r] < Len(history[r])
<1>1. gen' \in GenType /\ gen'.phase = phase
  <2>1. phase \in {"idle"} \cup Dropped /\ gen' = [Idle EXCEPT !.phase = phase]
    BY DEF Close, Dropped
  <2> HIDE DEF phase
  <2> QED
    BY <2>1, NoGen
<1>2. /\ gen.phase = "closing" /\ flight.op = "none"
      /\ UNCHANGED <<prompt, todo, published, kv, mtpKv, flight, device>>
      /\ len' = [r \in Row |-> IF gen.speculative THEN com[r] ELSE len[r]]
      /\ history' = [r \in Row |-> IF cut(r) THEN SubSeq(history[r], 1, com[r]) ELSE history[r]]
      /\ target' = [r \in Row |-> IF cut(r) THEN history[r][com[r] + 1] ELSE target[r]]
  BY DEF Close, requests, Rollback
<1> HIDE DEF cut
<1>3. \/ \A r \in Row : BusyRow(r) /\ ClosingRow(r)
      \/ gen.failed /\ gen.speculative /\ \A r \in Row : PartRow(r)
  BY <1>2 DEF PhaseInv, ClosingInv
<1>4. ASSUME NEW r \in Row
      PROVE  /\ SoundRow(r)' /\ history'[r] \in Seq(Token) /\ len'[r] \in Nat /\ len'[r] = Len(history'[r])
             /\ target'[r] \in Token \cup {None}
  <2> DEFINE n == IF cut(r) THEN com[r] ELSE Len(history[r])
  <2>1. /\ history[r] \in Seq(Token) /\ Len(history[r]) \in Nat /\ com[r] \in Nat /\ len[r] \in Nat
        /\ target[r] \in Token \cup {None}
    BY RowFacts
  <2>2. SoundRow(r) /\ com[r] <= Len(history[r])
    <3>1. CASE BusyRow(r)
      BY <2>1, <3>1, BusySound DEF BusyRow
    <3>2. CASE PartRow(r)
      BY <3>2 DEF PartRow
    <3> QED
      BY <1>3, <3>1, <3>2
  <2>3. n \in Nat /\ n <= Len(history[r]) /\ history'[r] = SubSeq(history[r], 1, n)
    <3>1. CASE cut(r)
      BY <1>2, <2>1, <2>2, <3>1
    <3>2. CASE ~cut(r)
      BY <1>2, <2>1, <3>2, SubSeqFull
    <3> QED
      BY <3>1, <3>2
  <2>4. len'[r] = n
    BY <1>2, <1>3, <2>1, <2>2 DEF cut, BusyRow, ClosingRow
  <2>5. /\ target'[r] \in Token \cup {None}
        /\ \/ n < Len(history[r]) /\ target'[r] = history[r][n + 1]
           \/ n = Len(history[r]) /\ target'[r] = target[r]
    <3>1. CASE cut(r)
      <4>1. n = com[r] /\ n < Len(history[r]) /\ n + 1 \in 1..Len(history[r]) /\ target'[r] = history[r][n + 1]
        BY <1>2, <2>1, <3>1 DEF cut
      <4> HIDE DEF n
      <4> QED
        BY <2>1, <4>1, ElementOfSeq
    <3>2. CASE ~cut(r)
      BY <1>2, <2>1, <3>2
    <3> QED
      BY <3>1, <3>2
  <2>6. target[r] = None \/ Right(Full(r), prompt[r])
    <3>1. CASE BusyRow(r)
      BY <3>1 DEF BusyRow
    <3>2. CASE PartRow(r)
      BY <3>2 DEF PartRow, SoundRow
    <3> QED
      BY <1>3, <3>1, <3>2
  <2>7. kv'[r] = kv[r] /\ prompt'[r] = prompt[r] /\ todo'[r] = todo[r] /\ len'[r] \in Nat
    BY <1>2, <2>3, <2>4
  <2> HIDE DEF n
  <2> QED
    BY <2>2, <2>3, <2>4, <2>5, <2>6, <2>7, CutSound
<1>5. TypeOK'
  <2>1. /\ history' = [r \in Row |-> history'[r]] /\ DOMAIN history' = Row
        /\ len' = [r \in Row |-> len'[r]] /\ DOMAIN len' = Row
        /\ target' = [r \in Row |-> target'[r]] /\ DOMAIN target' = Row
    BY <1>2
  <2>2. history' \in [Row -> Seq(Token)] /\ len' \in [Row -> Nat] /\ target' \in [Row -> Token \cup {None}]
    BY <1>4, <2>1
  <2> QED
    BY <1>1, <1>2, <2>2 DEF TypeOK
<1>6. CASE gen.failed
  BY <1>1, <1>2, <1>4, <1>5, <1>6 DEF PhaseInv, Working, Dropped
<1>7. CASE ~gen.failed
  <2>1. \A r \in Row : BusyRow(r) /\ ClosingRow(r)
    BY <1>3, <1>7
  <2>2. ASSUME NEW r \in Row PROVE IdleRow(r)'
    <3> DEFINE n == Len(history[r])
    <3>1. /\ history[r] \in Seq(Token) /\ n \in Nat /\ Begins(history[r], Full(r)) /\ Full(r) \in Seq(Token)
          /\ BusyRow(r)
      BY <2>1, RowFacts, FullFacts DEF BusyRow
    <3>2. MtpOf(mtpKv[r], Full(r), n) /\ KvOf(kv[r], history[r], n) /\ n <= MaxLen
      BY <3>1 DEF BusyRow
    <3> HIDE DEF n
    <3>3. MtpOf(mtpKv[r], Full(r), n - 1)
      BY <3>1, <3>2 DEF MtpOf
    <3>4. n - 1 \in Int /\ (n - 1) + 1 <= n
      BY <3>1
    <3>5. MtpOf(mtpKv[r], history[r], n - 1)
      BY <3>1, <3>3, <3>4, MtpGrow DEF n
    <3>6. ~cut(r)
      BY <3>1 DEF cut, BusyRow, n
    <3>7. history'[r] = history[r] /\ target'[r] = target[r]
      BY <1>2, <3>6
    <3>8. Full(r)' = Full(r)
      BY <3>7 DEF Full
    <3>9. todo'[r] = Nothing /\ target'[r] \in Token /\ Right(Full(r)', prompt'[r])
      BY <1>2, <3>1, <3>7, <3>8 DEF BusyRow
    <3>10. Told(r)'
      BY <1>2, <1>7, <2>1, <3>7, <3>8 DEF ClosingRow, Told
    <3>11. len'[r] = n /\ kv' = kv /\ mtpKv' = mtpKv
      BY <1>2, <1>4, <3>7 DEF n
    <3> QED
      BY <3>2, <3>5, <3>7, <3>9, <3>10, <3>11 DEF IdleRow, n
  <2> QED
    BY <1>1, <1>2, <1>5, <1>7, <2>2 DEF PhaseInv, Working, Dropped
<1> QED
  BY <1>6, <1>7

\* If the device is lost nothing is given back.
LEMMA CloseRejectsInv ==
  ASSUME MtpAssumption, IInv, CloseRejects
  PROVE  IInv'
<1> USE DEF IInv
<1>1. /\ gen' = [Idle EXCEPT !.phase = "failed"] /\ device = "lost"
      /\ UNCHANGED <<history, len, target, prompt, todo, published, kv, mtpKv, flight, device>>
  BY DEF CloseRejects, sequences, requests
<1>2. gen' \in GenType /\ gen'.phase = "failed"
  BY <1>1, NoGen DEF Dropped
<1>3. TypeOK'
  BY <1>1, <1>2, TypeSame DEF TypeOK
<1>4. \A r \in Row : SoundRow(r)'
  BY <1>1, SoundRows, SoundSame
<1> QED
  BY <1>1, <1>2, <1>3, <1>4 DEF PhaseInv, Working

\* The device is lost.
LEMMA LoseDeviceInv ==
  ASSUME MtpAssumption, IInv, LoseDevice
  PROVE  IInv'
<1> USE DEF IInv
<1>1. /\ device' = "lost"
      /\ UNCHANGED <<history, len, target, prompt, todo, published, kv, mtpKv, seed, gen, flight, result>>
  BY DEF LoseDevice, sequences, requests, buffers
<1>2. TypeOK'
  BY <1>1 DEF TypeOK
<1>3. \A r \in Row : Full(r)' = Full(r)
  BY <1>1 DEF Full
<1>4. \A r \in Row : Told(r)' = Told(r) /\ SoundRow(r)' = SoundRow(r)
  BY <1>1, <1>3 DEF Told, SoundRow
<1>5. /\ \A r \in Row : IdleRow(r)' = IdleRow(r)
      /\ \A r \in Row : BusyRow(r)' = BusyRow(r)
      /\ \A r \in Row : StartingRow(r)' = StartingRow(r)
  <2>1. \A r \in Row : IdleRow(r)' = IdleRow(r)
    BY <1>1, <1>3, <1>4 DEF IdleRow
  <2>2. \A r \in Row : BusyRow(r)' = BusyRow(r)
    BY <1>1, <1>3 DEF BusyRow
  <2>3. \A r \in Row : StartingRow(r)' = StartingRow(r)
    BY <1>1, <1>3 DEF StartingRow
  <2> QED
    BY <2>1, <2>2, <2>3
<1>6. \A r \in Row : LoopRow(r)' = LoopRow(r) /\ StepRow(r)' = StepRow(r)
  <2>1. \A r \in Row : LoopRow(r)' = LoopRow(r)
    BY <1>1, <1>3 DEF LoopRow
  <2>2. \A r \in Row : StepRow(r)' = StepRow(r)
    BY <1>1, <1>3 DEF StepRow
  <2> QED
    BY <2>1, <2>2
<1>7. \A r \in Row : ClosingRow(r)' = ClosingRow(r) /\ PartRow(r)' = PartRow(r)
  BY <1>1, <1>4 DEF ClosingRow, PartRow
<1>8. ClosingInv => ClosingInv'
  BY <1>1, <1>5, <1>7 DEF ClosingInv
<1> QED
  BY <1>1, <1>2, <1>4, <1>5, <1>6, <1>8 DEF PhaseInv
-----------------------------------------------------------------------------
(* Steps                                                                 *)

\* A step is launched, over what was committed.
LEMMA LaunchInv ==
  ASSUME MtpAssumption, IInv, NEW drafts \in [Row -> [1..NumDrafts -> Token]], Launch(drafts)
  PROVE  IInv'
<1> USE DEF IInv
<1>1. /\ gen' \in GenType
      /\ gen'.phase = IF gen.pending = Nothing THEN "waiting" ELSE "yielding"
      /\ gen'.speculative = TRUE /\ gen'.committed = gen.committed
      /\ gen'.pending = gen.pending /\ gen'.failed = gen.failed /\ gen'.next = gen.next
      /\ gen'.seedRows = gen.seedRows
  BY LaunchGen
<1> DEFINE input(r) == <<gen.next[r]>> \o drafts[r]
           inputs == [r \in Row |-> input(r)]
<1>2. /\ gen.phase = "loop" /\ UNCHANGED <<history, target, prompt, todo, published, kv, mtpKv, seed, result, device>>
      /\ \A r \in Row : len[r] = gen.committed[r] /\ len[r] + V <= MaxLen
      /\ len' = [r \in Row |-> gen.committed[r] + V]
      /\ flight' = [op |-> "step", input |-> inputs]
  BY DEF Launch, requests, buffers
<1>3. ~gen.failed /\ \A r \in Row : BusyRow(r) /\ LoopRow(r)
  BY <1>2 DEF PhaseInv, Working
<1>4. \A r \in Row : input(r) \in Seq(Token) /\ Len(input(r)) = V /\ input(r)[1] = target[r]
  <2> SUFFICES ASSUME NEW r \in Row PROVE input(r) \in Seq(Token) /\ Len(input(r)) = V /\ input(r)[1] = target[r]
    OBVIOUS
  <2>1. gen.next[r] = target[r] /\ target[r] \in Token
    BY <1>3 DEF LoopRow, BusyRow
  <2> DEFINE a == <<gen.next[r]>>
  <2>2. a \in Seq(Token) /\ Len(a) = 1 /\ a[1] = target[r]
    BY <2>1
  <2>3. drafts[r] \in Seq(Token) /\ Len(drafts[r]) = NumDrafts
    BY Constants
  <2> HIDE DEF a
  <2>4. a \o drafts[r] \in Seq(Token) /\ Len(a \o drafts[r]) = 1 + NumDrafts /\ (a \o drafts[r])[1] = a[1]
    <3>1. /\ a \o drafts[r] \in Seq(Token) /\ Len(a \o drafts[r]) = Len(a) + Len(drafts[r])
          /\ \A i \in 1..Len(a) : (a \o drafts[r])[i] = a[i]
      BY <2>2, <2>3, JoinFacts
    <3> QED
      BY <2>2, <2>3, <3>1
  <2> QED
    BY <2>2, <2>4, Constants DEF a
<1> HIDE DEF input
<1>5. flight'.op = "step" /\ \A r \in Row : flight'.input[r] = input(r)
  BY <1>2
<1>6. len' \in [Row -> Nat] /\ published' \in [Row -> Seq(Token)]
  BY <1>2, RowFacts, Constants DEF TypeOK
<1>7. TypeOK'
  BY <1>1, <1>2, <1>6, TypeSame
<1>8. \A r \in Row : BusyRow(r)' /\ Full(r)' = Full(r)
  BY <1>1, <1>2, <1>3, BusySame
<1>9. ASSUME NEW r \in Row PROVE StepRow(r)'
  <2>1. LoopRow(r) /\ Full(r)' = Full(r) /\ len'[r] = gen.committed[r] + V /\ len'[r] <= MaxLen
    BY <1>2, <1>3, <1>8
  <2>2. /\ gen'.next[r] = target'[r] /\ len'[r] = gen'.committed[r] + V /\ len'[r] <= MaxLen
        /\ Len(prompt'[r]) <= Len(history'[r])
        /\ seed'[gen'.seedRows[r]] = Full(r)'
    BY <1>1, <1>2, <2>1 DEF LoopRow
  <2>3. IF gen'.pending = Nothing THEN prompt'[r] \o published'[r] = Full(r)'
        ELSE prompt'[r] \o (published'[r] \o gen'.pending[r]) = Full(r)'
    BY <1>1, <1>2, <2>1 DEF LoopRow
  <2> QED
    BY <1>2, <1>4, <1>5, <2>2, <2>3 DEF StepRow
<1> QED
  BY <1>1, <1>3, <1>5, <1>7, <1>8, <1>9 DEF PhaseInv, Working, Dropped

\* A row whose last token has run again.
LEMMA ReplayedRow ==
  ASSUME MtpAssumption, IInv, gen.phase = "starting", flight.op = "none", NEW r \in Row
  PROVE  LET text == Append(Full(r), gen.next[r])
         IN /\ Full(r) \in Seq(Token) /\ Len(Full(r)) = Len(history[r]) + 1 /\ len[r] = Len(Full(r))
            /\ text \in Seq(Token) /\ gen.next[r] \in Token
            /\ Right(Full(r), prompt[r]) /\ Right(text, prompt[r])
            /\ KvOf(kv[r], Full(r), len[r]) /\ MtpOf(mtpKv[r], text, len[r])
<1> USE DEF IInv
<1> DEFINE n == Len(history[r])
           a == Full(r)
           b == Append(a, gen.next[r])
<1>1. BusyRow(r) /\ StartingRow(r) /\ target[r] \in Token /\ gen.next[r] \in Token
  BY DEF PhaseInv, Working, BusyRow, StartingRow
<1>2. /\ history[r] \in Seq(Token) /\ n \in Nat /\ a \in Seq(Token) /\ Len(a) = n + 1
      /\ Begins(history[r], a)
  BY <1>1, FullFacts, RowFacts
<1>3. b \in Seq(Token) /\ Len(b) = n + 2 /\ Begins(a, b) /\ b[n + 2] = gen.next[r] /\ SubSeq(b, 1, n + 1) = a
  <2>1. b \in Seq(Token) /\ Len(b) = Len(a) + 1 /\ Begins(a, b) /\ b[Len(a) + 1] = gen.next[r] /\ SubSeq(b, 1, Len(a)) = a
    BY <1>1, <1>2, AppendFacts
  <2>2. Len(a) + 1 = n + 2
    BY <1>2
  <2> QED
    BY <1>2, <2>1, <2>2
<1>4. /\ gen.committed[r] = n /\ len[r] = n + 1
      /\ gen.next[r] = Selects(a) /\ Len(prompt[r]) <= n + 1
      /\ kv[r][n + 1] = a /\ mtpKv[r][n + 1] = b
  BY <1>1, <1>2 DEF StartingRow, BusyRow
<1>5. Right(a, prompt[r]) /\ KvOf(kv[r], history[r], n) /\ MtpOf(mtpKv[r], a, n)
  BY <1>1 DEF BusyRow
<1> HIDE DEF a, b, n
<1>6. Right(b, prompt[r])
  <2>1. \A p \in (Len(a) + 1)..Len(b) : p = n + 2 /\ p - 1 = n + 1
    BY <1>2, <1>3
  <2>2. \A p \in (Len(a) + 1)..Len(b) : b[p] = Selects(SubSeq(b, 1, p - 1))
    BY <1>3, <1>4, <2>1
  <2> QED
    BY <1>2, <1>3, <1>4, <1>5, <2>2, RightGrow, RowFacts
<1>7. KvOf(kv[r], a, n + 1)
  <2>1. KvOf(kv[r], a, n)
    BY <1>2, <1>5, KvGrow DEF n
  <2>2. SubSeq(a, 1, n + 1) = a
    BY <1>2, SubSeqFull
  <2>3. \A p \in 1..(n + 1) : p \in 1..n \/ p = n + 1
    BY <1>2
  <2> QED
    BY <1>4, <2>1, <2>2, <2>3 DEF KvOf
<1>8. MtpOf(mtpKv[r], b, n + 1)
  <2>1. MtpOf(mtpKv[r], b, n)
    BY <1>2, <1>3, <1>5, MtpGrow
  <2>2. SubSeq(b, 1, (n + 1) + 1) = b
    BY <1>2, <1>3, SubSeqFull
  <2>3. \A p \in 1..(n + 1) : p \in 1..n \/ p = n + 1
    BY <1>2
  <2> QED
    BY <1>4, <2>1, <2>2, <2>3 DEF MtpOf
<1> QED
  BY <1>1, <1>2, <1>3, <1>4, <1>5, <1>6, <1>7, <1>8 DEF a, b, n

\* The replayed token is reported, and drafts may start; or of some rows.
LEMMA StartedInv ==
  ASSUME MtpAssumption, IInv, Started
  PROVE  IInv'
<1> USE DEF IInv
<1>1. PICK reported \in 0..Rows :
        /\ history' = [r \in Row |-> IF r <= reported THEN Append(history[r], target[r]) ELSE history[r]]
        /\ target' = [r \in Row |-> IF r <= reported THEN gen.next[r] ELSE target[r]]
        /\ gen' = IF reported = Rows THEN [gen EXCEPT !.phase = "loop", !.speculative = FALSE, !.committed = len]
                  ELSE Failing
  BY DEF Started
<1>2. /\ gen.phase = "starting" /\ flight.op = "none"
      /\ UNCHANGED <<len, prompt, todo, published, kv, mtpKv, seed, result, flight, device>>
  BY DEF Started, requests, buffers
<1>3. ~gen.failed /\ gen.speculative /\ gen.pending = Nothing /\ \A r \in Row : BusyRow(r) /\ StartingRow(r)
  BY <1>2 DEF PhaseInv, Working
<1>4. \A r \in Row : r <= reported => history'[r] = Full(r) /\ target'[r] = gen.next[r]
  BY <1>1 DEF Full
<1>5. \A r \in Row : ~(r <= reported) => history'[r] = history[r] /\ target'[r] = target[r]
  BY <1>1
<1>6. gen' \in GenType
  BY <1>1, EndGen, StartedGen
<1>7. TypeOK'
  <2>1. \A r \in Row : history'[r] \in Seq(Token) /\ target'[r] \in Token \cup {None}
    BY <1>2, <1>4, <1>5, ReplayedRow, RowFacts
  <2>2. /\ history' = [r \in Row |-> history'[r]] /\ DOMAIN history' = Row
        /\ target' = [r \in Row |-> target'[r]] /\ DOMAIN target' = Row
    BY <1>1
  <2>3. history' \in [Row -> Seq(Token)] /\ target' \in [Row -> Token \cup {None}]
    BY <2>1, <2>2
  <2> QED
    BY <1>2, <1>6, <2>3 DEF TypeOK
<1>8. CASE reported = Rows
  <2>1. /\ gen'.phase = "loop" /\ gen'.speculative = FALSE /\ gen'.committed = len
        /\ gen'.pending = gen.pending /\ gen'.failed = gen.failed /\ gen'.next = gen.next
        /\ gen'.seedRows = gen.seedRows
    BY <1>1, <1>8, StartedGen
  <2>2. ASSUME NEW r \in Row PROVE BusyRow(r)' /\ LoopRow(r)'
    <3> DEFINE a == Full(r)
               b == Append(a, gen.next[r])
    <3>1. /\ a \in Seq(Token) /\ len[r] = Len(a) /\ gen.next[r] \in Token /\ Right(b, prompt[r])
          /\ KvOf(kv[r], a, len[r]) /\ MtpOf(mtpKv[r], b, len[r])
      BY <1>2, ReplayedRow
    <3>2. history'[r] = a /\ target'[r] = gen.next[r]
      BY <1>4, <1>8, RowFacts
    <3>3. Full(r)' = b
      BY <3>2 DEF Full
    <3>4. /\ len[r] + V <= MaxLen /\ len[r] <= MaxLen /\ Len(prompt[r]) <= len[r]
          /\ prompt[r] \o published[r] = b /\ seed[gen.seedRows[r]] = b /\ todo[r] = Nothing
      <4>1. len[r] + V <= MaxLen /\ Len(prompt[r]) <= len[r] /\ todo[r] = Nothing
            /\ prompt[r] \o published[r] = b /\ seed[gen.seedRows[r]] = b
        BY <1>2, <1>3 DEF StartingRow, BusyRow
      <4>2. len[r] <= MaxLen
        <5>1. len[r] \in Nat /\ V \in Nat /\ MaxLen \in Nat
          BY RowFacts, Constants
        <5> HIDE DEF V
        <5> QED
          BY <4>1, <5>1
      <4> QED
        BY <4>1, <4>2
    <3> HIDE DEF a, b
    <3>5. BusyRow(r)'
      BY <1>2, <2>1, <3>1, <3>2, <3>3, <3>4 DEF BusyRow
    <3>6. LoopRow(r)'
      BY <1>2, <1>3, <2>1, <3>1, <3>2, <3>3, <3>4 DEF LoopRow
    <3> QED
      BY <3>5, <3>6
  <2> QED
    BY <1>2, <1>3, <1>7, <2>1, <2>2 DEF PhaseInv, Working, Dropped
<1>9. CASE reported # Rows
  <2>1. /\ gen'.phase = "closing" /\ gen'.committed = gen.committed /\ gen'.failed = TRUE
        /\ gen'.speculative = gen.speculative
    BY <1>1, <1>9, EndGen
  <2>2. ASSUME NEW r \in Row PROVE PartRow(r)'
    <3> DEFINE n == Len(history[r])
    <3>1. /\ Len(Full(r)) = n + 1 /\ len[r] = Len(Full(r)) /\ Right(Full(r), prompt[r]) /\ n \in Nat
          /\ Right(Append(Full(r), gen.next[r]), prompt[r]) /\ KvOf(kv[r], Full(r), len[r])
      BY <1>2, ReplayedRow, RowFacts
    <3>2. gen.committed[r] = n /\ todo[r] = Nothing /\ SoundRow(r)
      BY <1>3, BusySound DEF BusyRow
    <3> HIDE DEF n
    <3>3. CASE r <= reported
      <4>1. history'[r] = Full(r) /\ Full(r)' = Append(Full(r), gen.next[r])
        BY <1>4, <3>3 DEF Full
      <4> QED
        BY <1>2, <2>1, <3>1, <3>2, <4>1 DEF PartRow, SoundRow
    <3>4. CASE ~(r <= reported)
      <4>1. history'[r] = history[r] /\ target'[r] = target[r]
        BY <1>5, <3>4
      <4>2. SoundRow(r)'
        BY <1>2, <3>2, <4>1, SoundSame
      <4> QED
        BY <1>2, <2>1, <3>1, <3>2, <4>1, <4>2 DEF PartRow, n
    <3> QED
      BY <3>3, <3>4
  <2> QED
    BY <1>2, <1>3, <1>7, <2>1, <2>2 DEF PhaseInv, ClosingInv, Working, Dropped
<1> QED
  BY <1>8, <1>9

\* Every row with its last token taken back, which is its next token again.
LEMMA TakenBack ==
  ASSUME MtpAssumption, IInv, CanStart, gen'.committed = [r \in Row |-> len[r] - 1],
         history' = [r \in Row |-> Front(history[r])], target' = [r \in Row |-> Last(history[r])],
         UNCHANGED <<prompt, todo, kv, mtpKv>>
  PROVE  /\ history' \in [Row -> Seq(Token)] /\ target' \in [Row -> Token \cup {None}]
         /\ \A r \in Row : /\ BusyRow(r)' /\ Full(r)' = history[r] /\ Len(history[r]) = len[r]
                          /\ gen'.committed[r] = len[r] - 1 /\ len[r] - 1 \in Nat /\ len[r] + V <= MaxLen
                          /\ target[r] = Selects(history[r]) /\ target[r] \in Token /\ Told(r)
<1> USE DEF IInv
<1>1. \A r \in Row : /\ IdleRow(r) /\ todo[r] = Nothing /\ history[r] # Nothing
                    /\ len[r] = Len(history[r]) /\ len[r] + V <= MaxLen
  BY DEF CanStart, PhaseInv
<1>2. ASSUME NEW r \in Row
      PROVE  /\ history'[r] \in Seq(Token) /\ target'[r] \in Token
             /\ BusyRow(r)' /\ Full(r)' = history[r] /\ Len(history[r]) = len[r]
             /\ gen'.committed[r] = len[r] - 1 /\ len[r] - 1 \in Nat /\ len[r] + V <= MaxLen
             /\ target[r] = Selects(history[r]) /\ target[r] \in Token /\ Told(r)
  <2> DEFINE a == history[r]
             n == Len(a) - 1
             f == SubSeq(a, 1, n)
             b == Full(r)
  <2>1. a \in Seq(Token) /\ Len(a) \in Nat \ {0} /\ target[r] \in Token
    BY <1>1, RowFacts, EmptySeq DEF IdleRow, Nothing
  <2>2. n \in Nat /\ n + 1 = Len(a) /\ n < Len(a) /\ n + 1 \in 1..Len(a)
    BY <2>1
  <2>3. f \in Seq(Token) /\ Len(f) = n /\ Begins(f, a)
    BY <2>1, <2>2, SubFacts
  <2>4. history'[r] = f /\ target'[r] = a[n + 1]
    BY <2>2 DEF Front, Last
  <2>5. a[n + 1] \in Token
    BY <2>1, <2>2, ElementOfSeq
  <2>6. Full(r)' = a
    <3>1. Append(f, a[n + 1]) = SubSeq(a, 1, n + 1)
      BY <2>1, <2>2, SubNext
    <3>2. SubSeq(a, 1, n + 1) = a
      BY <2>1, <2>2, SubSeqFull
    <3> QED
      BY <2>4, <3>1, <3>2 DEF Full
  <2>7. b \in Seq(Token) /\ Len(b) = Len(a) + 1 /\ Begins(a, b) /\ b[Len(a) + 1] = target[r] /\ SubSeq(b, 1, Len(a)) = a
    BY <2>1, FullFacts
  <2>8. /\ len[r] = Len(a) /\ len[r] + V <= MaxLen /\ len[r] <= MaxLen
        /\ KvOf(kv[r], a, Len(a)) /\ MtpOf(mtpKv[r], a, n)
        /\ Right(b, prompt[r]) /\ Len(prompt[r]) <= Len(a) /\ Told(r)
    BY <1>1 DEF IdleRow, Told
  <2>9. todo'[r] = Nothing /\ prompt' = prompt /\ kv' = kv /\ mtpKv' = mtpKv /\ gen'.committed[r] = len[r] - 1
    BY <1>1
  <2> HIDE DEF a, n, f, b
  <2>10. gen'.committed[r] = n /\ n <= MaxLen /\ len[r] = n + 1 /\ len[r] - 1 \in Nat
    BY <2>2, <2>8, <2>9, Constants
  <2>11. Right(a, prompt[r])
    BY <2>1, <2>7, <2>8, RightCut
  <2>12. KvOf(kv[r], f, n)
    <3>1. \A p \in 1..n : p \in 1..Len(a)
      BY <2>2
    <3>2. KvOf(kv[r], a, n)
      BY <2>8, <3>1 DEF KvOf
    <3> QED
      BY <2>1, <2>2, <2>3, <3>2, KvGrow
  <2>13. target[r] = Selects(a)
    <3>1. Len(a) + 1 \in 1..Len(b) /\ (Len(a) + 1) - 1 = Len(a) /\ Len(prompt[r]) \in Nat
      BY <2>1, <2>7, RowFacts
    <3>2. ~(Len(a) + 1 <= Len(prompt[r]))
      BY <2>1, <2>8, <3>1
    <3>3. b[Len(a) + 1] = Selects(SubSeq(b, 1, (Len(a) + 1) - 1))
      BY <2>8, <3>1, <3>2 DEF Right
    <3> QED
      BY <2>7, <3>1, <3>3
  <2>14. BusyRow(r)'
    BY <2>3, <2>4, <2>5, <2>6, <2>9, <2>10, <2>11, <2>12, <2>8 DEF BusyRow
  <2>15. len[r] = Len(a) /\ len[r] + V <= MaxLen
    BY <2>8
  <2> QED
    BY <2>1, <2>3, <2>4, <2>5, <2>6, <2>8, <2>9, <2>10, <2>13, <2>14, <2>15 DEF a
<1>3. /\ history' = [r \in Row |-> history'[r]] /\ DOMAIN history' = Row
      /\ target' = [r \in Row |-> target'[r]] /\ DOMAIN target' = Row
  OBVIOUS
<1>4. history' \in [Row -> Seq(Token)] /\ target' \in [Row -> Token \cup {None}]
  BY <1>2, <1>3
<1> QED
  BY <1>2, <1>4

\* The last committed token is taken back and run again.
LEMMA StartInv ==
  ASSUME MtpAssumption, IInv, Start
  PROVE  IInv'
<1> USE DEF IInv
<1>1. /\ gen' \in GenType
      /\ gen'.phase = "starting" /\ gen'.speculative = TRUE /\ gen'.pending = Nothing /\ gen'.failed = FALSE
      /\ gen'.next = target /\ gen'.committed = [r \in Row |-> len[r] - 1]
      /\ gen'.seedRows = [r \in Row |-> r - 1]
  BY StartGen DEF Start
<1> DEFINE inputs == [r \in Row |-> <<Last(history[r])>>]
<1>2. /\ CanStart
      /\ history' = [r \in Row |-> Front(history[r])]
      /\ target' = [r \in Row |-> Last(history[r])]
      /\ UNCHANGED <<len, prompt, todo, published, kv, mtpKv, seed, result, device>>
  BY DEF Start, requests, buffers
<1>3. flight'.op = "replay" /\ flight'.input = inputs
  BY DEF Start
<1>4. /\ history' \in [Row -> Seq(Token)] /\ target' \in [Row -> Token \cup {None}]
      /\ \A r \in Row : /\ BusyRow(r)' /\ Full(r)' = history[r] /\ Len(history[r]) = len[r]
                       /\ gen'.committed[r] = len[r] - 1 /\ len[r] - 1 \in Nat /\ len[r] + V <= MaxLen
                       /\ target[r] = Selects(history[r]) /\ target[r] \in Token /\ Told(r)
  BY <1>1, <1>2, TakenBack
<1>5. ASSUME NEW r \in Row PROVE StartingRow(r)'
  <2>1. /\ gen'.next[r] = target[r] /\ gen'.seedRows[r] = r - 1 /\ flight'.input[r] = <<target'[r]>>
        /\ len'[r] = len[r] /\ prompt' = prompt /\ published' = published
    BY <1>1, <1>2, <1>3
  <2>2. len[r] = (len[r] - 1) + 1 /\ Full(r) = Append(history[r], target[r])
    BY RowFacts DEF Full
  <2> QED
    BY <1>3, <1>4, <2>1, <2>2 DEF StartingRow, Told
<1>6. TypeOK'
  BY <1>1, <1>2, <1>4 DEF TypeOK
<1> QED
  BY <1>1, <1>3, <1>4, <1>5, <1>6 DEF PhaseInv, Working, Dropped

\* Truncation by one token, of some rows.
LEMMA RewindSound ==
  ASSUME MtpAssumption, IInv, gen.phase = "idle", NEW cut \in SUBSET Row, NEW torn \in SUBSET Row, Rewind(cut, torn),
         \A r \in cut \cup torn : history[r] # Nothing, UNCHANGED <<prompt, todo, kv>>
  PROVE  /\ history' \in [Row -> Seq(Token)] /\ len' \in [Row -> Nat] /\ target' \in [Row -> Token \cup {None}]
         /\ \A r \in Row : SoundRow(r)'
<1> USE DEF IInv
<1>1. ASSUME NEW r \in Row
      PROVE  history'[r] \in Seq(Token) /\ len'[r] \in Nat /\ target'[r] \in Token \cup {None} /\ SoundRow(r)'
  <2> DEFINE a == history[r]
             n == IF r \in cut THEN Len(a) - 1 ELSE Len(a)
  <2>1. IdleRow(r) /\ SoundRow(r) /\ a \in Seq(Token) /\ len[r] = Len(a) /\ Len(a) \in Nat
    BY SoundRows, RowFacts DEF PhaseInv, IdleRow
  <2>2. kv'[r] = kv[r] /\ prompt'[r] = prompt[r] /\ todo'[r] = todo[r]
    OBVIOUS
  <2>3. CASE r \in cut \cup torn
    <3>1. /\ Len(a) - 1 \in Nat /\ Len(a) - 1 < Len(a) /\ Front(a) = SubSeq(a, 1, Len(a) - 1)
          /\ Last(a) = a[(Len(a) - 1) + 1] /\ Last(a) \in Token
      BY <2>1, <2>3, FrontFacts
    <3>2. n \in Nat /\ n <= Len(a) /\ len'[r] = Len(a) - 1 /\ target'[r] = Last(a)
      BY <2>1, <2>3, <3>1 DEF Rewind
    <3>3. history'[r] = SubSeq(a, 1, n)
      BY <2>1, <3>1, SubSeqFull DEF Rewind
    <3>4. (n < Len(a) /\ target'[r] = a[n + 1]) \/ len'[r] < n
      BY <2>1, <3>1, <3>2
    <3> HIDE DEF n
    <3> QED
      BY <2>1, <2>2, <3>1, <3>2, <3>3, <3>4, CutSound
  <2>4. CASE r \notin cut \cup torn
    <3>1. history'[r] = a /\ len'[r] = len[r] /\ target'[r] = target[r]
      BY <2>4 DEF Rewind
    <3>2. SoundRow(r)'
      BY <2>1, <2>2, <3>1, SoundSame
    <3> QED
      BY <2>1, <3>1, <3>2, RowFacts
  <2> QED
    BY <2>3, <2>4
<1>2. /\ history' = [r \in Row |-> history'[r]] /\ DOMAIN history' = Row
      /\ len' = [r \in Row |-> len'[r]] /\ DOMAIN len' = Row
      /\ target' = [r \in Row |-> target'[r]] /\ DOMAIN target' = Row
  BY DEF Rewind
<1>3. history' \in [Row -> Seq(Token)] /\ len' \in [Row -> Nat] /\ target' \in [Row -> Token \cup {None}]
  BY <1>1, <1>2
<1> QED
  BY <1>1, <1>3

\* An exception before the replay is launched.
LEMMA StartFailsInv ==
  ASSUME MtpAssumption, IInv, StartFails
  PROVE  IInv'
<1> USE DEF IInv
<1>1. /\ CanStart /\ gen.phase = "idle" /\ flight.op = "none" /\ \A r \in Row : history[r] # Nothing
      /\ UNCHANGED <<prompt, todo, published, kv, mtpKv, seed, result, flight, device>>
  <2>1. /\ CanStart /\ gen.phase = "idle" /\ \A r \in Row : history[r] # Nothing
        /\ UNCHANGED <<requests, buffers, flight, device>>
    BY DEF StartFails, CanStart
  <2>2. flight.op = "none"
    BY <2>1 DEF PhaseInv
  <2> QED
    BY <2>1, <2>2 DEF requests, buffers
<1>2. CASE RewindFails
  <2>0. PICK k \in Row, torn \in BOOLEAN : Rewind({r \in Row : r < k}, {r \in Row : r = k /\ torn})
    BY <1>2 DEF RewindFails
  <2>1. gen' \in GenType /\ gen'.phase = "failed"
    BY <1>2, NoGen DEF RewindFails, Dropped
  <2>2. /\ history' \in [Row -> Seq(Token)] /\ len' \in [Row -> Nat] /\ target' \in [Row -> Token \cup {None}]
        /\ \A r \in Row : SoundRow(r)'
    <3> DEFINE cuts == {r \in Row : r < k}
               tears == {r \in Row : r = k /\ torn}
    <3>1. /\ cuts \in SUBSET Row /\ tears \in SUBSET Row /\ Rewind(cuts, tears)
          /\ \A r \in cuts \cup tears : history[r] # Nothing
      BY <1>1, <2>0
    <3> HIDE DEF cuts, tears
    <3> QED
      BY <1>1, <3>1, RewindSound
  <2>3. TypeOK'
    BY <1>1, <2>1, <2>2 DEF TypeOK
  <2> QED
    BY <1>1, <2>1, <2>2, <2>3 DEF PhaseInv, Working
<1>3. CASE PlanFails
  <2>0. PICK speculative \in BOOLEAN, reserved \in SUBSET Row :
          /\ ~speculative => reserved = {}
          /\ history' = [r \in Row |-> Front(history[r])]
          /\ target' = [r \in Row |-> Last(history[r])]
          /\ len' = [r \in Row |-> IF r \in reserved THEN len[r] ELSE len[r] - 1]
          /\ gen' = [Starting EXCEPT !.phase = "closing", !.failed = TRUE, !.speculative = speculative]
    BY <1>3 DEF PlanFails
  <2>1. /\ gen' \in GenType /\ gen'.phase = "closing" /\ gen'.failed = TRUE /\ gen'.speculative = speculative
        /\ gen'.committed = [r \in Row |-> len[r] - 1]
    <3>1. Starting \in GenType /\ Starting.committed = [r \in Row |-> len[r] - 1]
      BY <1>1, StartGen
    <3> QED
      BY <2>0, <3>1 DEF GenType
  <2>2. /\ history' \in [Row -> Seq(Token)] /\ target' \in [Row -> Token \cup {None}]
        /\ \A r \in Row : BusyRow(r)' /\ gen'.committed[r] = len[r] - 1 /\ len[r] - 1 \in Nat
    BY <1>1, <2>0, <2>1, TakenBack
  <2>3. len' \in [Row -> Nat]
    BY <2>0, <2>2, RowFacts
  <2>4. TypeOK'
    BY <1>1, <2>1, <2>2, <2>3 DEF TypeOK
  <2>5. ASSUME NEW r \in Row PROVE ClosingRow(r)'
    <3>1. gen'.speculative \/ len'[r] = gen'.committed[r]
      BY <2>0, <2>1, <2>2
    <3> QED
      BY <1>1, <2>1, <3>1 DEF ClosingRow
  <2> QED
    BY <2>1, <2>2, <2>4, <2>5 DEF PhaseInv, ClosingInv, Working, Dropped
<1> QED
  BY <1>2, <1>3 DEF StartFails
-----------------------------------------------------------------------------
(* What the device runs                                                  *)

\* Rows of the carry buffer, by row of the batch and position of the step.
LEMMA SeedPlace ==
  ASSUME MtpAssumption, NEW r \in Row, NEW j \in 1..V
  PROVE  LET at == (r - 1) * V + (j - 1)
         IN at \in SeedRow /\ (at \div V) + 1 = r /\ (at % V) + 1 = j /\ at \in Nat
<1> DEFINE k == r - 1
           i == j - 1
<1>1. k \in Nat /\ k < Rows /\ i \in Nat /\ i < V /\ V \in Nat /\ V > 0 /\ Rows \in Nat /\ k + 1 = r /\ i + 1 = j
  BY Constants
<1>2. \A a, b, m, n \in Nat : n > 0 /\ b < n /\ a < m => /\ a * n + b \in 0..(m * n - 1) /\ a * n + b \in Nat
                                                         /\ (a * n + b) \div n = a /\ (a * n + b) % n = b
  BY SMTT(30)
<1> HIDE DEF k, i, V
<1>3. /\ k * V + i \in 0..(Rows * V - 1) /\ k * V + i \in Nat
      /\ (k * V + i) \div V = k /\ (k * V + i) % V = i
  BY <1>1, <1>2
<1>4. k * V + i \in SeedRow
  BY <1>3 DEF SeedRow
<1>5. ((k * V + i) \div V) + 1 = r /\ ((k * V + i) % V) + 1 = j
  BY <1>1, <1>3
<1> QED
  BY <1>3, <1>4, <1>5 DEF k, i

\* The row of the batch's r-th replayed token.
LEMMA ReplayPlace ==
  ASSUME MtpAssumption, NEW r \in Row
  PROVE  r - 1 \in SeedRow /\ (r - 1) + 1 = r
<1>1. \A m, n \in Nat : n > 0 => m <= m * n
  BY SMTT(30)
<1>2. Rows \in Nat /\ V \in Nat /\ V > 0 /\ r \in 1..Rows
  BY Constants
<1> HIDE DEF V
<1>3. Rows <= Rows * V /\ Rows * V \in Nat
  BY <1>1, <1>2
<1> DEFINE n == Rows * V
<1> HIDE DEF n
<1>4. r - 1 \in 0..(n - 1) /\ (r - 1) + 1 = r
  BY <1>2, <1>3 DEF n
<1> QED
  BY <1>4 DEF SeedRow, n

\* The contexts of tokens run after the history.
LEMMA StepContexts ==
  ASSUME MtpAssumption, TypeOK, NEW r \in Row, BusyRow(r), NEW tokens \in Seq(Token)
  PROVE  LET contexts == Contexts(r, gen.committed[r], tokens)
         IN /\ DOMAIN contexts = 1..Len(tokens)
            /\ \A j \in 1..Len(tokens) : contexts[j] = history[r] \o SubSeq(tokens, 1, j)
<1> DEFINE n == gen.committed[r]
<1>1. n \in Nat /\ n = Len(history[r]) /\ KvOf(kv[r], history[r], n) /\ history[r] \in Seq(Token)
  BY RowFacts DEF BusyRow
<1>2. SubSeq(history[r], 1, n) = history[r]
  BY <1>1, SubSeqFull
<1>3. n <= Len(history[r])
  BY <1>1
<1> HIDE DEF n
<1>4. /\ DOMAIN Contexts(r, n, tokens) = 1..Len(tokens)
      /\ \A j \in 1..Len(tokens) : Contexts(r, n, tokens)[j] = SubSeq(history[r], 1, n) \o SubSeq(tokens, 1, j)
  BY <1>1, <1>3, ContextsIs
<1> QED
  BY <1>2, <1>4 DEF n

\* What is written behind the committed tokens changes nothing of them.
LEMMA BehindCommitted ==
  ASSUME MtpAssumption, TypeOK, NEW r \in Row, BusyRow(r),
         UNCHANGED <<history, target, prompt, todo>>, gen' = gen,
         NEW k \in Nat, NEW a, NEW b, DOMAIN a = 1..k, DOMAIN b = 1..k,
         kv'[r] = Written(kv[r], gen.committed[r], a), mtpKv'[r] = Written(mtpKv[r], gen.committed[r], b)
  PROVE  /\ BusyRow(r)' /\ Full(r)' = Full(r)
         /\ DOMAIN kv'[r] = 1..MaxLen /\ DOMAIN mtpKv'[r] = 1..MaxLen
         /\ \A j \in 1..k : gen.committed[r] + j <= MaxLen =>
              kv'[r][gen.committed[r] + j] = a[j] /\ mtpKv'[r][gen.committed[r] + j] = b[j]
<1> DEFINE n == gen.committed[r]
<1>1. n \in Nat /\ n <= MaxLen /\ MaxLen \in Nat /\ DOMAIN kv[r] = 1..MaxLen /\ DOMAIN mtpKv[r] = 1..MaxLen
  BY RowFacts, Constants DEF BusyRow
<1>2. kv'[r] = Written(kv[r], n, a) /\ mtpKv'[r] = Written(mtpKv[r], n, b)
  OBVIOUS
<1>3. KvOf(kv[r], history[r], n) /\ MtpOf(mtpKv[r], Full(r), n)
  BY DEF BusyRow
<1> HIDE DEF n
<1>4. /\ DOMAIN kv'[r] = 1..MaxLen /\ \A p \in 1..MaxLen : p <= n => kv'[r][p] = kv[r][p]
      /\ \A j \in 1..k : n + j <= MaxLen => kv'[r][n + j] = a[j]
  BY <1>1, <1>2, WrittenIs
<1>5. /\ DOMAIN mtpKv'[r] = 1..MaxLen /\ \A p \in 1..MaxLen : p <= n => mtpKv'[r][p] = mtpKv[r][p]
      /\ \A j \in 1..k : n + j <= MaxLen => mtpKv'[r][n + j] = b[j]
  BY <1>1, <1>2, WrittenIs
<1>6. \A p \in 1..n : p \in 1..MaxLen /\ p <= n
  BY <1>1
<1>7. KvOf(kv'[r], history[r], n) /\ MtpOf(mtpKv'[r], Full(r), n)
  BY <1>3, <1>4, <1>5, <1>6 DEF KvOf, MtpOf
<1>8. Full(r)' = Full(r)
  BY DEF Full
<1>9. BusyRow(r)'
  BY <1>7, <1>8 DEF BusyRow, n
<1> QED
  BY <1>4, <1>5, <1>8, <1>9 DEF n

\* The replay has run.
LEMMA RunReplayInv ==
  ASSUME MtpAssumption, IInv, RunReplay
  PROVE  IInv'
<1> USE DEF IInv
<1> DEFINE con(r) == Contexts(r, gen.committed[r], flight.input[r])
           cons == [r \in Row |-> con(r)]
           shifted(r) == Shifted(con(r), <<gen.next[r]>>)
<1>1. /\ flight.op = "replay" /\ flight' = [op |-> "none"]
      /\ UNCHANGED <<history, len, target, prompt, todo, published, gen, result, device>>
      /\ kv' = [r \in Row |-> Written(kv[r], gen.committed[r], cons[r])]
      /\ mtpKv' = [r \in Row |-> Written(mtpKv[r], gen.committed[r], Shifted(cons[r], <<gen.next[r]>>))]
      /\ seed' = [row \in SeedRow |-> IF row + 1 \in Row THEN Shifted(cons[row + 1], <<gen.next[row + 1]>>)[1]
                                      ELSE seed[row]]
  BY DEF RunReplay, sequences, requests
<1>2. /\ gen.phase \in {"starting", "closing"} /\ \A r \in Row : BusyRow(r)
      /\ gen.phase = "closing" => \A r \in Row : ClosingRow(r)
  <2>1. gen.phase \in {"idle", "closing"} \cup Working \cup Dropped /\ device = "ok" /\ PhaseInv
    BY GenFacts DEF TypeOK, RunReplay
  <2>2. gen.phase \in {"starting", "closing"}
    BY <1>1, <2>1 DEF PhaseInv, Working
  <2> QED
    BY <1>1, <2>1, <2>2 DEF PhaseInv, ClosingInv, Working
<1>3. \A r \in Row : flight.input[r] \in Seq(Token)
  <2> SUFFICES ASSUME NEW r \in Row PROVE flight.input[r] \in Seq(Token)
    OBVIOUS
  <2>1. CASE gen.phase = "starting"
    <3>1. flight.input[r] = <<target[r]>> /\ target[r] \in Token
      BY <1>1, <1>2, <2>1 DEF PhaseInv, StartingRow, BusyRow
    <3> QED
      BY <3>1
  <2>2. CASE gen.phase = "closing"
    BY <1>1, <1>2, <2>2 DEF ClosingRow
  <2> QED
    BY <1>2, <2>1, <2>2
<1>4. ASSUME NEW r \in Row
      PROVE  /\ kv'[r] = Written(kv[r], gen.committed[r], con(r))
             /\ mtpKv'[r] = Written(mtpKv[r], gen.committed[r], shifted(r))
             /\ seed'[r - 1] = shifted(r)[1]
  <2>1. r - 1 \in SeedRow /\ (r - 1) + 1 = r
    BY ReplayPlace
  <2>2. cons[r] = con(r)
    OBVIOUS
  <2> HIDE DEF con, cons
  <2>3. /\ kv'[r] = Written(kv[r], gen.committed[r], cons[r])
        /\ mtpKv'[r] = Written(mtpKv[r], gen.committed[r], Shifted(cons[r], <<gen.next[r]>>))
    BY <1>1
  <2>4. seed'[r - 1] = Shifted(cons[r], <<gen.next[r]>>)[1]
    BY <1>1, <2>1
  <2> QED
    BY <2>2, <2>3, <2>4
<1>5. \A r \in Row : /\ DOMAIN con(r) = 1..Len(flight.input[r])
                     /\ \A j \in 1..Len(flight.input[r]) : con(r)[j] = history[r] \o SubSeq(flight.input[r], 1, j)
  BY <1>2, <1>3, StepContexts
<1>6. \A r \in Row : /\ DOMAIN shifted(r) = 1..Len(flight.input[r]) /\ Len(flight.input[r]) \in Nat
                     /\ \A j \in 1..Len(flight.input[r]) : shifted(r)[j] = Append(con(r)[j], <<gen.next[r]>>[j])
  <2> HIDE DEF con
  <2> QED
    BY <1>3, <1>5, LenProperties DEF Shifted
<1> HIDE DEF con, shifted, cons
<1>7. \A r \in Row :
        /\ BusyRow(r)' /\ Full(r)' = Full(r)
        /\ DOMAIN kv'[r] = 1..MaxLen /\ DOMAIN mtpKv'[r] = 1..MaxLen
        /\ \A j \in 1..Len(flight.input[r]) : gen.committed[r] + j <= MaxLen =>
             /\ kv'[r][gen.committed[r] + j] = con(r)[j]
             /\ mtpKv'[r][gen.committed[r] + j] = shifted(r)[j]
  <2> SUFFICES ASSUME NEW r \in Row
               PROVE  /\ BusyRow(r)' /\ Full(r)' = Full(r)
                      /\ DOMAIN kv'[r] = 1..MaxLen /\ DOMAIN mtpKv'[r] = 1..MaxLen
                      /\ \A j \in 1..Len(flight.input[r]) : gen.committed[r] + j <= MaxLen =>
                           /\ kv'[r][gen.committed[r] + j] = con(r)[j]
                           /\ mtpKv'[r][gen.committed[r] + j] = shifted(r)[j]
    OBVIOUS
  <2> DEFINE k == Len(flight.input[r])
  <2>1. k \in Nat /\ DOMAIN con(r) = 1..k /\ DOMAIN shifted(r) = 1..k /\ BusyRow(r)
    BY <1>2, <1>5, <1>6
  <2> HIDE DEF k
  <2>2. /\ BusyRow(r)' /\ Full(r)' = Full(r)
        /\ DOMAIN kv'[r] = 1..MaxLen /\ DOMAIN mtpKv'[r] = 1..MaxLen
        /\ \A j \in 1..k : gen.committed[r] + j <= MaxLen =>
             kv'[r][gen.committed[r] + j] = con(r)[j] /\ mtpKv'[r][gen.committed[r] + j] = shifted(r)[j]
    <3>1. UNCHANGED <<history, target, prompt, todo>> /\ gen' = gen
      BY <1>1
    <3>2. kv'[r] = Written(kv[r], gen.committed[r], con(r)) /\ mtpKv'[r] = Written(mtpKv[r], gen.committed[r], shifted(r))
      BY <1>4
    <3> QED
      BY <2>1, <3>1, <3>2, BehindCommitted
  <2> QED
    BY <2>2 DEF k
<1>8. TypeOK'
  BY <1>1, <1>7 DEF TypeOK
<1>9. flight'.op = "none"
  BY <1>1
<1>10. CASE gen.phase = "closing"
  <2>1. \A r \in Row : ClosingRow(r)
    BY <1>2, <1>10
  <2>2. \A r \in Row : ClosingRow(r)'
    BY <1>1, <1>7, <1>9, <2>1 DEF ClosingRow, Told
  <2> QED
    BY <1>1, <1>7, <1>8, <1>9, <1>10, <2>2 DEF PhaseInv, ClosingInv, Working, Dropped
<1>11. CASE gen.phase = "starting"
  <2>1. gen.speculative /\ gen.pending = Nothing /\ ~gen.failed /\ \A r \in Row : StartingRow(r)
    BY <1>11 DEF PhaseInv, Working
  <2>2. ASSUME NEW r \in Row PROVE StartingRow(r)'
    <3> DEFINE n == gen.committed[r]
               t == target[r]
    <3>1. /\ flight.input[r] = <<t>> /\ t \in Token /\ len[r] = n + 1 /\ len[r] + V <= MaxLen /\ StartingRow(r)
          /\ gen.seedRows[r] = r - 1
      BY <1>1, <1>2, <2>1 DEF StartingRow, BusyRow
    <3>2. n \in Nat /\ history[r] \in Seq(Token) /\ MaxLen \in Nat /\ V \in Nat
      BY RowFacts, Constants
    <3>3. Len(flight.input[r]) = 1 /\ 1 \in 1..Len(flight.input[r])
      BY <3>1
    <3>4. SubSeq(<<t>>, 1, 1) = <<t>>
      <4>1. <<t>> \in Seq(Token) /\ Len(<<t>>) = 1
        BY <3>1
      <4> QED
        BY <4>1, SubSeqFull
    <3>5. history[r] \o <<t>> = Full(r)
      BY <3>1, <3>2, AppendIsConcat DEF Full
    <3>6. con(r)[1] = Full(r)
      BY <1>5, <3>1, <3>3, <3>4, <3>5
    <3>7. shifted(r)[1] = Append(Full(r), gen.next[r])
      BY <1>6, <3>3, <3>6
    <3>8. n + 1 <= MaxLen
      BY <3>1, <3>2
    <3> HIDE DEF n, V
    <3>9. kv'[r][n + 1] = Full(r) /\ mtpKv'[r][n + 1] = Append(Full(r), gen.next[r])
      BY <1>7, <3>3, <3>6, <3>7, <3>8 DEF n
    <3>10. seed'[r - 1] = Append(Full(r), gen.next[r])
      BY <1>4, <3>7
    <3>11. Full(r)' = Full(r)
      BY <1>7
    <3> QED
      BY <1>1, <1>9, <3>1, <3>9, <3>10, <3>11 DEF StartingRow
  <2> QED
    BY <1>1, <1>7, <1>8, <1>9, <1>11, <2>1, <2>2 DEF PhaseInv, Working, Dropped
<1> QED
  BY <1>2, <1>10, <1>11

\* A step has run.
LEMMA RunStepInv ==
  ASSUME MtpAssumption, IInv, RunStep
  PROVE  IInv'
<1> USE DEF IInv
<1> DEFINE input(r) == flight.input[r]
           con(r) == Contexts(r, gen.committed[r], input(r))
           cons == [r \in Row |-> con(r)]
           sel(r) == Selected(con(r))
           sels == [r \in Row |-> Selected(cons[r])]
           shifted(r) == Shifted(con(r), sel(r))
           all == [r \in Row |-> Shifted(cons[r], sels[r])]
<1>1. /\ flight.op = "step" /\ flight' = [op |-> "none"]
      /\ UNCHANGED <<history, len, target, prompt, todo, published, gen, device>>
      /\ kv' = [r \in Row |-> Written(kv[r], gen.committed[r], cons[r])]
      /\ mtpKv' = [r \in Row |-> Written(mtpKv[r], gen.committed[r], all[r])]
      /\ seed' = [row \in SeedRow |-> all[(row \div V) + 1][(row % V) + 1]]
      /\ result' = [r \in Row |-> [input |-> flight.input[r], selected |-> sels[r]]]
  BY DEF RunStep, sequences, requests
<1>2. /\ gen.phase \in {"yielding", "waiting", "closing"} /\ \A r \in Row : BusyRow(r)
      /\ gen.phase = "closing" => \A r \in Row : ClosingRow(r)
  <2>1. gen.phase \in {"idle", "closing"} \cup Working \cup Dropped /\ device = "ok" /\ PhaseInv
    BY GenFacts DEF TypeOK, RunStep
  <2>2. gen.phase \in {"yielding", "waiting", "closing"}
    BY <1>1, <2>1 DEF PhaseInv, Working
  <2> QED
    BY <1>1, <2>1, <2>2 DEF PhaseInv, ClosingInv, Working
<1>3. \A r \in Row : input(r) \in Seq(Token) /\ Len(input(r)) \in Nat
  <2>1. CASE gen.phase = "closing"
    BY <1>1, <1>2, <2>1, LenProperties DEF ClosingRow
  <2>2. CASE gen.phase \in {"yielding", "waiting"}
    BY <1>1, <2>2, LenProperties DEF PhaseInv, StepRow
  <2> QED
    BY <1>2, <2>1, <2>2
<1>4. \A r \in Row : cons[r] = con(r) /\ sels[r] = sel(r) /\ all[r] = shifted(r)
  OBVIOUS
<1>5. \A r \in Row : /\ DOMAIN con(r) = 1..Len(input(r))
                     /\ \A j \in 1..Len(input(r)) : con(r)[j] = history[r] \o SubSeq(input(r), 1, j)
  BY <1>2, <1>3, StepContexts
<1>6. \A r \in Row : /\ DOMAIN shifted(r) = 1..Len(input(r))
                     /\ \A j \in 1..Len(input(r)) : /\ sel(r)[j] = Selects(con(r)[j])
                                                    /\ shifted(r)[j] = Append(con(r)[j], sel(r)[j])
  <2> HIDE DEF con, input
  <2> QED
    BY <1>5 DEF Selected, Shifted
<1>7. flight'.op = "none" /\ \A r \in Row : result'[r].input = input(r) /\ result'[r].selected = sel(r)
  BY <1>1, <1>4
<1> HIDE DEF input, con, cons, sel, sels, shifted, all
<1>8. \A r \in Row : /\ kv'[r] = Written(kv[r], gen.committed[r], con(r))
                     /\ mtpKv'[r] = Written(mtpKv[r], gen.committed[r], shifted(r))
  BY <1>1, <1>4
<1>9. \A r \in Row :
        /\ BusyRow(r)' /\ Full(r)' = Full(r)
        /\ DOMAIN kv'[r] = 1..MaxLen /\ DOMAIN mtpKv'[r] = 1..MaxLen
        /\ \A j \in 1..Len(input(r)) : gen.committed[r] + j <= MaxLen =>
             /\ kv'[r][gen.committed[r] + j] = con(r)[j]
             /\ mtpKv'[r][gen.committed[r] + j] = shifted(r)[j]
  BY <1>1, <1>2, <1>3, <1>5, <1>6, <1>8, BehindCommitted
<1>10. TypeOK'
  BY <1>1, <1>9 DEF TypeOK
<1>11. CASE gen.phase = "closing"
  <2>1. \A r \in Row : ClosingRow(r)
    BY <1>2, <1>11
  <2>2. \A r \in Row : ClosingRow(r)'
    BY <1>1, <1>7, <1>9, <2>1 DEF ClosingRow, Told
  <2> QED
    BY <1>1, <1>7, <1>9, <1>10, <1>11, <2>2 DEF PhaseInv, ClosingInv, Working, Dropped
<1>12. CASE gen.phase \in {"yielding", "waiting"}
  <2>1. /\ gen.speculative /\ ~gen.failed /\ \A r \in Row : StepRow(r)
        /\ gen.pending = Nothing <=> gen.phase = "waiting"
    BY <1>12 DEF PhaseInv, Working
  <2>2. ASSUME NEW r \in Row PROVE StepRow(r)'
    <3> DEFINE n == gen.committed[r]
    <3>1. /\ StepRow(r) /\ Len(input(r)) = V /\ input(r)[1] = target[r] /\ len[r] = n + V /\ len[r] <= MaxLen
          /\ Len(history[r]) = n
      BY <1>1, <1>2, <2>1 DEF StepRow, BusyRow, input
    <3>2. n \in Nat /\ V \in Nat /\ MaxLen \in Nat
      BY RowFacts, Constants
    <3>3. \A j \in 1..V : n + j <= MaxLen
      <4> HIDE DEF V, n
      <4> QED
        BY <3>1, <3>2
    <3> HIDE DEF n
    <3>4. ASSUME NEW j \in 1..V
          PROVE  LET context == history[r] \o SubSeq(input(r), 1, j)
                 IN /\ sel(r)[j] = Selects(context)
                    /\ kv'[r][n + j] = context
                    /\ mtpKv'[r][n + j] = Append(context, sel(r)[j])
                    /\ seed'[(r - 1) * V + (j - 1)] = Append(context, sel(r)[j])
      <4> DEFINE at == (r - 1) * V + (j - 1)
      <4>1. con(r)[j] = history[r] \o SubSeq(input(r), 1, j) /\ sel(r)[j] = Selects(con(r)[j])
            /\ shifted(r)[j] = Append(con(r)[j], sel(r)[j])
        BY <1>5, <1>6, <3>1
      <4>2. kv'[r][n + j] = con(r)[j] /\ mtpKv'[r][n + j] = shifted(r)[j]
        BY <1>9, <3>1, <3>3 DEF n
      <4>3. at \in SeedRow /\ (at \div V) + 1 = r /\ (at % V) + 1 = j
        BY SeedPlace
      <4> HIDE DEF at, V
      <4>4. seed'[at] = all[(at \div V) + 1][(at % V) + 1]
        BY <1>1, <4>3
      <4>5. seed'[at] = shifted(r)[j]
        BY <1>4, <4>3, <4>4
      <4> QED
        BY <4>1, <4>2, <4>5 DEF at
    <3>5. Ran(history[r], input(r), sel(r), kv'[r], mtpKv'[r], seed', (r - 1) * V)
      <4> HIDE DEF V
      <4> QED
        BY <1>3, <3>1, <3>4 DEF Ran
    <3>6. Full(r)' = Full(r)
      BY <1>9
    <3> QED
      BY <1>1, <1>7, <3>1, <3>5, <3>6 DEF StepRow
  <2> QED
    BY <1>1, <1>7, <1>9, <1>10, <1>12, <2>1, <2>2 DEF PhaseInv, Working, Dropped
<1> QED
  BY <1>2, <1>11, <1>12
-----------------------------------------------------------------------------
(* What is committed                                                     *)

\* A set of naturals that is not empty has a least member.
LEMMA LeastMember ==
  ASSUME NEW S \in SUBSET Nat, S # {}
  PROVE  \E m \in S : \A n \in S : m <= n
<1>1. PICK m \in S : \A n \in S : ~(<<n, m>> \in OpToRel(<, Nat))
  BY NatLessThanWellFounded, WFMin
<1>2. \A n \in S : ~(n < m)
  <2> SUFFICES ASSUME NEW n \in S, n < m PROVE FALSE
    OBVIOUS
  <2>1. <<n, m>> \in Nat \X Nat /\ n < m
    OBVIOUS
  <2>2. <<n, m>> \in OpToRel(<, Nat)
    BY <2>1 DEF OpToRel
  <2> QED
    BY <1>1, <2>2
<1> QED
  BY <1>2

\* Drafts are accepted up to the first the model did not select.
LEMMA AcceptedFacts ==
  ASSUME MtpAssumption, NEW input, NEW selected
  PROVE  LET n == Accepted(input, selected)
         IN n \in 0..NumDrafts /\ \A d \in 1..n : input[d + 1] = selected[d]
<1> DEFINE Stops(n) == n < NumDrafts => input[n + 2] # selected[n + 1]
           S == {n \in 0..NumDrafts : Stops(n)}
<1>1. NumDrafts \in Nat
  BY Constants
<1>2. NumDrafts \in S /\ S \in SUBSET Nat
  BY <1>1
<1>3. PICK m \in S : \A n \in S : m <= n
  <2> HIDE DEF S
  <2> QED
    BY <1>2, LeastMember
<1>4. m \in 0..NumDrafts /\ Stops(m)
  OBVIOUS
<1>5. ASSUME NEW d \in 1..m PROVE input[d + 1] = selected[d]
  <2>1. d - 1 \in 0..NumDrafts /\ ~(m <= d - 1) /\ (d - 1) + 2 = d + 1 /\ (d - 1) + 1 = d /\ d - 1 < NumDrafts
    BY <1>1, <1>4
  <2>2. d - 1 \notin S
    <3> HIDE DEF S
    <3> QED
      BY <1>3, <2>1
  <2> QED
    BY <2>1, <2>2
<1>6. \E n \in 0..NumDrafts : (\A d \in 1..n : input[d + 1] = selected[d]) /\ Stops(n)
  BY <1>4, <1>5
<1> QED
  BY <1>6 DEF Accepted

\* A row after a step of which a drafts have been accepted.
LEMMA CommittedRow ==
  ASSUME MtpAssumption, TypeOK, NEW r \in Row, BusyRow(r), StepRow(r), flight.op = "none", gen.pending = Nothing,
         NEW a \in 0..NumDrafts, \A d \in 1..a : result[r].input[d + 1] = result[r].selected[d]
  PROVE  LET text == history[r] \o SubSeq(result[r].input, 1, a + 1)
             next == result[r].selected[a + 1]
             told == Append(SubSeq(result[r].input, 2, a + 1), next)
         IN /\ text \in Seq(Token) /\ Len(text) = gen.committed[r] + a + 1 /\ Len(text) <= MaxLen
            /\ next \in Token /\ Right(Append(text, next), prompt[r]) /\ Len(prompt[r]) <= Len(text)
            /\ KvOf(kv[r], text, Len(text)) /\ MtpOf(mtpKv[r], Append(text, next), Len(text))
            /\ seed[(r - 1) * V + a] = Append(text, next)
            /\ told \in Seq(Token) /\ prompt[r] \o (published[r] \o told) = Append(text, next)
<1> DEFINE h == history[r]
           n == Len(h)
           t == target[r]
           input == result[r].input
           sel == result[r].selected
           some(j) == SubSeq(input, 1, j)
           ctx(j) == h \o some(j)
           text == ctx(a + 1)
           next == sel[a + 1]
           full == Append(text, next)
           rest == SubSeq(input, 2, a + 1)
           told == Append(rest, next)
           k == a + 1
<1>1. /\ h \in Seq(Token) /\ n \in Nat /\ t \in Token /\ n = gen.committed[r]
      /\ prompt[r] \in Seq(Token) /\ published[r] \in Seq(Token) /\ Len(prompt[r]) \in Nat /\ Len(prompt[r]) <= n
  BY RowFacts DEF BusyRow, StepRow
<1>2. /\ V \in Nat /\ V = NumDrafts + 1 /\ MaxLen \in Nat /\ n + V <= MaxLen /\ NumDrafts \in Nat
  BY <1>1, Constants DEF StepRow
<1>3. /\ Right(Full(r), prompt[r]) /\ KvOf(kv[r], h, n) /\ MtpOf(mtpKv[r], Full(r), n)
      /\ prompt[r] \o published[r] = Full(r)
  BY <1>1 DEF BusyRow, StepRow
<1>4. /\ input \in Seq(Token) /\ Len(input) = V /\ input[1] = t
      /\ \A j \in 1..V : /\ sel[j] = Selects(ctx(j))
                         /\ kv[r][n + j] = ctx(j)
                         /\ mtpKv[r][n + j] = Append(ctx(j), sel[j])
                         /\ seed[(r - 1) * V + (j - 1)] = Append(ctx(j), sel[j])
  BY DEF StepRow, Ran
<1>5. \A d \in 1..a : input[d + 1] = sel[d]
  OBVIOUS
<1>6. /\ k \in Nat /\ k \in 1..V /\ a \in Nat /\ k <= V /\ k = a + 1 /\ (a + 1) - 1 = a /\ k <= Len(input)
      /\ n \in Nat /\ V \in Nat /\ MaxLen \in Nat /\ n + V <= MaxLen
  BY <1>1, <1>2, <1>4
<1>7. /\ Full(r) \in Seq(Token) /\ Len(Full(r)) = n + 1 /\ Begins(h, Full(r)) /\ Full(r)[n + 1] = t
      /\ \A i \in 1..n : Full(r)[i] = h[i]
  BY <1>1, FullFacts
<1>8. seed[(r - 1) * V + a] = full
  BY <1>4, <1>6
<1> HIDE DEF V
<1>9. \A j \in 1..V : /\ some(j) \in Seq(Token) /\ Len(some(j)) = j /\ j \in Nat
                      /\ \A i \in 1..j : some(j)[i] = input[i]
  BY <1>2, <1>4, SubFacts
<1> HIDE DEF some
<1>10. \A j \in 1..V : /\ ctx(j) \in Seq(Token) /\ Len(ctx(j)) = n + j
                       /\ \A i \in 1..n : ctx(j)[i] = h[i]
                       /\ \A i \in 1..j : ctx(j)[n + i] = input[i]
  <2> SUFFICES ASSUME NEW j \in 1..V
               PROVE  /\ ctx(j) \in Seq(Token) /\ Len(ctx(j)) = n + j
                      /\ \A i \in 1..n : ctx(j)[i] = h[i]
                      /\ \A i \in 1..j : ctx(j)[n + i] = input[i]
    OBVIOUS
  <2>1. some(j) \in Seq(Token) /\ Len(some(j)) = j /\ \A i \in 1..j : some(j)[i] = input[i]
    BY <1>9
  <2>2. /\ h \o some(j) \in Seq(Token) /\ Len(h \o some(j)) = n + Len(some(j))
        /\ \A i \in 1..n : (h \o some(j))[i] = h[i]
        /\ \A i \in 1..Len(some(j)) : (h \o some(j))[n + i] = some(j)[i]
    BY <1>1, <2>1, JoinFacts
  <2> QED
    BY <2>1, <2>2
<1> HIDE DEF ctx, h, t, input, sel, n, k
<1>11. /\ text \in Seq(Token) /\ Len(text) = n + k
       /\ \A i \in 1..n : text[i] = h[i]
       /\ \A i \in 1..k : text[n + i] = input[i]
  BY <1>6, <1>10
<1>12. next \in Token /\ next = Selects(text)
  <2>1. next = Selects(text)
    BY <1>4, <1>6
  <2>2. Len(text) \in 1..MaxLen
    BY <1>6, <1>11
  <2> QED
    BY <1>11, <2>1, <2>2, Constants
<1> HIDE DEF text, next
<1>13. /\ full \in Seq(Token) /\ Len(full) = n + k + 1 /\ Begins(text, full) /\ full[n + k + 1] = next
       /\ (\A i \in 1..(n + k) : full[i] = text[i]) /\ SubSeq(full, 1, n + k) = text
  <2>1. /\ full \in Seq(Token) /\ Len(full) = Len(text) + 1 /\ Begins(text, full) /\ full[Len(text) + 1] = next
        /\ (\A i \in 1..Len(text) : full[i] = text[i]) /\ SubSeq(full, 1, Len(text)) = text
    BY <1>11, <1>12, AppendFacts
  <2> QED
    BY <1>11, <2>1
<1> HIDE DEF full
<1>14. n + k \in Nat /\ n + k <= MaxLen
  BY <1>6
<1>15. \A j \in 1..k : SubSeq(text, 1, n + j) = ctx(j)
  <2> SUFFICES ASSUME NEW j \in 1..k PROVE SubSeq(text, 1, n + j) = ctx(j)
    OBVIOUS
  <2>1. j \in 1..V /\ j \in Nat /\ n + j \in Nat /\ n + j <= n + k /\ j <= k
    BY <1>6
  <2>2. /\ ctx(j) \in Seq(Token) /\ Len(ctx(j)) = n + j
        /\ \A i \in 1..n : ctx(j)[i] = h[i]
        /\ \A i \in 1..j : ctx(j)[n + i] = input[i]
    BY <1>10, <2>1
  <2> DEFINE c == ctx(j)
             s == SubSeq(text, 1, n + j)
             m == n + j
  <2>3. s \in Seq(Token) /\ Len(s) = m /\ \A i \in 1..m : s[i] = text[i]
    BY <1>11, <2>1, SubFacts
  <2> HIDE DEF c, s
  <2>4. \A i \in 1..m : s[i] = c[i]
    <3> SUFFICES ASSUME NEW i \in 1..m PROVE s[i] = c[i]
      OBVIOUS
    <3>1. CASE i <= n
      <4>1. i \in 1..n
        BY <1>1, <3>1
      <4> QED
        BY <1>11, <2>2, <2>3, <4>1 DEF c
    <3>2. CASE ~(i <= n)
      <4>1. i - n \in 1..j /\ i - n \in 1..k /\ n + (i - n) = i
        BY <1>6, <2>1, <3>2
      <4>2. text[n + (i - n)] = input[i - n] /\ c[n + (i - n)] = input[i - n]
        BY <1>11, <2>2, <4>1 DEF c
      <4> QED
        BY <2>3, <4>1, <4>2
    <3> QED
      BY <3>1, <3>2
  <2>5. c \in Seq(Token) /\ Len(c) = m
    BY <2>2 DEF c
  <2>6. s = c
    <3> HIDE DEF m
    <3> QED
      BY <2>3, <2>4, <2>5, SeqEqual
  <2> QED
    BY <2>6 DEF s, c
<1>16. \A j \in 1..k : Append(ctx(j), sel[j]) = SubSeq(full, 1, n + j + 1)
  <2> SUFFICES ASSUME NEW j \in 1..k PROVE Append(ctx(j), sel[j]) = SubSeq(full, 1, n + j + 1)
    OBVIOUS
  <2>1. j \in 1..V /\ n + j \in Nat /\ n + j <= n + k /\ n + j < n + k + 1
    BY <1>6
  <2>2. SubSeq(full, 1, n + j) = ctx(j)
    <3>1. SubSeq(full, 1, n + j) = SubSeq(text, 1, n + j)
      BY <1>11, <1>13, <2>1, BeginsSame
    <3> QED
      BY <1>15, <3>1
  <2>3. full[(n + j) + 1] = sel[j]
    <3>1. CASE j = k
      <4>1. full[n + k + 1] = next
        BY <1>13
      <4> QED
        BY <3>1, <4>1 DEF next, k
    <3>2. CASE j # k
      <4>1. j \in 1..a /\ j + 1 \in 1..k /\ n + (j + 1) = (n + j) + 1 /\ (n + j) + 1 \in 1..(n + k)
        BY <1>6, <3>2
      <4>2. full[(n + j) + 1] = text[n + (j + 1)] /\ text[n + (j + 1)] = input[j + 1]
        BY <1>11, <1>13, <4>1
      <4> QED
        BY <1>5, <4>1, <4>2
    <3> QED
      BY <3>1, <3>2
  <2>4. Append(SubSeq(full, 1, n + j), full[(n + j) + 1]) = SubSeq(full, 1, (n + j) + 1)
    BY <1>13, <2>1, SubNext
  <2> QED
    BY <2>2, <2>3, <2>4
<1>17. Begins(Full(r), text) /\ Begins(h, text)
  <2>1. n + 1 <= n + k /\ \A i \in 1..(n + 1) : i \in 1..n \/ i = n + 1
    BY <1>6
  <2>2. text[n + 1] = t
    BY <1>4, <1>6, <1>11
  <2>3. \A i \in 1..(n + 1) : text[i] = Full(r)[i]
    BY <1>7, <1>11, <2>1, <2>2
  <2> QED
    BY <1>7, <1>11, <1>14, <2>1, <2>3 DEF Begins, n
<1>18. Right(full, prompt[r])
  <2>1. Begins(Full(r), full)
    BY <1>7, <1>11, <1>13, <1>17, BeginsTrans
  <2>2. ASSUME NEW p \in (Len(Full(r)) + 1)..Len(full) PROVE full[p] = Selects(SubSeq(full, 1, p - 1))
    <3>1. p \in (n + 2)..(n + k + 1)
      <4>1. Len(Full(r)) = n + 1 /\ Len(full) = n + k + 1
        BY <1>7, <1>13
      <4>2. (n + 1) + 1 = n + 2
        BY <1>6
      <4> QED
        BY <4>1, <4>2
    <3> DEFINE j == p - n - 1
    <3>2. j \in 1..k /\ p = (n + j) + 1 /\ p - 1 = n + j /\ n + j \in Nat /\ n + j <= n + k /\ j \in 1..V
      BY <1>6, <3>1
    <3> HIDE DEF j
    <3>3. SubSeq(full, 1, n + j) = ctx(j)
      <4>1. SubSeq(full, 1, n + j) = SubSeq(text, 1, n + j)
        BY <1>11, <1>13, <3>2, BeginsSame
      <4> QED
        BY <1>15, <3>2, <4>1
    <3>4. full[p] = sel[j]
      <4>1. CASE j = k
        <5>1. full[n + k + 1] = next
          BY <1>13
        <5> QED
          BY <3>2, <4>1, <5>1 DEF next, k
      <4>2. CASE j # k
        <5>1. j \in 1..a /\ j + 1 \in 1..k /\ n + (j + 1) = p /\ p \in 1..(n + k)
          BY <1>6, <3>2, <4>2
        <5>2. full[p] = text[n + (j + 1)] /\ text[n + (j + 1)] = input[j + 1]
          BY <1>11, <1>13, <5>1
        <5> QED
          BY <1>5, <5>1, <5>2
      <4> QED
        BY <4>1, <4>2
    <3> QED
      BY <1>4, <3>2, <3>3, <3>4
  <2>3. Len(prompt[r]) <= Len(Full(r))
    BY <1>1, <1>7
  <2> QED
    BY <1>1, <1>3, <1>7, <1>13, <2>1, <2>2, <2>3, RightGrow
<1>19. KvOf(kv[r], text, n + k)
  <2>1. KvOf(kv[r], text, n)
    BY <1>1, <1>3, <1>11, <1>17, KvGrow DEF n
  <2>2. ASSUME NEW p \in 1..(n + k) PROVE kv[r][p] = SubSeq(text, 1, p)
    <3>1. CASE p <= n
      <4>1. p \in 1..n
        BY <1>1, <3>1
      <4> QED
        BY <2>1, <4>1 DEF KvOf
    <3>2. CASE ~(p <= n)
      <4>1. p - n \in 1..k /\ n + (p - n) = p /\ p - n \in 1..V
        BY <1>6, <3>2
      <4>2. kv[r][n + (p - n)] = ctx(p - n) /\ SubSeq(text, 1, n + (p - n)) = ctx(p - n)
        BY <1>4, <1>15, <4>1
      <4> QED
        BY <4>1, <4>2
    <3> QED
      BY <3>1, <3>2
  <2> QED
    BY <2>2 DEF KvOf
<1>20. MtpOf(mtpKv[r], full, n + k)
  <2>1. MtpOf(mtpKv[r], full, n)
    <3>1. Begins(Full(r), full)
      BY <1>7, <1>11, <1>13, <1>17, BeginsTrans
    <3>2. n + 1 <= Len(Full(r)) /\ n \in Int
      BY <1>1, <1>7
    <3> QED
      BY <1>3, <1>7, <1>13, <3>1, <3>2, MtpGrow
  <2>2. ASSUME NEW p \in 1..(n + k) PROVE mtpKv[r][p] = SubSeq(full, 1, p + 1)
    <3>1. CASE p <= n
      <4>1. p \in 1..n
        BY <1>1, <3>1
      <4> QED
        BY <2>1, <4>1 DEF MtpOf
    <3>2. CASE ~(p <= n)
      <4>1. p - n \in 1..k /\ n + (p - n) = p /\ p - n \in 1..V
        BY <1>6, <3>2
      <4>2. mtpKv[r][n + (p - n)] = Append(ctx(p - n), sel[p - n])
        BY <1>4, <4>1
      <4>3. Append(ctx(p - n), sel[p - n]) = SubSeq(full, 1, n + (p - n) + 1)
        BY <1>16, <4>1
      <4> QED
        BY <4>1, <4>2, <4>3
    <3> QED
      BY <3>1, <3>2
  <2> QED
    BY <2>2 DEF MtpOf
<1>21. rest \in Seq(Token) /\ Len(rest) = a /\ \A i \in 1..a : rest[i] = input[i + 1]
  <2>1. \A i \in 2..(a + 1) : input[i] \in Token
    <3>1. \A i \in 2..(a + 1) : i \in 1..Len(input)
      BY <1>2, <1>4, <1>6
    <3> QED
      BY <1>4, <3>1, ElementOfSeq
  <2>2. rest \in Seq(Token) /\ Len(rest) = (IF 2 <= a + 1 THEN (a + 1) - 2 + 1 ELSE 0)
        /\ \A i \in 1..((a + 1) - 2 + 1) : rest[i] = input[2 + i - 1]
    <3>1. a + 1 \in Int
      BY <1>6
    <3> QED
      BY <2>1, <3>1, SubSeqProperties
  <2>3. (a + 1) - 2 + 1 = a /\ (IF 2 <= a + 1 THEN (a + 1) - 2 + 1 ELSE 0) = a /\ \A i \in 1..a : 2 + i - 1 = i + 1
    BY <1>6
  <2> QED
    BY <2>2, <2>3
<1>22. /\ told \in Seq(Token) /\ Len(told) = k /\ told[k] = next /\ \A i \in 1..a : told[i] = input[i + 1]
  <2> HIDE DEF rest
  <2>1. /\ told \in Seq(Token) /\ Len(told) = Len(rest) + 1 /\ told[Len(rest) + 1] = next
        /\ \A i \in 1..Len(rest) : told[i] = rest[i]
    BY <1>12, <1>21, AppendFacts
  <2> QED
    BY <1>6, <1>21, <2>1
<1> HIDE DEF told
<1>23. Full(r) \o told = full
  <2> DEFINE c == Full(r) \o told
             m == n + k + 1
  <2>1. /\ c \in Seq(Token) /\ Len(c) = Len(Full(r)) + Len(told)
        /\ \A i \in 1..Len(Full(r)) : c[i] = Full(r)[i]
        /\ \A i \in 1..Len(told) : c[Len(Full(r)) + i] = told[i]
    BY <1>7, <1>22, JoinFacts
  <2> HIDE DEF c
  <2>2. /\ Len(c) = m
        /\ \A i \in 1..(n + 1) : c[i] = Full(r)[i]
        /\ \A i \in 1..k : c[n + 1 + i] = told[i]
    BY <1>6, <1>7, <1>22, <2>1
  <2>3. \A i \in 1..m : c[i] = full[i]
    <3> SUFFICES ASSUME NEW i \in 1..m PROVE c[i] = full[i]
      OBVIOUS
    <3>1. CASE i <= n + 1
      <4>1. i \in 1..(n + 1) /\ i \in 1..(n + k) /\ i \in 1..Len(Full(r))
        BY <1>6, <1>7, <3>1
      <4> QED
        BY <1>13, <1>17, <2>2, <4>1 DEF Begins
    <3>2. CASE i = m
      <4>1. i = n + 1 + k /\ k \in 1..k /\ i = n + k + 1
        BY <1>6, <3>2
      <4> QED
        BY <1>13, <1>22, <2>2, <4>1
    <3>3. CASE n + 1 < i /\ i < m
      <4> DEFINE j == i - n - 1
      <4>1. j \in 1..a /\ j \in 1..k /\ n + 1 + j = i /\ n + (j + 1) = i /\ j + 1 \in 1..k /\ i \in 1..(n + k)
        BY <1>6, <3>3
      <4> HIDE DEF j
      <4>2. c[n + 1 + j] = told[j] /\ told[j] = input[j + 1]
        BY <1>22, <2>2, <4>1
      <4>3. full[i] = text[n + (j + 1)] /\ text[n + (j + 1)] = input[j + 1]
        BY <1>11, <1>13, <4>1
      <4> QED
        BY <4>1, <4>2, <4>3
    <3>4. i <= n + 1 \/ i = m \/ (n + 1 < i /\ i < m)
      BY <1>6
    <3> QED
      BY <3>1, <3>2, <3>3, <3>4
  <2>4. full \in Seq(Token) /\ Len(full) = m
    BY <1>13
  <2> HIDE DEF m
  <2>5. c = full
    BY <2>1, <2>2, <2>3, <2>4, SeqEqual
  <2> QED
    BY <2>5 DEF c
<1>24. prompt[r] \o (published[r] \o told) = full
  <2>1. prompt[r] \o (published[r] \o told) = (prompt[r] \o published[r]) \o told
    <3>1. prompt[r] \in Seq(Token) /\ published[r] \in Seq(Token) /\ told \in Seq(Token)
      BY <1>1, <1>22
    <3> QED
      BY <3>1, JoinAssoc
  <2> QED
    BY <1>3, <1>23, <2>1
<1>25. Len(text) = gen.committed[r] + a + 1 /\ Len(text) <= MaxLen /\ Len(prompt[r]) <= Len(text) /\ Len(text) = n + k
  <2>1. Len(text) = n + k
    BY <1>11
  <2>2. n = gen.committed[r] /\ Len(prompt[r]) \in Nat /\ Len(prompt[r]) <= n
    BY <1>1
  <2>3. n + k = n + a + 1 /\ n + k <= MaxLen /\ n <= n + k
    BY <1>6
  <2>4. Len(prompt[r]) <= n + k
    BY <1>6, <2>2
  <2> QED
    BY <2>1, <2>2, <2>3, <2>4
<1>26. KvOf(kv[r], text, Len(text)) /\ MtpOf(mtpKv[r], full, Len(text))
  BY <1>19, <1>20, <1>25
<1>27. told \in Seq(Token)
  BY <1>22
<1> QED
  BY <1>8, <1>11, <1>12, <1>18, <1>24, <1>25, <1>26, <1>27
     DEF text, next, full, told, rest, ctx, some, h, input, sel

\* What Complete leaves of the generator.
LEMMA CompleteGen ==
  ASSUME MtpAssumption, TypeOK, NEW committed \in [Row -> Nat], NEW next \in [Row -> Token], NEW rows \in [Row -> Nat],
         NEW told \in [Row -> Seq(Token)],
         gen' = [gen EXCEPT !.phase = "loop", !.speculative = FALSE, !.committed = committed,
                            !.next = next, !.seedRows = rows, !.pending = told]
  PROVE  /\ gen' \in GenType
         /\ gen'.phase = "loop" /\ gen'.speculative = FALSE /\ gen'.committed = committed /\ gen'.next = next
         /\ gen'.seedRows = rows /\ gen'.pending = told /\ gen'.failed = gen.failed
<1>1. gen' = [phase |-> "loop", committed |-> committed, next |-> next, seedRows |-> rows,
              speculative |-> FALSE, pending |-> told, failed |-> gen.failed]
  BY DEF TypeOK, GenType
<1>2. gen.failed \in BOOLEAN
  BY GenFacts DEF TypeOK
<1>3. next \in [Row -> Token \cup {None}] /\ told \in {Nothing} \cup [Row -> Seq(Token)]
  OBVIOUS
<1>4. gen' \in GenType
  <2>1. "loop" \in {"idle", "closing"} \cup Working \cup Dropped /\ FALSE \in BOOLEAN
    BY DEF Working
  <2>2. [phase |-> "loop", committed |-> committed, next |-> next, seedRows |-> rows,
         speculative |-> FALSE, pending |-> told, failed |-> gen.failed] \in GenType
    BY <1>2, <1>3, <2>1, GenIs, Zenon
  <2> QED
    BY <1>1, <2>2, Zenon
<1> QED
  BY <1>1, <1>4

\* What was accepted is committed, the rest given back.
LEMMA CompleteInv ==
  ASSUME MtpAssumption, IInv, Complete
  PROVE  IInv'
<1> USE DEF IInv
<1> DEFINE a(r) == Accepted(result[r].input, result[r].selected)
           as == [r \in Row |-> a(r)]
           text(r) == history[r] \o SubSeq(result[r].input, 1, a(r) + 1)
           next(r) == result[r].selected[a(r) + 1]
           told(r) == Append(SubSeq(result[r].input, 2, a(r) + 1), next(r))
           full(r) == Append(text(r), next(r))
           lens == [r \in Row |-> gen.committed[r] + as[r] + 1]
           nexts == [r \in Row |-> result[r].selected[as[r] + 1]]
           tolds == [r \in Row |-> Append(SubSeq(result[r].input, 2, as[r] + 1), nexts[r])]
           rows == [r \in Row |-> SeedRowOf(r, as[r])]
<1>0. PICK cut \in 0..Rows, reported \in 0..Rows :
        /\ reported > 0 => cut = Rows
        /\ len' = [r \in Row |-> IF r <= cut THEN lens[r] ELSE len[r]]
        /\ history' = [r \in Row |-> IF r <= reported THEN history[r] \o CommittedInputs(r, as[r]) ELSE history[r]]
        /\ target' = [r \in Row |-> IF r <= reported THEN nexts[r]
                                    ELSE IF r <= cut /\ lens[r] < len[r] THEN None ELSE target[r]]
        /\ gen' = IF reported = Rows
                  THEN [gen EXCEPT !.phase = "loop", !.speculative = FALSE, !.committed = lens,
                                   !.next = nexts, !.seedRows = rows, !.pending = tolds]
                  ELSE [Failing EXCEPT !.committed = gen.committed]
  BY DEF Complete, CommittedUntilReported
<1>1. /\ gen.phase = "waiting" /\ flight.op = "none"
      /\ UNCHANGED <<prompt, todo, published, kv, mtpKv, seed, flight, device>>
  BY DEF Complete, requests
<1>2. ~gen.failed /\ gen.speculative /\ gen.pending = Nothing /\ \A r \in Row : BusyRow(r) /\ StepRow(r)
  BY <1>1 DEF PhaseInv, Working
<1>3. \A r \in Row : a(r) \in 0..NumDrafts /\ a(r) \in Nat /\ \A d \in 1..a(r) : result[r].input[d + 1] = result[r].selected[d]
  <2> HIDE DEF a
  <2>1. \A r \in Row : a(r) \in 0..NumDrafts /\ \A d \in 1..a(r) : result[r].input[d + 1] = result[r].selected[d]
    BY AcceptedFacts DEF a
  <2> QED
    BY <2>1, Constants
<1> HIDE DEF a
<1>4. \A r \in Row :
         /\ text(r) \in Seq(Token) /\ Len(text(r)) = gen.committed[r] + a(r) + 1 /\ Len(text(r)) <= MaxLen
         /\ next(r) \in Token /\ Right(full(r), prompt[r]) /\ Len(prompt[r]) <= Len(text(r))
         /\ KvOf(kv[r], text(r), Len(text(r))) /\ MtpOf(mtpKv[r], full(r), Len(text(r)))
         /\ seed[(r - 1) * V + a(r)] = full(r)
         /\ told(r) \in Seq(Token) /\ prompt[r] \o (published[r] \o told(r)) = full(r)
  BY <1>1, <1>2, <1>3, CommittedRow
<1> DEFINE at(r) == (r - 1) * V + a(r)
<1>7. \A r \in Row :
        /\ as[r] = a(r) /\ lens[r] = gen.committed[r] + a(r) + 1 /\ nexts[r] = next(r) /\ rows[r] = at(r)
        /\ tolds[r] = told(r) /\ history[r] \o CommittedInputs(r, as[r]) = text(r)
  <2>1. \A r \in Row : as[r] = a(r)
    OBVIOUS
  <2> HIDE DEF as, V
  <2> QED
    BY <2>1 DEF CommittedInputs, SeedRowOf
<1> HIDE DEF text, next, told
<1>5. \A r \in Row : gen.committed[r] + a(r) + 1 \in Nat /\ (r - 1) * V + a(r) \in Nat
  <2> SUFFICES ASSUME NEW r \in Row PROVE gen.committed[r] + a(r) + 1 \in Nat /\ (r - 1) * V + a(r) \in Nat
    OBVIOUS
  <2>1. gen.committed[r] \in Nat /\ a(r) \in Nat /\ V \in Nat /\ r - 1 \in Nat
    BY <1>3, RowFacts, Constants
  <2>2. \A m, n \in Nat : m * n \in Nat
    OBVIOUS
  <2> HIDE DEF V
  <2>3. (r - 1) * V \in Nat
    BY <2>1, <2>2
  <2> DEFINE m == (r - 1) * V
  <2> HIDE DEF m
  <2>4. m \in Nat
    BY <2>3 DEF m
  <2>5. gen.committed[r] + a(r) + 1 \in Nat /\ m + a(r) \in Nat
    BY <2>1, <2>4
  <2> QED
    BY <2>5 DEF m
<1>6. lens \in [Row -> Nat] /\ nexts \in [Row -> Token] /\ rows \in [Row -> Nat] /\ tolds \in [Row -> Seq(Token)]
  <2>1. /\ lens = [r \in Row |-> lens[r]] /\ DOMAIN lens = Row
        /\ nexts = [r \in Row |-> nexts[r]] /\ DOMAIN nexts = Row
        /\ rows = [r \in Row |-> rows[r]] /\ DOMAIN rows = Row
        /\ tolds = [r \in Row |-> tolds[r]] /\ DOMAIN tolds = Row
    OBVIOUS
  <2>2. \A r \in Row : lens[r] \in Nat /\ nexts[r] \in Token /\ rows[r] \in Nat /\ tolds[r] \in Seq(Token)
    BY <1>4, <1>5, <1>7
  <2> HIDE DEF lens, nexts, rows, tolds
  <2> QED
    BY <2>1, <2>2
<1>8. tolds # Nothing
  <2>1. 1 \in Row
    BY Constants
  <2>2. DOMAIN tolds = Row
    OBVIOUS
  <2> HIDE DEF tolds
  <2> QED
    BY <2>1, <2>2 DEF Nothing
<1> HIDE DEF lens, nexts, rows, tolds
<1> HIDE DEF as
<1>9. \A r \in Row :
        /\ len'[r] = IF r <= cut THEN Len(text(r)) ELSE len[r]
        /\ history'[r] = IF r <= reported THEN text(r) ELSE history[r]
        /\ target'[r] = IF r <= reported THEN next(r)
                        ELSE IF r <= cut /\ lens[r] < len[r] THEN None ELSE target[r]
  BY <1>0, <1>4, <1>7
<1>10. ASSUME gen' \in GenType PROVE TypeOK'
  <2>1. \A r \in Row : /\ len'[r] \in Nat /\ history'[r] \in Seq(Token) /\ target'[r] \in Token \cup {None}
    <3> SUFFICES ASSUME NEW r \in Row
                 PROVE  len'[r] \in Nat /\ history'[r] \in Seq(Token) /\ target'[r] \in Token \cup {None}
      OBVIOUS
    <3>1. text(r) \in Seq(Token) /\ Len(text(r)) \in Nat /\ next(r) \in Token
      BY <1>4, LenProperties
    <3>2. history[r] \in Seq(Token) /\ len[r] \in Nat /\ target[r] \in Token \cup {None}
      BY RowFacts
    <3> QED
      BY <1>9, <3>1, <3>2
  <2>2. /\ history' = [r \in Row |-> history'[r]] /\ DOMAIN history' = Row
        /\ len' = [r \in Row |-> len'[r]] /\ DOMAIN len' = Row
        /\ target' = [r \in Row |-> target'[r]] /\ DOMAIN target' = Row
    BY <1>0
  <2>3. history' \in [Row -> Seq(Token)] /\ len' \in [Row -> Nat] /\ target' \in [Row -> Token \cup {None}]
    BY <2>1, <2>2
  <2> QED
    BY <1>1, <1>10, <2>3 DEF TypeOK
<1>11. CASE reported = Rows
  <2>1. gen' = [gen EXCEPT !.phase = "loop", !.speculative = FALSE, !.committed = lens,
                           !.next = nexts, !.seedRows = rows, !.pending = tolds]
    BY <1>0, <1>11
  <2>2. /\ gen' \in GenType
        /\ gen'.phase = "loop" /\ gen'.speculative = FALSE /\ gen'.committed = lens /\ gen'.next = nexts
        /\ gen'.seedRows = rows /\ gen'.pending = tolds /\ gen'.failed = gen.failed
    BY <1>6, <2>1, CompleteGen
  <2>3. TypeOK'
    BY <1>10, <2>2
  <2>4. cut = Rows /\ \A r \in Row : r <= cut /\ r <= reported
    BY <1>0, <1>11, Constants
  <2>5. ASSUME NEW r \in Row PROVE BusyRow(r)' /\ LoopRow(r)'
    <3>1. /\ history'[r] = text(r) /\ target'[r] = next(r) /\ Full(r)' = full(r)
          /\ len'[r] = Len(text(r)) /\ gen'.committed[r] = Len(text(r)) /\ gen'.next[r] = next(r)
          /\ gen'.seedRows[r] = (r - 1) * V + a(r) /\ gen'.pending[r] = told(r)
      BY <1>4, <1>7, <1>9, <2>2, <2>4 DEF Full
    <3>2. todo[r] = Nothing
      BY <1>2 DEF BusyRow
    <3> HIDE DEF full, V
    <3>3. BusyRow(r)'
      BY <1>1, <1>4, <3>1, <3>2 DEF BusyRow
    <3>4. LoopRow(r)'
      BY <1>1, <1>4, <1>8, <2>2, <3>1 DEF LoopRow
    <3> QED
      BY <3>3, <3>4
  <2> QED
    BY <1>1, <1>2, <2>2, <2>3, <2>5 DEF PhaseInv, Working, Dropped
<1>12. CASE reported # Rows
  <2>1. /\ gen' \in GenType /\ gen'.phase = "closing" /\ gen'.failed = TRUE /\ gen'.speculative
        /\ gen'.committed = gen.committed
    BY <1>0, <1>2, <1>12, EndGen
  <2>2. TypeOK'
    BY <1>10, <2>1
  <2>3. ASSUME NEW r \in Row PROVE PartRow(r)'
    <3> DEFINE n == Len(history[r])
               m == Len(text(r))
    <3>1. /\ gen.committed[r] = n /\ n \in Nat /\ m \in Nat /\ n <= m /\ n <= len[r] /\ m <= len[r]
          /\ todo[r] = Nothing /\ SoundRow(r) /\ lens[r] = m
      <4>1. BusyRow(r) /\ len[r] = gen.committed[r] + V /\ V = NumDrafts + 1 /\ NumDrafts \in Nat
        BY <1>2, Constants DEF StepRow
      <4>2. a(r) \in 0..NumDrafts /\ m = gen.committed[r] + a(r) + 1 /\ lens[r] = m
        BY <1>3, <1>4, <1>7
      <4>3. gen.committed[r] = n /\ n \in Nat /\ todo[r] = Nothing /\ SoundRow(r)
        BY <4>1, RowFacts, BusySound DEF BusyRow
      <4> HIDE DEF V, n, m
      <4> QED
        BY <4>1, <4>2, <4>3
    <3>2. KvOf(kv[r], text(r), m) /\ Right(full(r), prompt[r]) /\ Right(text(r), prompt[r])
      <4>1. /\ text(r) \in Seq(Token) /\ next(r) \in Token /\ KvOf(kv[r], text(r), m)
            /\ Right(full(r), prompt[r])
        BY <1>4
      <4>2. full(r) \in Seq(Token) /\ Begins(text(r), full(r))
        BY <4>1, AppendFacts
      <4> QED
        BY <4>1, <4>2, RightCut
    <3> HIDE DEF n, m, V
    <3>3. CASE r <= reported
      <4>1. r <= cut
        BY <1>0, <3>3, Constants
      <4>2. history'[r] = text(r) /\ target'[r] = next(r) /\ len'[r] = m
        BY <1>9, <3>3, <4>1 DEF m
      <4>3. Full(r)' = full(r)
        BY <4>2 DEF Full
      <4> QED
        BY <1>1, <2>1, <3>1, <3>2, <4>2, <4>3 DEF PartRow, SoundRow, m
    <3>4. CASE ~(r <= reported)
      <4>1. history'[r] = history[r] /\ target'[r] \in {None, target[r]} /\ len'[r] \in {m, len[r]}
        BY <1>9, <3>4 DEF m
      <4>2. target'[r] # None => Full(r)' = Full(r)
        BY <4>1 DEF Full
      <4> QED
        BY <1>1, <2>1, <3>1, <4>1, <4>2 DEF PartRow, SoundRow, n
    <3> QED
      BY <3>3, <3>4
  <2> QED
    BY <1>1, <2>1, <2>2, <2>3 DEF PhaseInv, ClosingInv, Working, Dropped
<1> QED
  BY <1>11, <1>12
-----------------------------------------------------------------------------
(* Prefill                                                               *)

\* What is computed again is at most one token, the last.
LEMMA OverlapFacts ==
  ASSUME MtpAssumption, TypeOK, NEW r \in Row
  PROVE  /\ Overlap(r) \in Seq(Token) /\ Len(Overlap(r)) \in {0, 1}
         /\ todo[r] # Nothing => Overlap(r) = IF history[r] = Nothing THEN Nothing ELSE <<history[r][Len(history[r])]>>
         /\ Len(Overlap(r)) <= Len(history[r])
<1>1. history[r] \in Seq(Token)
  BY RowFacts
<1>2. history[r] # Nothing => Len(history[r]) \in Nat \ {0} /\ history[r][Len(history[r])] \in Token
  <2>1. history[r] # Nothing => Len(history[r]) \in Nat \ {0}
    BY <1>1, EmptySeq DEF Nothing
  <2>2. history[r] # Nothing => Len(history[r]) \in 1..Len(history[r])
    BY <2>1
  <2> QED
    BY <1>1, <2>1, <2>2, ElementOfSeq
<1>3. CASE todo[r] # Nothing /\ history[r] # Nothing
  <2>1. Overlap(r) = <<history[r][Len(history[r])]>>
    BY <1>3 DEF Overlap, Last
  <2> QED
    BY <1>2, <1>3, <2>1
<1>4. CASE ~(todo[r] # Nothing /\ history[r] # Nothing)
  <2>1. Overlap(r) = <<>>
    BY <1>4 DEF Overlap, Nothing
  <2>2. Overlap(r) \in Seq(Token) /\ Len(Overlap(r)) = 0 /\ Len(history[r]) \in Nat
    BY <1>1, <2>1, EmptySeq, LenProperties
  <2> QED
    BY <1>4, <2>1, <2>2 DEF Nothing
<1> QED
  BY <1>3, <1>4

\* One row's share of a chunk, with what the rows before it used.
Share(r, used) ==
  LET room == ChunkSize - used - Len(Overlap(r))
      take == IF room <= 0 THEN 0 ELSE IF Len(todo[r]) < room THEN Len(todo[r]) ELSE room
  IN [take |-> take, used |-> used + (IF take > 0 THEN take + Len(Overlap(r)) ELSE 0)]

\* A share is of what is left to do.
LEMMA ShareFacts ==
  ASSUME MtpAssumption, TypeOK, NEW r \in Row, NEW used \in Nat
  PROVE  Share(r, used).take \in 0..Len(todo[r]) /\ Share(r, used).used \in Nat
<1>1. Len(todo[r]) \in Nat /\ Len(Overlap(r)) \in Nat /\ ChunkSize \in Nat
  BY RowFacts, LenProperties, OverlapFacts, Constants
<1> DEFINE o == Len(Overlap(r))
           n == Len(todo[r])
           room == ChunkSize - used - o
           take == IF room <= 0 THEN 0 ELSE IF n < room THEN n ELSE room
<1>2. Share(r, used).take = take /\ Share(r, used).used = used + (IF take > 0 THEN take + o ELSE 0)
  BY DEF Share
<1> HIDE DEF o, n
<1>3. o \in Nat /\ n \in Nat
  BY <1>1 DEF o, n
<1>4. take \in 0..n
  BY <1>1, <1>3
<1> HIDE DEF take
<1>5. used + (IF take > 0 THEN take + o ELSE 0) \in Nat
  BY <1>3, <1>4
<1> QED
  BY <1>2, <1>4, <1>5 DEF n

\* The recursion that deals out a chunk.
Before(f, r) == IF r = 1 THEN 0 ELSE f[r - 1].used
Dealt(f) == [r \in Row |-> Share(r, Before(f, r))]

\* It has a solution: else there is a first row it has none up to.
LEMMA DealtExists ==
  ASSUME MtpAssumption, TypeOK
  PROVE  \E f : f = Dealt(f)
<1> DEFINE Upto(n, f) == DOMAIN f = 1..n /\ \A r \in 1..n : f[r] = Share(r, Before(f, r))
           Bad == {n \in 0..Rows : ~\E f : Upto(n, f)}
<1>1. Rows \in Nat /\ Row = 1..Rows
  BY Constants
<1>2. Bad = {}
  <2> SUFFICES ASSUME Bad # {} PROVE FALSE
    OBVIOUS
  <2>1. Bad \in SUBSET Nat
    BY <1>1
  <2>2. PICK m \in Bad : \A n \in Bad : m <= n
    <3> HIDE DEF Bad
    <3> QED
      BY <2>1, LeastMember
  <2>3. m \in 0..Rows /\ ~\E f : Upto(m, f)
    OBVIOUS
  <2>4. m # 0
    <3> DEFINE f == [r \in 1..0 |-> 0]
    <3>1. Upto(0, f)
      OBVIOUS
    <3> QED
      BY <2>3, <3>1
  <2>5. m - 1 \in 0..Rows /\ ~(m <= m - 1) /\ m \in Nat
    BY <1>1, <2>3, <2>4
  <2>6. m - 1 \notin Bad
    <3> HIDE DEF Bad
    <3> QED
      BY <2>2, <2>5
  <2>7. PICK f : Upto(m - 1, f)
    BY <2>5, <2>6
  <2> DEFINE g == [r \in 1..m |-> IF r = m THEN Share(m, Before(f, m)) ELSE f[r]]
  <2>8. ASSUME NEW r \in 1..m PROVE g[r] = Share(r, Before(g, r))
    <3>1. Before(g, r) = Before(f, r)
      <4>1. CASE r = 1
        BY <4>1 DEF Before
      <4>2. CASE r # 1
        <5>1. r - 1 \in 1..m /\ r - 1 # m
          BY <2>5, <4>2
        <5> QED
          BY <4>2, <5>1 DEF Before
      <4> QED
        BY <4>1, <4>2
    <3>2. CASE r = m
      BY <3>1, <3>2
    <3>3. CASE r # m
      <4>1. r \in 1..(m - 1)
        BY <2>5, <3>3
      <4>2. f[r] = Share(r, Before(f, r))
        BY <2>7, <4>1
      <4> QED
        BY <3>1, <3>3, <4>2
    <3> QED
      BY <3>2, <3>3
  <2>9. Upto(m, g)
    BY <2>8
  <2> QED
    BY <2>3, <2>9
<1>3. Rows \in 0..Rows
  BY <1>1
<1>4. PICK f : Upto(Rows, f)
  BY <1>2, <1>3
<1> DEFINE g == [r \in 1..Rows |-> f[r]]
<1>5. \A r \in 1..Rows : Before(g, r) = Before(f, r)
  <2>1. \A r \in 1..Rows : r # 1 => r - 1 \in 1..Rows
    BY <1>1
  <2> QED
    BY <2>1 DEF Before
<1>6. \A r \in 1..Rows : g[r] = Share(r, Before(g, r))
  BY <1>4, <1>5
<1>7. g = [r \in 1..Rows |-> Share(r, Before(g, r))]
  <2>1. g = [r \in 1..Rows |-> g[r]]
    OBVIOUS
  <2> HIDE DEF g
  <2> QED
    BY <1>6, <2>1
<1>8. g = Dealt(g)
  BY <1>1, <1>7 DEF Dealt
<1> QED
  BY <1>8

\* Takes of a row: some of what is left to do.
LEMMA TakesFacts ==
  ASSUME MtpAssumption, TypeOK, NEW r \in Row
  PROVE  Takes[r] \in Nat /\ Takes[r] <= Len(todo[r])
<1> DEFINE takes == CHOOSE f : f = Dealt(f)
<1>1. takes = Dealt(takes)
  <2> HIDE DEF Dealt
  <2> QED
    BY DealtExists
<1>2. Takes = [q \in Row |-> takes[q].take]
  BY DEF Takes, Dealt, Share, Before
<1> HIDE DEF takes
<1>3. \A q \in Row : takes[q] = Share(q, Before(takes, q))
  BY <1>1 DEF Dealt
<1>4. Rows \in Nat /\ Row = 1..Rows
  BY Constants
<1> DEFINE Bad == {q \in Row : takes[q].used \notin Nat}
<1>5. Bad = {}
  <2> SUFFICES ASSUME Bad # {} PROVE FALSE
    OBVIOUS
  <2>1. Bad \in SUBSET Nat
    BY <1>4
  <2>2. PICK m \in Bad : \A q \in Bad : m <= q
    <3> HIDE DEF Bad
    <3> QED
      BY <2>1, LeastMember
  <2>3. m \in Row /\ takes[m].used \notin Nat
    OBVIOUS
  <2>4. Before(takes, m) \in Nat
    <3>1. CASE m = 1
      BY <3>1 DEF Before
    <3>2. CASE m # 1
      <4>1. m - 1 \in Row /\ ~(m <= m - 1)
        BY <1>4, <2>3, <3>2
      <4>2. m - 1 \notin Bad
        <5> HIDE DEF Bad
        <5> QED
          BY <2>2, <4>1
      <4> QED
        BY <3>2, <4>1, <4>2 DEF Before
    <3> QED
      BY <3>1, <3>2
  <2>5. takes[m].used \in Nat
    BY <1>3, <2>3, <2>4, ShareFacts
  <2> QED
    BY <2>3, <2>5
<1>6. Before(takes, r) \in Nat
  <2>1. r # 1 => r - 1 \in Row
    BY <1>4
  <2> QED
    BY <1>5, <2>1 DEF Before
<1>7. takes[r].take \in 0..Len(todo[r])
  BY <1>3, <1>6, ShareFacts
<1>8. Takes[r] = takes[r].take
  BY <1>2
<1>9. Len(todo[r]) \in Nat
  BY RowFacts, LenProperties
<1> QED
  BY <1>7, <1>8, <1>9

\* What of a row a chunk changes.
LEMMA ChunkRow ==
  ASSUME NEW reported \in 0..Rows, RunChunk(reported), NEW r \in Row
  PROVE  /\ history'[r] = SubSeq(history[r], 1, ChunkStart(r)) \o (IF r <= reported THEN ChunkOf(r) ELSE Nothing)
         /\ len'[r] = ChunkStart(r) + Len(ChunkOf(r))
         /\ target'[r] = IF ChunkOf(r) # Nothing /\ r <= reported THEN Selects(Last(ChunkContexts(r)))
                         ELSE IF Rewound(r) THEN Last(history[r]) ELSE target[r]
         /\ kv'[r] = Written(kv[r], ChunkStart(r), ChunkContexts(r))
         /\ mtpKv'[r] = IF ChunkOf(r) = Nothing THEN mtpKv[r]
                        ELSE Written(mtpKv[r], ChunkStart(r),
                                     Shifted(ChunkContexts(r), Append(Tail(ChunkOf(r)), 0)))
  BY DEF RunChunk

\* What the scheduler does then.
LEMMA PrefillRow ==
  ASSUME Prefill, NEW r \in Row
  PROVE  /\ todo'[r] = SubSeq(todo[r], Takes[r] + 1, Len(todo[r]))
         /\ published'[r] = IF ChunkOf(r) # Nothing /\ Takes[r] = Len(todo[r]) THEN <<target'[r]>>
                            ELSE published[r]
  BY DEF Prefill

\* A row that is given nothing stays as it is.
LEMMA ChunkNothing ==
  ASSUME MtpAssumption, TypeOK, NEW reported \in 0..Rows, RunChunk(reported),
         NEW r \in Row, IdleRow(r), Takes[r] = 0
  PROVE  /\ ChunkOf(r) = Nothing
         /\ history'[r] = history[r] /\ len'[r] = len[r] /\ target'[r] = target[r]
         /\ DOMAIN kv'[r] = 1..MaxLen /\ DOMAIN mtpKv'[r] = 1..MaxLen
         /\ KvOf(kv'[r], history[r], len[r]) /\ mtpKv'[r] = mtpKv[r]
<1>1. ChunkOf(r) = <<>> /\ ChunkStart(r) = len[r] /\ ~Rewound(r)
  BY DEF ChunkOf, ChunkStart, Rewound, Nothing
<1>2. /\ history[r] \in Seq(Token) /\ todo[r] \in Seq(Token) /\ len[r] = Len(history[r]) /\ len[r] \in Nat /\ len[r] <= MaxLen
      /\ KvOf(kv[r], history[r], len[r]) /\ DOMAIN kv[r] = 1..MaxLen /\ DOMAIN mtpKv[r] = 1..MaxLen
      /\ MaxLen \in Nat /\ <<>> \in Seq(Token) /\ Len(<<>>) = 0
  BY RowFacts, Constants DEF IdleRow
<1>3. history'[r] = history[r]
  <2>1. history'[r] = SubSeq(history[r], 1, len[r]) \o <<>>
    BY <1>1, ChunkRow DEF Nothing
  <2>2. SubSeq(history[r], 1, len[r]) = history[r]
    BY <1>2, SubSeqFull
  <2> QED
    BY <1>2, <2>1, <2>2, ConcatEmptySeq
<1>4. len'[r] = len[r]
  <2>1. len'[r] = len[r] + Len(<<>>)
    BY <1>1, ChunkRow
  <2> QED
    BY <1>2, <2>1
<1>5. target'[r] = target[r] /\ mtpKv'[r] = mtpKv[r]
  BY <1>1, ChunkRow DEF Nothing
<1>6. DOMAIN kv'[r] = 1..MaxLen /\ KvOf(kv'[r], history[r], len[r])
  <2> DEFINE c == ChunkContexts(r)
  <2>1. kv'[r] = Written(kv[r], len[r], c)
    BY <1>1, ChunkRow
  <2>2. DOMAIN c = 1..0
    <3>1. DOMAIN Contexts(r, len[r], <<>>) = DOMAIN <<>>
      BY DEF Contexts
    <3>2. c = Contexts(r, len[r], <<>>)
      BY <1>1 DEF ChunkContexts
    <3> HIDE DEF c
    <3>3. DOMAIN <<>> = 1..0
      OBVIOUS
    <3> QED
      BY <3>1, <3>2, <3>3
  <2> HIDE DEF c
  <2>3. DOMAIN kv'[r] = 1..MaxLen /\ \A p \in 1..MaxLen : p <= len[r] => kv'[r][p] = kv[r][p]
    BY <1>2, <2>1, <2>2, WrittenIs
  <2>4. \A p \in 1..len[r] : p \in 1..MaxLen /\ p <= len[r]
    BY <1>2
  <2> QED
    BY <1>2, <2>3, <2>4 DEF KvOf
<1> QED
  BY <1>1, <1>2, <1>3, <1>4, <1>5, <1>6 DEF Nothing

\* The text of a row with its chunk, and what the device holds of it then.
LEMMA ChunkSome ==
  ASSUME MtpAssumption, TypeOK, NEW reported \in 0..Rows, RunChunk(reported),
         NEW r \in Row, IdleRow(r), Takes[r] # 0
  PROVE  LET new == history[r] \o SubSeq(todo[r], 1, Takes[r])
             rest == SubSeq(todo[r], Takes[r] + 1, Len(todo[r]))
         IN /\ new \in Seq(Token) /\ Len(new) \in Nat /\ Len(new) # 0 /\ Len(new) <= MaxLen /\ Begins(history[r], new)
            /\ rest \in Seq(Token) /\ prompt[r] = new \o rest /\ (rest = Nothing => Takes[r] = Len(todo[r]))
            /\ todo[r] # Nothing /\ ChunkOf(r) # Nothing
            /\ len'[r] = Len(new) /\ Selects(new) \in Token
            /\ r <= reported => history'[r] = new /\ target'[r] = Selects(new)
            /\ ~(r <= reported) => /\ history'[r] \in Seq(Token) /\ Begins(history'[r], history[r])
                                  /\ target'[r] \in Token \cup {None}
            /\ DOMAIN kv'[r] = 1..MaxLen /\ DOMAIN mtpKv'[r] = 1..MaxLen
            /\ KvOf(kv'[r], new, Len(new)) /\ MtpOf(mtpKv'[r], new, Len(new) - 1)
<1> DEFINE h == history[r]
           n == Len(h)
           take == Takes[r]
           td == todo[r]
           d == SubSeq(td, 1, take)
           o == Overlap(r)
           m == n - Len(o)
           base == SubSeq(h, 1, m)
           input == o \o d
           k == Len(input)
           new == h \o d
           rest == SubSeq(td, take + 1, Len(td))
           ctx == ChunkContexts(r)
           sh == Shifted(ctx, Append(Tail(input), 0))
           p0 == prompt[r]
<1>1. /\ h \in Seq(Token) /\ n \in Nat /\ td \in Seq(Token) /\ Len(td) \in Nat /\ MaxLen \in Nat
      /\ p0 \in Seq(Token) /\ Len(p0) \in 1..MaxLen
      /\ DOMAIN kv[r] = 1..MaxLen /\ DOMAIN mtpKv[r] = 1..MaxLen /\ published[r] \in Seq(Token)
  BY RowFacts, LenProperties, Constants
<1>2. take \in Nat /\ take > 0 /\ take <= Len(td) /\ td # Nothing
  <2>1. take \in Nat /\ take <= Len(td) /\ take # 0
    BY TakesFacts
  <2>2. Len(td) # 0
    BY <1>1, <2>1
  <2> QED
    BY <2>1, <2>2, EmptySeq DEF Nothing
<1>3. /\ len[r] = n /\ n <= MaxLen /\ KvOf(kv[r], h, n) /\ MtpOf(mtpKv[r], h, n - 1)
      /\ p0 = h \o td
  BY <1>2 DEF IdleRow
<1>4. /\ o \in Seq(Token) /\ Len(o) \in {0, 1} /\ Len(o) <= n
      /\ o = IF h = Nothing THEN Nothing ELSE <<h[n]>>
  BY <1>2, OverlapFacts
<1>5. d \in Seq(Token) /\ Len(d) = take
  BY <1>1, <1>2, SubFacts
<1> HIDE DEF o, d
<1>6. input \in Seq(Token) /\ k = Len(o) + take
  BY <1>4, <1>5, JoinFacts
<1>7. new \in Seq(Token) /\ Len(new) = n + take /\ Begins(h, new)
  <2>1. h \in Seq(Token) /\ d \in Seq(Token)
    BY <1>1, <1>5
  <2> HIDE DEF h, take
  <2>2. h \o d \in Seq(Token) /\ Len(h \o d) = Len(h) + Len(d) /\ Begins(h, h \o d)
    BY <2>1, JoinFacts
  <2> QED
    BY <1>5, <2>2
<1>8. m \in Nat /\ m <= n /\ k \in Nat /\ k > 0 /\ m + k = n + take /\ n + take \in Nat
  <2> DEFINE l == Len(o)
  <2>1. n \in Nat /\ take \in Nat /\ take > 0 /\ l \in {0, 1} /\ l <= n /\ m = n - l /\ k = l + take
    BY <1>1, <1>2, <1>4, <1>6
  <2> HIDE DEF n, take, l, m, k
  <2> QED
    BY <2>1
<1>9. ChunkOf(r) = input /\ ChunkStart(r) = m /\ input # Nothing
  <2>1. ChunkOf(r) = input /\ ChunkStart(r) = m
    <3>1. ChunkOf(r) = input
      BY <1>2 DEF ChunkOf, o, d
    <3>2. Rewound(r) <=> o # Nothing
      BY <1>2 DEF Rewound, o
    <3>3. o = Nothing <=> Len(o) = 0
      BY <1>4, EmptySeq DEF Nothing
    <3>4. ChunkStart(r) = IF o # Nothing THEN n - 1 ELSE n
      BY <1>3, <3>2 DEF ChunkStart
    <3> DEFINE l == Len(o)
    <3>5. l \in {0, 1} /\ m = n - l /\ n \in Nat
      BY <1>1, <1>4
    <3>6. o = Nothing <=> l = 0
      BY <3>3
    <3> HIDE DEF n, m, l
    <3>7. ChunkStart(r) = m
      <4>1. CASE o = Nothing
        <5>1. ChunkStart(r) = n
          BY <3>4, <4>1
        <5>2. l = 0
          BY <3>6, <4>1
        <5> QED
          BY <3>5, <5>1, <5>2
      <4>2. CASE o # Nothing
        <5>1. ChunkStart(r) = n - 1
          BY <3>4, <4>2
        <5>2. l = 1
          BY <3>5, <3>6, <4>2
        <5> QED
          BY <3>5, <5>1, <5>2
      <4> QED
        BY <4>1, <4>2
    <3> QED
      BY <3>1, <3>7
  <2>2. input # Nothing
    BY <1>6, <1>8, EmptySeq DEF Nothing
  <2> QED
    BY <2>1, <2>2
<1>10. base \in Seq(Token) /\ Len(base) = m /\ Begins(base, h)
  BY <1>1, <1>8, SubFacts
<1>11. base \o o = h
  <2>1. CASE h = Nothing
    <3>1. o = <<>> /\ Len(o) = 0 /\ m = n
      BY <1>1, <1>4, <2>1 DEF Nothing
    <3>2. base = h
      BY <1>1, <3>1, SubSeqFull
    <3> QED
      BY <1>1, <3>1, <3>2, ConcatEmptySeq
  <2>2. CASE h # Nothing
    <3>1. o = <<h[n]>> /\ Len(o) = 1
      BY <1>4, <2>2
    <3>2. n # 0 /\ m + 1 = n /\ m < n
      BY <1>1, <1>8, <3>1
    <3>3. n \in 1..n /\ h[n] \in Token
      <4>1. n \in 1..n
        BY <1>1, <3>2
      <4> QED
        BY <1>1, <4>1, ElementOfSeq
    <3> HIDE DEF n, m
    <3>4. Append(base, h[m + 1]) = SubSeq(h, 1, m + 1)
      BY <1>1, <1>8, <3>2, SubNext DEF n
    <3>5. SubSeq(h, 1, n) = h
      BY <1>1, SubSeqFull DEF n
    <3>6. base \o <<h[n]>> = Append(base, h[n])
      BY <1>10, <3>3, AppendIsConcat
    <3> QED
      BY <3>1, <3>2, <3>4, <3>5, <3>6
  <2> QED
    BY <2>1, <2>2
<1> HIDE DEF base
<1>12. base \o input = new
  <2>1. (base \o o) \o d = base \o (o \o d)
    BY <1>4, <1>5, <1>10, JoinAssoc
  <2> QED
    BY <1>11, <2>1
<1>13. \A j \in 1..k : input[j] = new[m + j]
  <2>1. \A j \in 1..Len(input) : (base \o input)[Len(base) + j] = input[j]
    BY <1>6, <1>10, JoinFacts
  <2> QED
    BY <1>10, <1>12, <2>1
<1> HIDE DEF h, td, take, p0
<1>14. rest \in Seq(Token) /\ d \o rest = td /\ p0 = new \o rest /\ (rest = Nothing => take = Len(td))
  <2>1. /\ 1 \in 1..(Len(td) + 1) /\ take \in (1 - 1)..Len(td) /\ Len(td) \in take..Len(td)
    BY <1>1, <1>2
  <2>2. SubSeq(td, 1, take) \o SubSeq(td, take + 1, Len(td)) = SubSeq(td, 1, Len(td))
    BY <1>1, <2>1, ConcatAdjacentSubSeq
  <2>3. SubSeq(td, 1, Len(td)) = td
    BY <1>1, SubSeqFull
  <2>4. d \o rest = td
    BY <2>2, <2>3 DEF d, td, take
  <2>5. \A i \in (take + 1)..Len(td) : td[i] \in Token
    <3>1. \A i \in (take + 1)..Len(td) : i \in 1..Len(td)
      BY <1>1, <1>2
    <3> QED
      BY <1>1, <3>1, ElementOfSeq
  <2>6. take + 1 \in Int /\ Len(td) \in Int
    BY <1>1, <1>2
  <2>7. rest \in Seq(Token) /\ Len(rest) = (IF take + 1 <= Len(td) THEN Len(td) - (take + 1) + 1 ELSE 0)
    BY <2>5, <2>6, SubSeqProperties
  <2>8. rest = Nothing => take = Len(td)
    <3>1. rest = Nothing => Len(rest) = 0
      BY EmptySeq DEF Nothing
    <3> HIDE DEF rest
    <3> QED
      BY <1>1, <1>2, <2>7, <3>1
  <2> HIDE DEF rest
  <2>9. (h \o d) \o rest = h \o (d \o rest)
    <3>1. h \in Seq(Token) /\ d \in Seq(Token) /\ rest \in Seq(Token)
      BY <1>1, <1>5, <2>7
    <3> QED
      BY <3>1, JoinAssoc
  <2> QED
    BY <1>3, <2>4, <2>7, <2>8, <2>9
<1> HIDE DEF rest, new, input
<1>15. n + take <= MaxLen /\ n + take <= Len(p0)
  <2>1. Len(new \o rest) = Len(new) + Len(rest) /\ Len(rest) \in Nat
    BY <1>7, <1>14, JoinFacts, LenProperties
  <2> QED
    BY <1>1, <1>7, <1>8, <1>14, <2>1
<1>16. /\ DOMAIN ctx = 1..k
       /\ \A j \in 1..k : ctx[j] = SubSeq(new, 1, m + j) /\ m + j \in Nat /\ m + j <= n + take
  <2>1. KvOf(kv[r], h, m)
    <3>1. \A p \in 1..m : p \in 1..n
      BY <1>1, <1>8
    <3> QED
      BY <1>3, <3>1 DEF KvOf
  <2>2. m <= Len(h)
    BY <1>8
  <2> HIDE DEF m, n, k
  <2>3. /\ DOMAIN Contexts(r, m, input) = 1..Len(input)
        /\ \A j \in 1..Len(input) : Contexts(r, m, input)[j] = SubSeq(h, 1, m) \o SubSeq(input, 1, j)
    BY <1>1, <1>6, <1>8, <2>1, <2>2, ContextsIs
  <2>4. ctx = Contexts(r, m, input) /\ base = SubSeq(h, 1, m) /\ k = Len(input)
    BY <1>9 DEF ChunkContexts, base, k
  <2>5. ASSUME NEW j \in 1..k PROVE ctx[j] = SubSeq(new, 1, m + j) /\ m + j \in Nat /\ m + j <= n + take
    <3>1. j \in Nat /\ j <= Len(input) /\ m + j \in Nat /\ m + j <= n + take
      BY <1>8, <2>4
    <3>2. SubSeq(base \o input, 1, Len(base) + j) = base \o SubSeq(input, 1, j)
      BY <1>6, <1>10, <3>1, JoinSub
    <3> QED
      BY <1>10, <1>12, <2>3, <2>4, <3>1, <3>2
  <2> QED
    BY <2>3, <2>4, <2>5
<1>17. Last(ctx) = new
  <2>1. \A j \in 1..k : ctx[j] \in Seq(Token)
    BY <1>7, <1>16, SubFacts
  <2>2. ctx = [j \in 1..k |-> ctx[j]]
    <3>1. ctx = [j \in DOMAIN ChunkOf(r) |-> Context(r, ChunkStart(r)) \o SubSeq(ChunkOf(r), 1, j)]
      BY DEF ChunkContexts, Contexts
    <3> HIDE DEF ctx
    <3> QED
      BY <1>16, <3>1
  <2> HIDE DEF ctx
  <2>3. Len(ctx) = k
    <3>1. ctx \in [1..k -> Seq(Token)]
      BY <2>1, <2>2
    <3>2. k \in Nat
      BY <1>8
    <3> HIDE DEF k
    <3> QED
      BY <3>1, <3>2
  <2>4. ctx[k] = SubSeq(new, 1, n + take)
    <3>1. k \in 1..k
      BY <1>8
    <3> QED
      BY <1>8, <1>16, <3>1
  <2>5. SubSeq(new, 1, n + take) = new
    BY <1>7, SubSeqFull
  <2> QED
    BY <2>3, <2>4, <2>5 DEF Last
<1> HIDE DEF ctx
<1>18. Selects(new) \in Token
  <2>1. Len(new) \in 1..MaxLen
    BY <1>1, <1>2, <1>7, <1>15
  <2> QED
    BY <1>7, <2>1, Constants
<1>19. /\ r <= reported => history'[r] = new /\ target'[r] = Selects(new)
       /\ ~(r <= reported) => history'[r] = base /\ target'[r] \in Token \cup {None}
       /\ len'[r] = n + take
       /\ kv'[r] = Written(kv[r], m, ctx)
       /\ mtpKv'[r] = Written(mtpKv[r], m, sh)
  <2>1. /\ history'[r] = SubSeq(h, 1, m) \o (IF r <= reported THEN input ELSE Nothing)
        /\ len'[r] = m + Len(input)
        /\ target'[r] = IF r <= reported THEN Selects(Last(ctx)) ELSE IF Rewound(r) THEN Last(h) ELSE target[r]
        /\ kv'[r] = Written(kv[r], m, ctx)
        /\ mtpKv'[r] = Written(mtpKv[r], m, sh)
    BY <1>9, ChunkRow DEF h, ctx
  <2>2. base = SubSeq(h, 1, m) /\ m + Len(input) = n + take
    BY <1>8 DEF base
  <2>3. base \o Nothing = base
    BY <1>10, ConcatEmptySeq DEF Nothing
  <2>4. Rewound(r) => Last(h) \in Token
    <3>1. Rewound(r) => h # Nothing
      BY DEF Rewound, Overlap, h
    <3> QED
      BY <1>1, <3>1, FrontFacts
  <2>5. target[r] \in Token \cup {None}
    BY RowFacts
  <2> QED
    BY <1>12, <1>17, <2>1, <2>2, <2>3, <2>4, <2>5
<1>20. \A j \in 1..k : j # k => sh[j] = SubSeq(new, 1, m + j + 1)
  <2> SUFFICES ASSUME NEW j \in 1..k, j # k PROVE sh[j] = SubSeq(new, 1, m + j + 1)
    OBVIOUS
  <2> DEFINE S == Token \cup {0}
             tail == Tail(input)
  <2>1. j + 1 \in 1..k /\ m + j < n + take /\ m + j \in Nat /\ j \in 1..(k - 1) /\ m + (j + 1) = (m + j) + 1
    BY <1>8
  <2>2. tail \in Seq(S) /\ Len(tail) = k - 1 /\ \A i \in 1..Len(tail) : tail[i] = input[i + 1]
    <3>1. input # <<>>
      BY <1>9 DEF Nothing
    <3>2. tail \in Seq(Token) /\ Len(tail) = Len(input) - 1 /\ \A i \in 1..Len(tail) : tail[i] = input[i + 1]
      BY <1>6, <3>1, HeadTailProperties
    <3>3. Token \subseteq S
      OBVIOUS
    <3> HIDE DEF tail, S
    <3> QED
      BY <3>2, <3>3, SeqMonotonic
  <2>3. 0 \in S
    OBVIOUS
  <2> HIDE DEF S, tail
  <2>4. Append(tail, 0)[j] = tail[j]
    <3>1. \A i \in 1..Len(tail) : Append(tail, 0)[i] = tail[i]
      BY <2>2, <2>3, AppendProperties
    <3> QED
      BY <2>1, <2>2, <3>1
  <2>5. tail[j] = new[(m + j) + 1]
    BY <1>13, <2>1, <2>2
  <2>6. sh[j] = Append(ctx[j], Append(tail, 0)[j])
    BY <1>16 DEF Shifted, tail
  <2>7. Append(SubSeq(new, 1, m + j), new[(m + j) + 1]) = SubSeq(new, 1, (m + j) + 1)
    BY <1>7, <2>1, SubNext
  <2> QED
    BY <1>16, <2>4, <2>5, <2>6, <2>7
<1>21. DOMAIN sh = 1..k
  BY <1>16 DEF Shifted
<1> HIDE DEF sh, n, m, k
<1>22. /\ DOMAIN kv'[r] = 1..MaxLen /\ \A p \in 1..MaxLen : p <= m => kv'[r][p] = kv[r][p]
       /\ \A j \in 1..k : m + j <= MaxLen => kv'[r][m + j] = ctx[j]
  BY <1>1, <1>8, <1>16, <1>19, WrittenIs
<1>23. /\ DOMAIN mtpKv'[r] = 1..MaxLen /\ \A p \in 1..MaxLen : p <= m => mtpKv'[r][p] = mtpKv[r][p]
       /\ \A j \in 1..k : m + j <= MaxLen => mtpKv'[r][m + j] = sh[j]
  BY <1>1, <1>8, <1>19, <1>21, WrittenIs
<1>24. KvOf(kv'[r], new, n + take)
  <2>1. KvOf(kv[r], new, n)
    <3>1. n <= Len(h) /\ n \in Nat
      BY <1>1 DEF n
    <3> QED
      BY <1>1, <1>3, <1>7, <3>1, KvGrow
  <2>2. ASSUME NEW p \in 1..(n + take) PROVE kv'[r][p] = SubSeq(new, 1, p)
    <3>1. CASE p <= m
      <4>1. p \in 1..n /\ p \in 1..MaxLen
        BY <1>8, <1>1, <1>3, <3>1
      <4> QED
        BY <1>22, <2>1, <3>1, <4>1 DEF KvOf
    <3>2. CASE ~(p <= m)
      <4>1. p - m \in 1..k /\ m + (p - m) = p /\ p <= MaxLen
        BY <1>1, <1>8, <1>15, <3>2
      <4>2. kv'[r][m + (p - m)] = ctx[p - m] /\ ctx[p - m] = SubSeq(new, 1, m + (p - m))
        BY <1>16, <1>22, <4>1
      <4> QED
        BY <4>1, <4>2
    <3> QED
      BY <3>1, <3>2
  <2> QED
    BY <2>2 DEF KvOf
<1>25. MtpOf(mtpKv'[r], new, (n + take) - 1)
  <2>1. \A p \in 1..m : p <= n - 1 => mtpKv[r][p] = SubSeq(new, 1, p + 1)
    <3>1. (n - 1) + 1 <= Len(h) /\ n - 1 \in Int
      BY <1>1 DEF n
    <3>2. MtpOf(mtpKv[r], new, n - 1)
      BY <1>1, <1>3, <1>7, <3>1, MtpGrow
    <3>3. \A p \in 1..m : p <= n - 1 => p \in 1..(n - 1)
      BY <1>8, <3>1
    <3> QED
      BY <3>2, <3>3 DEF MtpOf
  <2>2. m > 0 => m = n - 1
    <3>1. h = Nothing => n = 0
      BY EmptySeq DEF n, Nothing
    <3>2. h # Nothing => Len(o) = 1
      <4>1. h # Nothing => o = <<h[n]>>
        BY <1>4
      <4>2. Len(<<h[n]>>) = 1
        OBVIOUS
      <4> QED
        BY <4>1, <4>2
    <3> DEFINE l == Len(o)
    <3>3. m = n - l /\ n \in Nat /\ l = Len(o)
      BY <1>1 DEF m, n
    <3> HIDE DEF l
    <3>4. m \in Nat /\ m <= n
      BY <1>8
    <3> QED
      BY <3>1, <3>2, <3>3, <3>4
  <2>3. ASSUME NEW p \in 1..((n + take) - 1) PROVE mtpKv'[r][p] = SubSeq(new, 1, p + 1)
    <3>1. CASE p <= m
      <4>1. p \in 1..m /\ p <= n - 1 /\ p \in 1..MaxLen
        BY <1>8, <1>1, <1>3, <2>2, <3>1
      <4> QED
        BY <1>23, <2>1, <4>1, <3>1
    <3>2. CASE ~(p <= m)
      <4>1. p - m \in 1..k /\ p - m # k /\ m + (p - m) = p /\ p <= MaxLen
        BY <1>1, <1>8, <1>15, <3>2
      <4>2. mtpKv'[r][m + (p - m)] = sh[p - m] /\ sh[p - m] = SubSeq(new, 1, m + (p - m) + 1)
        BY <1>20, <1>23, <4>1
      <4> QED
        BY <4>1, <4>2
    <3> QED
      BY <3>1, <3>2
  <2> QED
    BY <2>3 DEF MtpOf
<1>26. /\ Len(new) \in Nat /\ Len(new) # 0 /\ Len(new) <= MaxLen /\ len'[r] = Len(new)
       /\ KvOf(kv'[r], new, Len(new))
  BY <1>2, <1>7, <1>8, <1>15, <1>19, <1>24
<1>27. MtpOf(mtpKv'[r], new, Len(new) - 1)
  <2>1. Len(new) = n + take
    BY <1>7
  <2> QED
    BY <1>25, <2>1
<1>28. ~(r <= reported) => /\ history'[r] \in Seq(Token) /\ Begins(history'[r], h)
                           /\ target'[r] \in Token \cup {None}
  BY <1>10, <1>19
<1>29. ChunkOf(r) # Nothing
  BY <1>9
<1>30. r <= reported => history'[r] = new /\ target'[r] = Selects(new)
  BY <1>19
<1>31. /\ new \in Seq(Token) /\ Begins(h, new) /\ rest \in Seq(Token) /\ p0 = new \o rest
       /\ (rest = Nothing => take = Len(td)) /\ td # Nothing
       /\ DOMAIN kv'[r] = 1..MaxLen /\ DOMAIN mtpKv'[r] = 1..MaxLen
  BY <1>2, <1>7, <1>14, <1>22, <1>23
<1> DEFINE Done(x, y) ==
            /\ x \in Seq(Token) /\ Len(x) \in Nat /\ Len(x) # 0 /\ Len(x) <= MaxLen /\ Begins(history[r], x)
            /\ y \in Seq(Token) /\ prompt[r] = x \o y /\ (y = Nothing => Takes[r] = Len(todo[r]))
            /\ todo[r] # Nothing /\ ChunkOf(r) # Nothing
            /\ len'[r] = Len(x) /\ Selects(x) \in Token
            /\ r <= reported => history'[r] = x /\ target'[r] = Selects(x)
            /\ ~(r <= reported) => /\ history'[r] \in Seq(Token) /\ Begins(history'[r], history[r])
                                  /\ target'[r] \in Token \cup {None}
            /\ DOMAIN kv'[r] = 1..MaxLen /\ DOMAIN mtpKv'[r] = 1..MaxLen
            /\ KvOf(kv'[r], x, Len(x)) /\ MtpOf(mtpKv'[r], x, Len(x) - 1)
<1>32. Done(new, rest)
  BY <1>18, <1>26, <1>27, <1>28, <1>29, <1>30, <1>31 DEF h, td, take, p0
<1> QED
  BY <1>32 DEF new, rest, h, d, td, take

\* A row that is given nothing stays as it is.
LEMMA PrefillNothing ==
  ASSUME MtpAssumption, TypeOK, Prefill, NEW r \in Row, IdleRow(r), Takes[r] = 0
  PROVE  /\ IdleRow(r)' /\ history'[r] = history[r] /\ len'[r] = len[r] /\ target'[r] = target[r]
         /\ todo'[r] = todo[r] /\ published'[r] = published[r]
         /\ DOMAIN kv'[r] = 1..MaxLen /\ DOMAIN mtpKv'[r] = 1..MaxLen
<1>1. RunChunk(Rows) /\ Rows \in 0..Rows /\ prompt' = prompt
  BY Constants DEF Prefill
<1>2. /\ ChunkOf(r) = Nothing /\ history'[r] = history[r] /\ len'[r] = len[r] /\ target'[r] = target[r]
      /\ DOMAIN kv'[r] = 1..MaxLen /\ DOMAIN mtpKv'[r] = 1..MaxLen
      /\ KvOf(kv'[r], history[r], len[r]) /\ mtpKv'[r] = mtpKv[r]
  BY <1>1, ChunkNothing
<1>3. todo'[r] = todo[r]
  <2>0. Takes[r] + 1 = 1
    OBVIOUS
  <2>1. todo'[r] = SubSeq(todo[r], 1, Len(todo[r]))
    BY <2>0, PrefillRow
  <2>2. todo[r] \in Seq(Token)
    BY RowFacts
  <2> QED
    BY <2>1, <2>2, SubSeqFull
<1>4. published'[r] = published[r]
  BY <1>2, PrefillRow
<1>5. Full(r)' = Full(r)
  BY <1>2 DEF Full
<1>6. Told(r) => Told(r)'
  BY <1>1, <1>2, <1>4, <1>5 DEF Told
<1>7. IdleRow(r)'
  BY <1>1, <1>2, <1>3, <1>5, <1>6 DEF IdleRow
<1> QED
  BY <1>2, <1>3, <1>4, <1>7

\* A row that is given a chunk.
LEMMA PrefillSome ==
  ASSUME MtpAssumption, TypeOK, Prefill, NEW r \in Row, IdleRow(r), Takes[r] # 0
  PROVE  /\ IdleRow(r)' /\ history'[r] \in Seq(Token) /\ len'[r] \in Nat /\ target'[r] \in Token
         /\ todo'[r] \in Seq(Token) /\ published'[r] \in Seq(Token)
         /\ DOMAIN kv'[r] = 1..MaxLen /\ DOMAIN mtpKv'[r] = 1..MaxLen
<1> DEFINE new == history[r] \o SubSeq(todo[r], 1, Takes[r])
           rest == SubSeq(todo[r], Takes[r] + 1, Len(todo[r]))
           p0 == prompt[r]
<1>1. RunChunk(Rows) /\ Rows \in 0..Rows /\ r <= Rows /\ prompt' = prompt
  BY Constants DEF Prefill
<1>2. /\ new \in Seq(Token) /\ Len(new) \in Nat /\ Len(new) # 0 /\ Len(new) <= MaxLen
      /\ rest \in Seq(Token) /\ p0 = new \o rest /\ (rest = Nothing => Takes[r] = Len(todo[r]))
      /\ ChunkOf(r) # Nothing /\ len'[r] = Len(new) /\ Selects(new) \in Token
      /\ history'[r] = new /\ target'[r] = Selects(new)
      /\ DOMAIN kv'[r] = 1..MaxLen /\ DOMAIN mtpKv'[r] = 1..MaxLen
      /\ KvOf(kv'[r], new, Len(new)) /\ MtpOf(mtpKv'[r], new, Len(new) - 1)
  BY <1>1, ChunkSome
<1>3. /\ todo'[r] = rest
      /\ published'[r] = IF Takes[r] = Len(todo[r]) THEN <<Selects(new)>> ELSE published[r]
  BY <1>2, PrefillRow
<1> HIDE DEF new, rest
<1>4. rest = Nothing => /\ Right(Append(new, Selects(new)), p0) /\ Len(p0) <= Len(new)
                         /\ p0 \o <<Selects(new)>> = Append(new, Selects(new))
  <2> SUFFICES ASSUME rest = Nothing
               PROVE  /\ Right(Append(new, Selects(new)), p0) /\ Len(p0) <= Len(new)
                      /\ p0 \o <<Selects(new)>> = Append(new, Selects(new))
    OBVIOUS
  <2> DEFINE b == Append(new, Selects(new))
             l == Len(new)
  <2>1. p0 = new
    BY <1>2, ConcatEmptySeq DEF Nothing
  <2>2. /\ b \in Seq(Token) /\ Len(b) = l + 1 /\ Begins(new, b) /\ b[l + 1] = Selects(new)
        /\ SubSeq(b, 1, l) = new
    BY <1>2, AppendFacts
  <2>3. l \in Nat /\ l <= l
    BY <1>2
  <2>4. Right(new, p0)
    BY <2>1 DEF Right
  <2> HIDE DEF b
  <2>5. \A p \in (l + 1)..Len(b) : b[p] = Selects(SubSeq(b, 1, p - 1))
    <3>1. \A p \in (l + 1)..Len(b) : p = l + 1 /\ p - 1 = l
      BY <2>2, <2>3
    <3> QED
      BY <2>2, <3>1
  <2>6. Right(b, p0)
    BY <1>2, <2>1, <2>2, <2>3, <2>4, <2>5, RightGrow
  <2>7. new \o <<Selects(new)>> = b
    BY <1>2, AppendIsConcat DEF b
  <2> QED
    BY <2>1, <2>3, <2>6, <2>7 DEF b
<1>5. Full(r)' = Append(new, Selects(new))
  BY <1>2 DEF Full
<1>6. rest = Nothing => Told(r)'
  BY <1>1, <1>2, <1>3, <1>4, <1>5 DEF Told
<1>7. IdleRow(r)'
  BY <1>1, <1>2, <1>3, <1>4, <1>5, <1>6 DEF IdleRow
<1>8. published'[r] \in Seq(Token)
  BY <1>2, <1>3, RowFacts
<1> QED
  BY <1>2, <1>3, <1>7, <1>8

\* A prefill.
LEMMA PrefillInv ==
  ASSUME MtpAssumption, IInv, Prefill
  PROVE  IInv'
<1> USE DEF IInv
<1>1. gen.phase = "idle" /\ UNCHANGED <<prompt, seed, gen, flight, result, device>>
  BY DEF Prefill, CanPrefill
<1>2. flight.op = "none" /\ \A r \in Row : IdleRow(r)
  BY <1>1 DEF PhaseInv
<1>3. ASSUME NEW r \in Row
      PROVE  /\ IdleRow(r)' /\ history'[r] \in Seq(Token) /\ len'[r] \in Nat /\ target'[r] \in Token \cup {None}
             /\ todo'[r] \in Seq(Token) /\ published'[r] \in Seq(Token)
             /\ DOMAIN kv'[r] = 1..MaxLen /\ DOMAIN mtpKv'[r] = 1..MaxLen
  <2>1. CASE Takes[r] = 0
    BY <1>2, <2>1, PrefillNothing, RowFacts
  <2>2. CASE Takes[r] # 0
    BY <1>2, <2>2, PrefillSome
  <2> QED
    BY <2>1, <2>2
<1>4. TypeOK'
  <2> DEFINE h == history'
             l == len'
             t == target'
             d == todo'
             b == published'
  <2>1. /\ DOMAIN h = Row /\ h = [r \in Row |-> h[r]] /\ DOMAIN l = Row /\ l = [r \in Row |-> l[r]]
        /\ DOMAIN t = Row /\ t = [r \in Row |-> t[r]] /\ DOMAIN d = Row /\ d = [r \in Row |-> d[r]]
        /\ DOMAIN b = Row /\ b = [r \in Row |-> b[r]]
    BY DEF Prefill, RunChunk
  <2>2. \A r \in Row : /\ h[r] \in Seq(Token) /\ l[r] \in Nat /\ t[r] \in Token \cup {None}
                       /\ d[r] \in Seq(Token) /\ b[r] \in Seq(Token)
    BY <1>3
  <2> HIDE DEF h, l, t, d, b
  <2>3. /\ h \in [Row -> Seq(Token)] /\ l \in [Row -> Nat] /\ t \in [Row -> Token \cup {None}]
        /\ d \in [Row -> Seq(Token)] /\ b \in [Row -> Seq(Token)]
    BY <2>1, <2>2
  <2> QED
    BY <1>1, <1>3, <2>3 DEF TypeOK, h, l, t, d, b
<1> QED
  BY <1>1, <1>2, <1>3, <1>4 DEF PhaseInv, Working, Dropped

\* An exception in a prefill.
LEMMA PrefillFailsInv ==
  ASSUME MtpAssumption, IInv, PrefillFails
  PROVE  IInv'
<1> USE DEF IInv
<1>1. /\ gen.phase = "idle" /\ gen' = [Idle EXCEPT !.phase = "failed"]
      /\ UNCHANGED <<prompt, todo, published, seed, flight, result, device>>
  BY DEF PrefillFails, CanPrefill, requests
<1>2. flight.op = "none" /\ \A r \in Row : IdleRow(r) /\ SoundRow(r)
  BY <1>1, SoundRows DEF PhaseInv
<1>3. gen' \in GenType /\ gen'.phase = "failed"
  BY <1>1, NoGen DEF Dropped
<1>4. ASSUME history' \in [Row -> Seq(Token)], len' \in [Row -> Nat], target' \in [Row -> Token \cup {None}],
             \A r \in Row : SoundRow(r)' /\ DOMAIN kv'[r] = 1..MaxLen /\ DOMAIN mtpKv'[r] = 1..MaxLen
      PROVE  IInv'
  <2>1. TypeOK'
    BY <1>1, <1>3, <1>4 DEF TypeOK
  <2> QED
    BY <1>1, <1>2, <1>3, <1>4, <2>1 DEF PhaseInv, Working
<1>5. CASE PrefillRewindFails
  <2>1. kv' = kv /\ mtpKv' = mtpKv
    BY <1>5 DEF PrefillRewindFails
  <2>2. PICK k \in Row, torn \in BOOLEAN :
          Rewind({r \in Row : Rewound(r) /\ r < k}, {r \in Row : Rewound(r) /\ r = k /\ torn})
    BY <1>5 DEF PrefillRewindFails
  <2> DEFINE cuts == {r \in Row : Rewound(r) /\ r < k}
             tears == {r \in Row : Rewound(r) /\ r = k /\ torn}
  <2>3. /\ cuts \in SUBSET Row /\ tears \in SUBSET Row /\ Rewind(cuts, tears)
        /\ \A r \in cuts \cup tears : history[r] # Nothing
    BY <2>2 DEF Rewound, Overlap
  <2> HIDE DEF cuts, tears
  <2>4. /\ history' \in [Row -> Seq(Token)] /\ len' \in [Row -> Nat] /\ target' \in [Row -> Token \cup {None}]
        /\ \A r \in Row : SoundRow(r)'
    BY <1>1, <2>1, <2>3, RewindSound
  <2> QED
    BY <1>4, <2>1, <2>4 DEF TypeOK
<1>6. CASE PrefillPlanFails
  <2>1. /\ kv' = kv /\ mtpKv' = mtpKv
        /\ history' = [r \in Row |-> SubSeq(history[r], 1, ChunkStart(r))]
        /\ target' = [r \in Row |-> IF Rewound(r) THEN Last(history[r]) ELSE target[r]]
    BY <1>6 DEF PrefillPlanFails
  <2>2. PICK reserved \in SUBSET {r \in Row : Takes[r] # 0} :
          len' = [r \in Row |-> ChunkStart(r) + (IF r \in reserved THEN Len(ChunkOf(r)) ELSE 0)]
    BY <1>6 DEF PrefillPlanFails
  <2>3. ASSUME NEW r \in Row
        PROVE  /\ SoundRow(r)' /\ history'[r] \in Seq(Token) /\ len'[r] \in Nat /\ target'[r] \in Token \cup {None}
    <3> DEFINE a == history[r]
               n == ChunkStart(r)
    <3>1. /\ a \in Seq(Token) /\ Len(a) \in Nat /\ len[r] = Len(a) /\ todo[r] \in Seq(Token)
          /\ target[r] \in Token \cup {None}
      BY <1>2, RowFacts DEF IdleRow
    <3>2. /\ Takes[r] # 0 => todo[r] # Nothing
          /\ Takes[r] \in Nat /\ Takes[r] <= Len(todo[r])
      <4>1. Takes[r] \in Nat /\ Takes[r] <= Len(todo[r])
        BY TakesFacts
      <4>2. todo[r] = Nothing => Len(todo[r]) = 0
        BY DEF Nothing
      <4> QED
        BY <4>1, <4>2
    <3>3. Rewound(r) => /\ a # Nothing /\ Len(a) - 1 \in Nat /\ Len(a) - 1 < Len(a) /\ n = Len(a) - 1
                        /\ Last(a) = a[(Len(a) - 1) + 1] /\ Last(a) \in Token /\ todo[r] # Nothing
      <4>1. Rewound(r) => a # Nothing /\ n = Len(a) - 1 /\ todo[r] # Nothing
        BY <3>1, <3>2 DEF Rewound, Overlap, ChunkStart
      <4> QED
        BY <3>1, <4>1, FrontFacts
    <3>4. ~Rewound(r) => n = Len(a)
      BY <3>1 DEF ChunkStart
    <3>5. n \in Nat /\ n <= Len(a)
      BY <3>1, <3>3, <3>4
    <3>6. Len(ChunkOf(r)) \in Nat
      <4>1. Overlap(r) \in Seq(Token)
        BY OverlapFacts
      <4>2. SubSeq(todo[r], 1, Takes[r]) \in Seq(Token)
        BY <3>1, <3>2, SubFacts
      <4>3. Nothing \in Seq(Token)
        BY DEF Nothing
      <4>4. ChunkOf(r) \in Seq(Token)
        BY <4>1, <4>2, <4>3, ConcatProperties DEF ChunkOf
      <4> QED
        BY <4>4, LenProperties
    <3>7. /\ history'[r] = SubSeq(a, 1, n) /\ target'[r] = IF Rewound(r) THEN Last(a) ELSE target[r]
          /\ len'[r] = n + (IF r \in reserved THEN Len(ChunkOf(r)) ELSE 0)
      BY <2>1, <2>2
    <3>8. len'[r] \in Nat /\ target'[r] \in Token \cup {None}
      <4> HIDE DEF n, a
      <4> QED
        BY <3>1, <3>3, <3>5, <3>6, <3>7
    <3>9. \/ todo[r] # Nothing
          \/ n = Len(a) /\ target'[r] = target[r] /\ (target[r] = None \/ Right(Full(r), prompt[r]))
      <4>1. todo[r] = Nothing => target[r] = None \/ Right(Full(r), prompt[r])
        BY <1>2 DEF IdleRow
      <4>2. todo[r] = Nothing => ~Rewound(r)
        BY <3>3
      <4> QED
        BY <3>4, <3>7, <4>1, <4>2
    <3>10. SoundRow(r) /\ kv'[r] = kv[r] /\ prompt'[r] = prompt[r] /\ todo'[r] = todo[r]
      BY <1>1, <1>2, <2>1
    <3> HIDE DEF n
    <3> QED
      BY <3>5, <3>7, <3>8, <3>9, <3>10, CutSound
  <2>4. /\ history' = [r \in Row |-> history'[r]] /\ DOMAIN history' = Row
        /\ len' = [r \in Row |-> len'[r]] /\ DOMAIN len' = Row
        /\ target' = [r \in Row |-> target'[r]] /\ DOMAIN target' = Row
    BY <2>1, <2>2
  <2>5. history' \in [Row -> Seq(Token)] /\ len' \in [Row -> Nat] /\ target' \in [Row -> Token \cup {None}]
    BY <2>3, <2>4
  <2> QED
    BY <1>4, <2>1, <2>3, <2>5 DEF TypeOK
<1>7. ASSUME NEW reported \in 0..Rows, RunChunk(reported) PROVE IInv'
  <2>1. ASSUME NEW r \in Row
        PROVE  /\ SoundRow(r)' /\ history'[r] \in Seq(Token) /\ len'[r] \in Nat /\ target'[r] \in Token \cup {None}
               /\ DOMAIN kv'[r] = 1..MaxLen /\ DOMAIN mtpKv'[r] = 1..MaxLen
    <3>1. CASE Takes[r] = 0
      <4>1. /\ history'[r] = history[r] /\ len'[r] = len[r] /\ target'[r] = target[r]
            /\ DOMAIN kv'[r] = 1..MaxLen /\ DOMAIN mtpKv'[r] = 1..MaxLen
            /\ KvOf(kv'[r], history[r], len[r]) /\ len[r] = Len(history[r])
        BY <1>2, <1>7, <3>1, ChunkNothing DEF IdleRow
      <4>2. Full(r)' = Full(r)
        BY <4>1 DEF Full
      <4>3. SoundRow(r)'
        BY <1>1, <1>2, <4>1, <4>2 DEF SoundRow
      <4> QED
        BY <4>1, <4>3, RowFacts
    <3>2. CASE Takes[r] # 0
      <4> DEFINE new == history[r] \o SubSeq(todo[r], 1, Takes[r])
                 rest == SubSeq(todo[r], Takes[r] + 1, Len(todo[r]))
      <4>1. /\ new \in Seq(Token) /\ Len(new) \in Nat /\ Begins(history[r], new) /\ todo[r] # Nothing
            /\ rest \in Seq(Token) /\ prompt[r] = new \o rest
            /\ len'[r] = Len(new) /\ Selects(new) \in Token
            /\ r <= reported => history'[r] = new /\ target'[r] = Selects(new)
            /\ ~(r <= reported) => /\ history'[r] \in Seq(Token) /\ Begins(history'[r], history[r])
                                  /\ target'[r] \in Token \cup {None}
            /\ DOMAIN kv'[r] = 1..MaxLen /\ DOMAIN mtpKv'[r] = 1..MaxLen
            /\ KvOf(kv'[r], new, Len(new))
        BY <1>2, <1>7, <3>2, ChunkSome
      <4> HIDE DEF new, rest
      <4>2. history'[r] \in Seq(Token) /\ Begins(history'[r], new)
        <5>1. Begins(new, new)
          BY <4>1 DEF Begins
        <5>2. history[r] \in Seq(Token)
          BY RowFacts
        <5> QED
          BY <4>1, <5>1, <5>2, BeginsTrans
      <4>3. Right(new, prompt[r])
        <5> DEFINE n == Len(new)
                   m == Len(rest)
                   l == Len(prompt[r])
        <5>1. n \in Nat /\ m \in Nat
          BY <4>1, LenProperties
        <5>2. Len(new \o rest) = n + m /\ \A p \in 1..n : (new \o rest)[p] = new[p]
          BY <4>1, JoinFacts
        <5>3. l = n + m /\ \A p \in 1..n : prompt[r][p] = new[p]
          BY <4>1, <5>2
        <5> HIDE DEF n, m, l
        <5>4. \A p \in 1..n : p <= l
          BY <5>1, <5>3
        <5> QED
          BY <5>3, <5>4 DEF Right, n, l
      <4>4. Right(history'[r], prompt[r])
        BY <4>1, <4>2, <4>3, RightCut
      <4>5. KvOf(kv'[r], history'[r], Len(history'[r]))
        <5> DEFINE n == Len(history'[r])
                   m == Len(new)
        <5>1. n \in Nat /\ n <= m /\ m \in Nat
          BY <4>1, <4>2, LenProperties DEF Begins
        <5> HIDE DEF n, m
        <5>2. \A p \in 1..n : p \in 1..m
          BY <5>1
        <5>3. KvOf(kv'[r], new, n)
          BY <4>1, <5>2 DEF KvOf, m
        <5>4. n <= Len(history'[r])
          BY <5>1 DEF n
        <5>5. KvOf(kv'[r], history'[r], n)
          BY <4>1, <4>2, <5>1, <5>3, <5>4, KvGrow
        <5> QED
          BY <5>5 DEF n
      <4>6. SoundRow(r)'
        BY <1>1, <4>1, <4>4, <4>5 DEF SoundRow
      <4> QED
        BY <4>1, <4>2, <4>6
    <3> QED
      BY <3>1, <3>2
  <2>2. /\ history' = [r \in Row |-> history'[r]] /\ DOMAIN history' = Row
        /\ len' = [r \in Row |-> len'[r]] /\ DOMAIN len' = Row
        /\ target' = [r \in Row |-> target'[r]] /\ DOMAIN target' = Row
    BY <1>7 DEF RunChunk
  <2>3. history' \in [Row -> Seq(Token)] /\ len' \in [Row -> Nat] /\ target' \in [Row -> Token \cup {None}]
    BY <2>1, <2>2
  <2> QED
    BY <1>4, <2>1, <2>3
<1> HIDE DEF IInv
<1> QED
  BY <1>5, <1>6, <1>7 DEF PrefillFails

\* A row that begins another request.
LEMMA FreshRow ==
  ASSUME MtpAssumption, NEW r \in Row, NEW input \in Prompt,
         history'[r] = Nothing, len'[r] = 0, todo'[r] = input, prompt'[r] = input
  PROVE  IdleRow(r)' /\ SoundRow(r)' /\ input \in Seq(Token)
<1>1. input \in Seq(Token) /\ Len(input) \in 1..MaxLen /\ MaxLen \in Nat /\ Nothing \in Seq(Token) /\ Len(Nothing) = 0
  BY Constants DEF Nothing
<1>2. input # Nothing
  BY <1>1, EmptySeq DEF Nothing
<1>3. /\ KvOf(kv'[r], history'[r], len'[r]) /\ MtpOf(mtpKv'[r], history'[r], len'[r] - 1)
      /\ KvOf(kv'[r], history'[r], Len(history'[r])) /\ Right(history'[r], prompt'[r])
  <2>1. (\A p \in 1..0 : FALSE) /\ (\A p \in 1..(0 - 1) : FALSE)
    OBVIOUS
  <2> QED
    BY <1>1, <2>1 DEF KvOf, MtpOf, Right
<1>4. prompt'[r] = history'[r] \o todo'[r]
  BY <1>1, ConcatEmptySeq DEF Nothing
<1>5. 0 <= MaxLen
  BY <1>1
<1> QED
  BY <1>1, <1>2, <1>3, <1>4, <1>5 DEF IdleRow, SoundRow

\* A row is given to another request.
LEMMA ReplaceInv ==
  ASSUME MtpAssumption, IInv, NEW r \in Row, NEW input \in Prompt, Replace(r, input)
  PROVE  IInv'
<1> USE DEF IInv
<1>1. /\ gen.phase = "idle"
      /\ history' = [history EXCEPT ![r] = Nothing] /\ len' = [len EXCEPT ![r] = 0]
      /\ target' = [target EXCEPT ![r] = None] /\ prompt' = [prompt EXCEPT ![r] = input]
      /\ todo' = [todo EXCEPT ![r] = input] /\ published' = [published EXCEPT ![r] = Nothing]
      /\ UNCHANGED <<kv, mtpKv, seed, gen, flight, result, device>>
  BY DEF Replace, buffers
<1>2. flight.op = "none" /\ \A q \in Row : IdleRow(q)
  BY <1>1 DEF PhaseInv
<1>3. input \in Seq(Token) /\ Nothing \in Seq(Token)
  BY Constants DEF Nothing
<1>4. TypeOK'
  <2>1. /\ history \in [Row -> Seq(Token)] /\ len \in [Row -> Nat] /\ target \in [Row -> Token \cup {None}]
        /\ prompt \in [Row -> Prompt] /\ todo \in [Row -> Seq(Token)] /\ published \in [Row -> Seq(Token)]
    BY DEF TypeOK
  <2>2. /\ history' \in [Row -> Seq(Token)] /\ len' \in [Row -> Nat] /\ target' \in [Row -> Token \cup {None}]
        /\ prompt' \in [Row -> Prompt] /\ todo' \in [Row -> Seq(Token)] /\ published' \in [Row -> Seq(Token)]
    BY <1>1, <1>3, <2>1
  <2> QED
    BY <1>1, <2>2 DEF TypeOK
<1>5. ASSUME NEW q \in Row PROVE IdleRow(q)'
  <2>1. CASE q = r
    <3>1. history'[q] = Nothing /\ len'[q] = 0 /\ todo'[q] = input /\ prompt'[q] = input
      BY <1>1, <2>1 DEF TypeOK
    <3> QED
      BY <3>1, FreshRow
  <2>2. CASE q # r
    <3>1. /\ history'[q] = history[q] /\ len'[q] = len[q] /\ target'[q] = target[q] /\ prompt'[q] = prompt[q]
          /\ todo'[q] = todo[q] /\ published'[q] = published[q] /\ kv' = kv /\ mtpKv' = mtpKv
      BY <1>1, <2>2 DEF TypeOK
    <3>2. Full(q)' = Full(q)
      BY <3>1 DEF Full
    <3>3. Told(q) => Told(q)'
      BY <3>1, <3>2 DEF Told
    <3>4. IdleRow(q)
      BY <1>2
    <3> QED
      BY <3>1, <3>2, <3>3, <3>4 DEF IdleRow
  <2> QED
    BY <2>1, <2>2
<1> QED
  BY <1>1, <1>2, <1>4, <1>5 DEF PhaseInv, Working, Dropped

\* The rows of a batch that failed are dropped.
LEMMA RecoverInv ==
  ASSUME MtpAssumption, IInv, NEW input \in [Row -> Prompt], Recover(input)
  PROVE  IInv'
<1> USE DEF IInv
<1>1. /\ history' = [r \in Row |-> Nothing] /\ len' = [r \in Row |-> 0] /\ target' = [r \in Row |-> None]
      /\ prompt' = input /\ todo' = input /\ published' = [r \in Row |-> Nothing]
      /\ kv' = NoKv /\ mtpKv' = NoKv /\ flight' = [op |-> "none"] /\ device' = device
      /\ gen' = [Idle EXCEPT !.phase = gen'.phase] /\ gen'.phase \in {"idle", "over"}
  <2>1. gen' = IF device = "ok" THEN Idle ELSE [Idle EXCEPT !.phase = "over"]
    BY DEF Recover
  <2>2. Idle = [Idle EXCEPT !.phase = "idle"] /\ Idle.phase = "idle"
    BY NoGen
  <2>3. [Idle EXCEPT !.phase = "over"].phase = "over"
    BY NoGen DEF Dropped
  <2> QED
    BY <2>1, <2>2, <2>3 DEF Recover
<1>2. gen' \in GenType
  BY <1>1, NoGen DEF Dropped
<1>3. \A r \in Row : input[r] \in Prompt
  OBVIOUS
<1>4. \A r \in Row : IdleRow(r)' /\ SoundRow(r)' /\ input[r] \in Seq(Token)
  BY <1>1, <1>3, FreshRow
<1>5. TypeOK'
  <2>1. Nothing \in Seq(Token) /\ input \in [Row -> Seq(Token)]
    BY <1>4 DEF Nothing
  <2>2. /\ history' \in [Row -> Seq(Token)] /\ len' \in [Row -> Nat] /\ target' \in [Row -> Token \cup {None}]
        /\ prompt' \in [Row -> Prompt] /\ todo' \in [Row -> Seq(Token)] /\ published' \in [Row -> Seq(Token)]
    BY <1>1, <2>1
  <2>3. \A r \in Row : DOMAIN kv'[r] = 1..MaxLen /\ DOMAIN mtpKv'[r] = 1..MaxLen
    BY <1>1 DEF NoKv
  <2>4. device \in {"ok", "lost"}
    BY DEF TypeOK
  <2> QED
    BY <1>1, <1>2, <2>2, <2>3, <2>4 DEF TypeOK
<1>6. PhaseInv'
  BY <1>1, <1>4 DEF PhaseInv, Working, Dropped
<1> QED
  BY <1>5, <1>6
-----------------------------------------------------------------------------
(* The theorems                                                          *)

\* Rows start with a prefix another sequence has left.
LEMMA InitInv ==
  ASSUME MtpAssumption, Init
  PROVE  IInv
<1>1. PICK matched \in [Row -> 0..1] :
        /\ \A r \in Row : matched[r] < Len(prompt[r])
        /\ history = [r \in Row |-> SubSeq(prompt[r], 1, matched[r])]
        /\ len = matched
        /\ todo = [r \in Row |-> SubSeq(prompt[r], matched[r] + 1, Len(prompt[r]))]
        /\ kv = [r \in Row |-> [p \in 1..MaxLen |-> IF p <= matched[r] THEN SubSeq(prompt[r], 1, p) ELSE Nothing]]
        /\ mtpKv = [r \in Row |-> [p \in 1..MaxLen |-> IF p <= matched[r] THEN Append(SubSeq(prompt[r], 1, p), None) ELSE Nothing]]
  BY DEF Init
<1>2. /\ prompt \in [Row -> Prompt] /\ target = [r \in Row |-> None] /\ published = [r \in Row |-> Nothing]
      /\ gen = Idle /\ flight = [op |-> "none"] /\ device = "ok"
  BY DEF Init
<1>3. ASSUME NEW r \in Row
      PROVE  /\ history[r] \in Seq(Token) /\ len[r] \in Nat /\ todo[r] \in Seq(Token) /\ IdleRow(r)
             /\ DOMAIN kv[r] = 1..MaxLen /\ DOMAIN mtpKv[r] = 1..MaxLen
  <2> DEFINE a == prompt[r]
             m == matched[r]
             h == SubSeq(a, 1, m)
             d == SubSeq(a, m + 1, Len(a))
  <2>1. a \in Seq(Token) /\ Len(a) \in 1..MaxLen /\ MaxLen \in Nat
    BY <1>2, Constants
  <2>2. m \in {0, 1} /\ m < Len(a)
    BY <1>1
  <2>3. /\ history[r] = h /\ len[r] = m /\ todo[r] = d
        /\ kv[r] = [p \in 1..MaxLen |-> IF p <= m THEN SubSeq(a, 1, p) ELSE Nothing]
        /\ DOMAIN mtpKv[r] = 1..MaxLen
    BY <1>1
  <2> HIDE DEF a, m
  <2>4. m \in Nat /\ m <= Len(a) /\ m <= MaxLen /\ m + 1 <= Len(a) /\ Len(a) \in Nat /\ Len(a) - (m + 1) + 1 # 0
    BY <2>1, <2>2
  <2>5. h \in Seq(Token) /\ Len(h) = m /\ Begins(h, a)
    BY <2>1, <2>4, SubFacts
  <2>6. d \in Seq(Token) /\ Len(d) # 0
    <3>1. \A i \in (m + 1)..Len(a) : a[i] \in Token
      <4>1. \A i \in (m + 1)..Len(a) : i \in 1..Len(a)
        BY <2>4
      <4> QED
        BY <2>1, <4>1, ElementOfSeq
    <3>2. m + 1 \in Int /\ Len(a) \in Int
      BY <2>4
    <3>3. d \in Seq(Token) /\ Len(d) = (IF m + 1 <= Len(a) THEN Len(a) - (m + 1) + 1 ELSE 0)
      BY <3>1, <3>2, SubSeqProperties
    <3> QED
      BY <2>4, <3>3
  <2>7. d # Nothing
    BY <2>6, EmptySeq DEF Nothing
  <2>8. a = h \o d
    <3>1. 1 \in 1..(Len(a) + 1) /\ m \in (1 - 1)..Len(a) /\ Len(a) \in m..Len(a)
      BY <2>4
    <3>2. SubSeq(a, 1, m) \o SubSeq(a, m + 1, Len(a)) = SubSeq(a, 1, Len(a))
      BY <2>1, <3>1, ConcatAdjacentSubSeq
    <3>3. SubSeq(a, 1, Len(a)) = a
      BY <2>1, SubSeqFull
    <3> QED
      BY <3>2, <3>3
  <2> HIDE DEF h, d
  <2>9. KvOf(kv[r], h, m)
    <3>1. \A p \in 1..m : p \in 1..MaxLen /\ p <= m /\ p \in Nat
      BY <2>1, <2>4
    <3>2. \A p \in 1..m : SubSeq(a, 1, p) = SubSeq(h, 1, p)
      BY <2>1, <2>5, <3>1, BeginsSame
    <3> QED
      BY <2>3, <3>1, <3>2 DEF KvOf
  <2>10. MtpOf(mtpKv[r], h, m - 1)
    <3>1. \A p \in 1..(m - 1) : FALSE
      BY <2>2
    <3> QED
      BY <3>1 DEF MtpOf
  <2>11. prompt[r] = h \o d
    BY <2>8 DEF a
  <2>12. IdleRow(r)
    BY <2>3, <2>4, <2>5, <2>7, <2>9, <2>10, <2>11 DEF IdleRow
  <2> QED
    BY <2>3, <2>4, <2>5, <2>6, <2>12
<1>4. gen \in GenType /\ gen.phase = "idle"
  <2>1. Idle = [Idle EXCEPT !.phase = "idle"] /\ Idle.phase = "idle"
    BY NoGen
  <2> QED
    BY <1>2, <2>1, NoGen
<1>5. TypeOK
  <2>1. /\ history = [r \in Row |-> history[r]] /\ len = [r \in Row |-> len[r]] /\ todo = [r \in Row |-> todo[r]]
        /\ DOMAIN history = Row /\ DOMAIN len = Row /\ DOMAIN todo = Row
    BY <1>1
  <2>2. history \in [Row -> Seq(Token)] /\ len \in [Row -> Nat] /\ todo \in [Row -> Seq(Token)]
    BY <1>3, <2>1
  <2>3. target \in [Row -> Token \cup {None}] /\ published \in [Row -> Seq(Token)]
    BY <1>2 DEF Nothing
  <2> QED
    BY <1>2, <1>3, <1>4, <2>2, <2>3 DEF TypeOK
<1> QED
  BY <1>2, <1>3, <1>4, <1>5 DEF IInv, PhaseInv, Working, Dropped

\* Every step keeps the invariant.
LEMMA NextInv ==
  ASSUME MtpAssumption, IInv, [Next]_vars
  PROVE  IInv'
<1>1. CASE Prefill
  BY <1>1, PrefillInv
<1>2. ASSUME NEW r \in Row, NEW input \in Prompt, Replace(r, input) PROVE IInv'
  BY <1>2, ReplaceInv
<1>3. CASE Start
  BY <1>3, StartInv
<1>4. CASE Started
  BY <1>4, StartedInv
<1>5. ASSUME NEW drafts \in [Row -> [1..NumDrafts -> Token]], Launch(drafts) PROVE IInv'
  BY <1>5, LaunchInv
<1>6. ASSUME NEW goOn \in BOOLEAN, Yield(goOn) PROVE IInv'
  BY <1>6, YieldInv
<1>7. CASE Complete
  BY <1>7, CompleteInv
<1>8. CASE Fail
  BY <1>8, FailInv
<1>9. CASE Close
  BY <1>9, CloseInv
<1>10. CASE Stop
  BY <1>10, StopInv
<1>11. CASE RunReplay
  BY <1>11, RunReplayInv
<1>12. CASE RunStep
  BY <1>12, RunStepInv
<1>13. CASE LoseDevice
  BY <1>13, LoseDeviceInv
<1>14. CASE PrefillFails
  BY <1>14, PrefillFailsInv
<1>15. CASE StartFails
  BY <1>15, StartFailsInv
<1>16. CASE CloseRejects
  BY <1>16, CloseRejectsInv
<1>17. ASSUME NEW input \in [Row -> Prompt], Recover(input) PROVE IInv'
  BY <1>17, RecoverInv
<1>18. CASE UNCHANGED vars
  <2>1. /\ UNCHANGED <<history, len, target, prompt, todo, published, kv, mtpKv, seed, gen, flight, result, device>>
        /\ TypeOK /\ PhaseInv
    BY <1>18 DEF vars, IInv
  <2>2. \A r \in Row : Full(r)' = Full(r)
    BY <2>1 DEF Full
  <2>3. \A r \in Row : Told(r)' = Told(r)
    BY <2>1, <2>2 DEF Told
  <2>4. \A r \in Row : IdleRow(r)' = IdleRow(r)
    BY <2>1, <2>2, <2>3 DEF IdleRow
  <2>5. \A r \in Row : BusyRow(r)' = BusyRow(r)
    BY <2>1, <2>2 DEF BusyRow
  <2>6. \A r \in Row : StartingRow(r)' = StartingRow(r)
    BY <2>1, <2>2 DEF StartingRow
  <2>7. \A r \in Row : LoopRow(r)' = LoopRow(r)
    BY <2>1, <2>2 DEF LoopRow
  <2>8. \A r \in Row : StepRow(r)' = StepRow(r)
    BY <2>1, <2>2 DEF StepRow
  <2>9. \A r \in Row : ClosingRow(r)' = ClosingRow(r)
    BY <2>1, <2>3 DEF ClosingRow
  <2>10. \A r \in Row : SoundRow(r)' = SoundRow(r)
    BY <2>1, <2>2 DEF SoundRow
  <2>11. \A r \in Row : PartRow(r)' = PartRow(r)
    BY <2>1, <2>10 DEF PartRow
  <2>12. ClosingInv' = ClosingInv
    BY <2>1, <2>5, <2>9, <2>11 DEF ClosingInv
  <2>13. TypeOK'
    BY <2>1 DEF TypeOK
  <2>14. PhaseInv'
    BY <2>1, <2>4, <2>5, <2>6, <2>7, <2>8, <2>10, <2>12 DEF PhaseInv
  <2> QED
    BY <2>13, <2>14 DEF IInv
<1> QED
  BY <1>1, <1>2, <1>3, <1>4, <1>5, <1>6, <1>7, <1>8, <1>9, <1>10, <1>11, <1>12, <1>13, <1>14, <1>15, <1>16,
     <1>17, <1>18 DEF Next

\* In every phase of the generator, each row is where the phase has it, and what
\* the device holds of it is of its history.
THEOREM MtpInvariant ==
  ASSUME MtpAssumption
  PROVE  Spec => []IInv
<1>1. Init => IInv
  BY InitInv
<1>2. IInv /\ [Next]_vars => IInv'
  BY NextInv
<1> QED
  BY <1>1, <1>2, PTL DEF Spec

\* What generateMtpDecode makes of a prompt is what the model selects token by
\* token, whatever the MTP head has drafted and whatever was given back or failed.
THEOREM TextIsTheModels ==
  ASSUME MtpAssumption
  PROVE  Spec => []Lossless
<1>1. ASSUME IInv PROVE Lossless
  <2> SUFFICES ASSUME NEW r \in Row
               PROVE  LET text == IF todo[r] = Nothing /\ len[r] >= Len(history[r]) THEN Text(r) ELSE history[r]
                      IN \A p \in DOMAIN text :
                           text[p] = IF p <= Len(prompt[r]) THEN prompt[r][p] ELSE Selects(SubSeq(text, 1, p - 1))
    BY DEF Lossless
  <2>1. TypeOK /\ SoundRow(r) /\ history[r] \in Seq(Token) /\ len[r] \in Nat /\ Len(history[r]) \in Nat
        /\ target[r] \in Token \cup {None}
    BY <1>1, SoundRows, RowFacts DEF IInv
  <2>2. CASE todo[r] = Nothing /\ len[r] >= Len(history[r]) /\ target[r] # None
    <3>1. target[r] \in Token /\ Right(Full(r), prompt[r])
      BY <2>1, <2>2 DEF SoundRow
    <3>2. Text(r) = Full(r)
      BY <3>1, <2>2 DEF Text, Full
    <3>3. DOMAIN Full(r) = 1..Len(Full(r))
      BY <2>1, <3>1, FullFacts, LenProperties
    <3> QED
      BY <2>2, <3>1, <3>2, <3>3 DEF Right
  <2>3. CASE ~(todo[r] = Nothing /\ len[r] >= Len(history[r]) /\ target[r] # None)
    <3>1. DOMAIN history[r] = 1..Len(history[r]) /\ Right(history[r], prompt[r])
      BY <2>1, LenProperties DEF SoundRow
    <3>2. target[r] = None => Text(r) = history[r]
      BY DEF Text
    <3> QED
      BY <2>3, <3>1, <3>2 DEF Right
  <2> QED
    BY <2>2, <2>3
<1> QED
  BY <1>1, MtpInvariant, PTL

\* Whatever was rejected, left by its consumer, or has failed, each position of the
\* KV below a row's length is of its history.
THEOREM KvHoldsHistory ==
  ASSUME MtpAssumption
  PROVE  Spec => []KvIsHistory
<1>1. ASSUME IInv PROVE KvIsHistory
  <2> SUFFICES ASSUME NEW r \in Row, NEW p \in 1..MaxLen, p <= len[r], p <= Len(history[r])
               PROVE  kv[r][p] = SubSeq(history[r], 1, p)
    BY DEF KvIsHistory
  <2>1. TypeOK /\ KvOf(kv[r], history[r], Len(history[r]))
    BY <1>1, SoundRows DEF IInv, SoundRow
  <2>2. p \in 1..Len(history[r])
    BY <2>1, RowFacts
  <2> QED
    BY <2>1, <2>2 DEF KvOf
<1> QED
  BY <1>1, MtpInvariant, PTL

\* The MTP layer drafts from the tokens that did follow, and from the hidden
\* state of the last committed one.
THEOREM DraftsAreConditioned ==
  ASSUME MtpAssumption
  PROVE  Spec => []DraftsConditioned
<1>1. ASSUME IInv PROVE DraftsConditioned
  <2> SUFFICES ASSUME gen.phase \in {"loop", "yielding", "waiting"}, NEW r \in Row
               PROVE  /\ flight.op = "step" \/ gen.phase = "loop" => seed[gen.seedRows[r]] = Text(r)
                      /\ \A p \in 1..gen.committed[r] : mtpKv[r][p] = SubSeq(Text(r), 1, p + 1)
    BY DEF DraftsConditioned
  <2>1. TypeOK /\ PhaseInv
    BY <1>1 DEF IInv
  <2>2. BusyRow(r)
    BY <2>1 DEF PhaseInv, Working
  <2>3. Text(r) = Full(r)
    BY <2>2, Constants DEF Text, Full, BusyRow
  <2>4. flight.op = "step" \/ gen.phase = "loop" => seed[gen.seedRows[r]] = Full(r)
    <3>1. gen.phase = "loop" => LoopRow(r)
      BY <2>1 DEF PhaseInv
    <3>2. gen.phase # "loop" => StepRow(r)
      BY <2>1 DEF PhaseInv
    <3> QED
      BY <3>1, <3>2 DEF LoopRow, StepRow
  <2>5. \A p \in 1..gen.committed[r] : mtpKv[r][p] = SubSeq(Full(r), 1, p + 1)
    BY <2>2 DEF BusyRow, MtpOf
  <2> QED
    BY <2>3, <2>4, <2>5
<1> QED
  BY <1>1, MtpInvariant, PTL

\* A generator whose finally block got past the device, wherever an exception had
\* left it between the cuts and reports of a step, has left no position that is not
\* history; and between batches a consumer has been told every token, once.  (What a
\* lost device or a failed prefill leaves is dropped before the next batch.)
THEOREM ClosedIsClean ==
  ASSUME MtpAssumption
  PROVE  Spec => []ClosedClean
<1>1. ASSUME IInv PROVE ClosedClean
  <2>1. PhaseInv
    BY <1>1 DEF IInv
  <2>2. ASSUME gen.phase = "idle", NEW r \in Row
        PROVE  /\ len[r] = Len(history[r])
               /\ todo[r] = Nothing => prompt[r] \o published[r] = Text(r)
    <3>1. IdleRow(r)
      BY <2>1, <2>2 DEF PhaseInv
    <3>2. target[r] \in Token => Text(r) = Full(r)
      BY Constants DEF Text, Full
    <3> QED
      BY <3>1, <3>2 DEF IdleRow, Told
  <2>3. gen.phase = "rolledBack" => \A r \in Row : len[r] = Len(history[r])
    BY <2>1 DEF PhaseInv
  <2> QED
    BY <2>2, <2>3 DEF ClosedClean
<1> QED
  BY <1>1, MtpInvariant, PTL

\* Nothing of a rejected draft is left in the KV, in the MTP layer or with the
\* consumer, nor of a step that an exception has ended while the device works.
THEOREM NothingIsLeftBehind ==
  ASSUME MtpAssumption
  PROVE  Spec => []NothingLeftBehind
<1>1. KvIsHistory /\ DraftsConditioned /\ ClosedClean => NothingLeftBehind
  BY DEF NothingLeftBehind
<1> QED
  BY <1>1, KvHoldsHistory, DraftsAreConditioned, ClosedIsClean, PTL
=============================================================================
