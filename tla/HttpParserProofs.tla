-------------------------- MODULE HttpParserProofs --------------------------
(***************************************************************************)
(* For any bytes and however they are cut into parts: after a part, the    *)
(* answer of HttpParser::parseNextPart is the one the bytes received so    *)
(* far deserve, and a request that is complete has the body that follows   *)
(* its head.                                                               *)
(***************************************************************************)
EXTENDS HttpParser, SequenceTheorems, WellFoundedInduction, TLAPS

-----------------------------------------------------------------------------
(* The inductive invariant.                                                *)

(* How many bytes were taken from the parts.                               *)
Taken == arrived - Len(data)

Types ==
    /\ sent \in Seq(STRING)
    /\ arrived \in 0 .. Len(sent)
    /\ data \in Seq(STRING) /\ Len(data) <= arrived
    /\ data = SubSeq(sent, Taken + 1, arrived)
    /\ parsing \in BOOLEAN
    /\ result \in {"NeedMore", "Success", "Error"}

(* No line of s ends between a and b.                                      *)
NoEnds(s, a, b) == \A m \in Ends(s) : ~ (a < m /\ m < b)

(* The lines up to byte q are taken, and the one after it is begun.        *)
AtLine(q) ==
    /\ \/ m_state = "initial" /\ q = 0
       \/ m_state = "headers" /\ q \in Ends(sent)
    /\ HeadUpTo(sent, q)
    /\ NoEnds(sent, q, Taken + 1)
    /\ m_contentLength = Announced(sent, q + 1)

FirstHeadEnd(s, n) == n \in HeadEnds(s) /\ \A m \in HeadEnds(s) : n <= m

(* The head ends at byte q and the body is not complete.                   *)
AtBody(q) ==
    /\ m_state = "body"
    /\ FirstHeadEnd(sent, q)
    /\ m_contentLength = Announced(sent, q)
    /\ Taken - q < m_contentLength

Position(q) ==
    /\ q <= Taken
    /\ m_data = SubSeq(sent, q + 1, Taken)
    /\ AtLine(q) \/ AtBody(q)

Waiting == result = "NeedMore" => \E q \in 0 .. arrived : Position(q)

Answered == result # "NeedMore" => result = Verdict(Received) /\ BodyIsExact

IInv ==
    /\ Types
    /\ parsing => result = "NeedMore" /\ data # <<>>
    /\ ~ parsing /\ result = "NeedMore" => data = <<>>
    /\ Waiting
    /\ Answered

-----------------------------------------------------------------------------
(* The greatest and the least position of a set.                           *)

LEMMA HasLeast ==
    ASSUME NEW S, S \subseteq Nat, S # {}
    PROVE  \E m \in S : \A n \in S : m <= n
<1>1. IsWellFoundedOn(OpToRel(<, Nat), Nat)
  BY NatLessThanWellFounded
<1>2. PICK m \in S : \A n \in S : ~ (<<n, m>> \in OpToRel(<, Nat))
  BY <1>1, WFMin
<1>3. \A n \in S : ~ (n < m)
  BY <1>2 DEF OpToRel
<1> QED BY <1>3

LEMMA HasMax ==
    ASSUME NEW n \in Nat, NEW S, S \subseteq 0 .. n, S # {}
    PROVE  Max(S) \in S /\ \A m \in S : m <= Max(S)
<1> DEFINE D == {n - m : m \in S}
<1>1. D \subseteq Nat /\ D # {}
  <2>1. \A m \in S : m \in 0 .. n /\ n - m \in Nat
    OBVIOUS
  <2> QED BY <2>1
<1>2. PICK d \in D : \A e \in D : d <= e
  BY <1>1, HasLeast
<1>3. PICK x \in S : d = n - x
  OBVIOUS
<1>4. \A m \in S : x >= m
  <2> TAKE m \in S
  <2>1. n - m \in D /\ m \in 0 .. n /\ x \in 0 .. n
    OBVIOUS
  <2>2. n - x <= n - m
    BY <1>2, <1>3, <2>1
  <2> QED BY <2>1, <2>2
<1>5. Max(S) \in S /\ \A m \in S : Max(S) >= m
  BY <1>4 DEF Max
<1> QED BY <1>5

LEMMA MaxIs ==
    ASSUME NEW S, S \subseteq Nat, NEW m \in S, \A n \in S : n <= m
    PROVE  Max(S) = m
<1>1. \A n \in S : m >= n
  OBVIOUS
<1>2. Max(S) \in S /\ \A n \in S : Max(S) >= n
  BY <1>1 DEF Max
<1>3. Max(S) \in Nat /\ m \in Nat /\ Max(S) >= m /\ m >= Max(S)
  BY <1>1, <1>2
<1> QED BY <1>3

LEMMA MinIs ==
    ASSUME NEW S, S \subseteq Nat, NEW m \in S, \A n \in S : m <= n
    PROVE  Min(S) = m
<1>1. \A n \in S : m =< n
  OBVIOUS
<1>2. Min(S) \in S /\ \A n \in S : Min(S) =< n
  BY <1>1 DEF Min
<1>3. Min(S) \in Nat /\ m \in Nat /\ Min(S) =< m /\ m =< Min(S)
  BY <1>1, <1>2
<1> QED BY <1>3

-----------------------------------------------------------------------------
(* The lines of a sequence.                                                *)

LEMMA EndsArePositions ==
    ASSUME NEW s \in Seq(STRING)
    PROVE  Ends(s) \subseteq 1 .. Len(s) /\ Len(s) \in Nat
  BY LenProperties DEF Ends

(* A line begins after the end of the one before.                          *)
LEMMA LineFrom ==
    ASSUME NEW s \in Seq(STRING), NEW q \in Nat, q = 0 \/ q \in Ends(s),
           NEW n \in Ends(s), q < n, NoEnds(s, q, n)
    PROVE  /\ Line(s, n) = SubSeq(s, q + 1, n)
           /\ First(s, n) <=> q = 0
<1> DEFINE before == {0} \cup {m \in Ends(s) : m < n}
<1>1. Ends(s) \subseteq Nat \ {0}
  BY EndsArePositions
<1>2. before \subseteq Nat /\ q \in before /\ \A m \in before : m <= q
  BY <1>1 DEF NoEnds
<1>3. Max(before) = q
  <2> HIDE DEF before
  <2> QED BY <1>2, MaxIs
<1>4. Line(s, n) = SubSeq(s, 1 + q, n)
  BY <1>3 DEF Line
<1>5. First(s, n) <=> q = 0
  BY <1>1 DEF First, NoEnds
<1>6. 1 + q = q + 1
  OBVIOUS
<1> QED BY <1>4, <1>5, <1>6

(* The beginning of a sequence has the same lines as far as it goes.       *)
LEMMA Beginning ==
    ASSUME NEW s \in Seq(STRING), NEW a \in 0 .. Len(s)
    PROVE  /\ SubSeq(s, 1, a) \in Seq(STRING)
           /\ Len(SubSeq(s, 1, a)) = a
           /\ \A i \in 1 .. a : SubSeq(s, 1, a)[i] = s[i]
           /\ Ends(SubSeq(s, 1, a)) = {n \in Ends(s) : n <= a}
<1> DEFINE p == SubSeq(s, 1, a)
<1>1. Len(s) \in Nat /\ \A i \in 1 .. a : s[i] \in STRING
  BY LenProperties, ElementOfSeq
<1>2. /\ p \in Seq(STRING)
      /\ Len(p) = IF 1 <= a THEN a - 1 + 1 ELSE 0
      /\ \A i \in 1 .. a - 1 + 1 : p[i] = s[1 + i - 1]
  BY <1>1, SubSeqProperties
<1> HIDE DEF p
<1>3. Len(p) = a /\ \A i \in 1 .. a : p[i] = s[i]
  BY <1>1, <1>2
<1>4. Ends(p) = {n \in Ends(s) : n <= a}
  BY <1>1, <1>3 DEF Ends
<1> QED BY <1>2, <1>3, <1>4 DEF p

LEMMA BeginningLine ==
    ASSUME NEW s \in Seq(STRING), NEW a \in 0 .. Len(s), NEW n \in Ends(s), n <= a
    PROVE  /\ Line(SubSeq(s, 1, a), n) = Line(s, n)
           /\ First(SubSeq(s, 1, a), n) <=> First(s, n)
<1> DEFINE p == SubSeq(s, 1, a)
           before == {0} \cup {m \in Ends(s) : m < n}
<1>1. p \in Seq(STRING) /\ Len(p) = a /\ Ends(p) = {m \in Ends(s) : m <= a}
  BY Beginning
<1>2. Ends(s) \subseteq 1 .. Len(s) /\ Len(s) \in Nat
  BY EndsArePositions
<1>3. {0} \cup {m \in Ends(p) : m < n} = before
  BY <1>1, <1>2
<1>4. Max(before) \in Nat /\ Max(before) < n
  <2>1. n \in 1 .. Len(s)
    BY <1>2
  <2>2. before \subseteq 0 .. Len(s) /\ before # {} /\ \A m \in before : m \in Nat /\ m < n
    BY <1>2, <2>1
  <2> HIDE DEF before
  <2>3. Max(before) \in before
    BY <1>2, <2>2, HasMax
  <2> QED BY <2>2, <2>3
<1>5. SubSeq(p, 1 + Max(before), n) = SubSeq(s, 1 + Max(before), n)
  <2> DEFINE k == 1 + Max(before)
  <2>1. k \in 1 .. a /\ n \in 1 .. a /\ a \in 1 .. Len(s) /\ 1 \in 1 .. Len(s)
    BY <1>2, <1>4
  <2> HIDE DEF k
  <2>2. SubSeq(SubSeq(s, 1, a), k, n) = SubSeq(s, 1 + k - 1, 1 + n - 1)
    BY <1>1, <2>1, SubSeqOfSubSeq
  <2>3. 1 + k - 1 = k /\ 1 + n - 1 = n
    BY <2>1
  <2> QED BY <2>2, <2>3 DEF k
<1>6. Line(p, n) = Line(s, n)
  BY <1>3, <1>5 DEF Line
<1>7. First(p, n) <=> First(s, n)
  BY <1>1, <1>2 DEF First
<1> QED BY <1>6, <1>7

LEMMA BeginningHead ==
    ASSUME NEW s \in Seq(STRING), NEW a \in 0 .. Len(s)
    PROVE  /\ \A n \in 0 .. a : HeadUpTo(SubSeq(s, 1, a), n) <=> HeadUpTo(s, n)
           /\ HeadEnds(SubSeq(s, 1, a)) = {n \in HeadEnds(s) : n <= a}
<1> DEFINE p == SubSeq(s, 1, a)
<1>1. Ends(p) = {m \in Ends(s) : m <= a}
  BY Beginning
<1>2. Ends(s) \subseteq 1 .. Len(s) /\ Len(s) \in Nat
  BY EndsArePositions
<1>3. \A n \in Ends(p) : Line(p, n) = Line(s, n) /\ (First(p, n) <=> First(s, n))
  BY <1>1, BeginningLine
<1> HIDE DEF p
<1>4. ASSUME NEW n \in 0 .. a PROVE HeadUpTo(p, n) <=> HeadUpTo(s, n)
  <2>1. {m \in Ends(p) : m <= n} = {m \in Ends(s) : m <= n}
    BY <1>1, <1>2
  <2>2. \A m \in {m \in Ends(s) : m <= n} : m \in Ends(p)
    BY <2>1
  <2> QED BY <1>3, <2>1, <2>2 DEF HeadUpTo
<1>5. ASSUME NEW n \in Ends(s), n <= a
      PROVE  n - 1 \in 0 .. a /\ n \in Ends(p)
  BY <1>1, <1>2, <1>5
<1>6. HeadEnds(p) = {n \in HeadEnds(s) : n <= a}
  BY <1>1, <1>3, <1>4, <1>5 DEF HeadEnds
<1> QED BY <1>4, <1>6 DEF p

(* A number that is announced, and the line that announces it.             *)
Lengths(s, n) == {m \in Ends(s) : m < n /\ IsLength(Line(s, m))}

LEMMA AnnouncedBy ==
    ASSUME NEW s \in Seq(STRING), NEW n
    PROVE  /\ Lengths(s, n) = {} => Announced(s, n) = 0
           /\ Lengths(s, n) # {} =>
                 /\ Max(Lengths(s, n)) \in Lengths(s, n)
                 /\ Announced(s, n) = Number[Line(s, Max(Lengths(s, n)))[1]]
           /\ Announced(s, n) \in Nat
<1>1. Lengths(s, n) \subseteq 0 .. Len(s) /\ Len(s) \in Nat
  BY EndsArePositions DEF Lengths
<1>2. Lengths(s, n) # {} => Max(Lengths(s, n)) \in Lengths(s, n)
  BY <1>1, HasMax
<1>3. Announced(s, n) = IF Lengths(s, n) = {} THEN 0
                        ELSE Number[Line(s, Max(Lengths(s, n)))[1]]
  BY DEF Announced, Lengths
<1>4. \A m \in Lengths(s, n) : Line(s, m)[1] \in DOMAIN Number
  BY DEF Lengths, IsLength
<1> QED BY <1>2, <1>3, <1>4, NumberAssumption

LEMMA BeginningAnnounced ==
    ASSUME NEW s \in Seq(STRING), NEW a \in 0 .. Len(s), NEW n \in 0 .. a
    PROVE  Announced(SubSeq(s, 1, a), n) = Announced(s, n)
<1> DEFINE p == SubSeq(s, 1, a)
<1>1. p \in Seq(STRING) /\ Ends(p) = {m \in Ends(s) : m <= a}
  BY Beginning
<1>2. Ends(s) \subseteq 1 .. Len(s) /\ Len(s) \in Nat
  BY EndsArePositions
<1>3. \A m \in Ends(p) : Line(p, m) = Line(s, m)
  BY <1>1, BeginningLine
<1> HIDE DEF p
<1>4. Lengths(p, n) = Lengths(s, n)
  BY <1>1, <1>2, <1>3 DEF Lengths
<1>5. \A m \in Lengths(p, n) : Line(p, m) = Line(s, m)
  BY <1>3 DEF Lengths
<1> QED BY <1>1, <1>4, <1>5, AnnouncedBy DEF p

-----------------------------------------------------------------------------
(* One more line, which ends at n and begins after q.                      *)

NextLine(s, q, n) ==
    /\ q \in Nat
    /\ q = 0 \/ q \in Ends(s)
    /\ n \in Ends(s)
    /\ q < n
    /\ NoEnds(s, q, n)

LEMMA NotAHeader ==
    /\ ~ IsHeader(EmptyLine)
    /\ ~ IsHeader(<<"wrong", "cr", "nl">>) /\ <<"wrong", "cr", "nl">> # EmptyLine
<1>1. /\ Len(EmptyLine) # 3 /\ EmptyLine # <<"head", "cr", "nl">>
      /\ EmptyLine # <<"wrong", "cr", "nl">>
  <2>1. /\ Len(EmptyLine) = 2 /\ Len(<<"head", "cr", "nl">>) = 3
        /\ Len(<<"wrong", "cr", "nl">>) = 3
    BY DEF EmptyLine
  <2> QED BY <2>1
<1>2. "wrong" \notin DOMAIN Number
  BY NumberAssumption
<1>3. <<"wrong", "cr", "nl">> # <<"head", "cr", "nl">> /\ <<"wrong", "cr", "nl">>[1] = "wrong"
  OBVIOUS
<1> QED BY <1>1, <1>2, <1>3 DEF IsHeader, IsLength

(* What is before it, and it, are what is up to it.                        *)
LEMMA UpToNext ==
    ASSUME NEW s \in Seq(STRING), NEW q, NEW n, NextLine(s, q, n)
    PROVE  /\ {m \in Ends(s) : m <= n - 1} = {m \in Ends(s) : m <= q}
           /\ {m \in Ends(s) : m <= n} = {m \in Ends(s) : m <= q} \cup {n}
           /\ {m \in Ends(s) : m < n} = {m \in Ends(s) : m < q + 1}
           /\ n \in Nat
<1>1. Ends(s) \subseteq Nat
  BY EndsArePositions
<1> QED BY <1>1 DEF NextLine, NoEnds

LEMMA HeadUpToNext ==
    ASSUME NEW s \in Seq(STRING), NEW q, NEW n, NextLine(s, q, n), HeadUpTo(s, q)
    PROVE  /\ HeadUpTo(s, n - 1)
           /\ HeadUpTo(s, n) <=> IF q = 0 THEN Line(s, n) = StartLine ELSE IsHeader(Line(s, n))
<1>1. First(s, n) <=> q = 0
  BY LineFrom DEF NextLine
<1>2. HeadUpTo(s, n - 1)
  BY UpToNext DEF HeadUpTo
<1>3. HeadUpTo(s, n) <=> /\ HeadUpTo(s, q)
                         /\ IF First(s, n) THEN Line(s, n) = StartLine ELSE IsHeader(Line(s, n))
  BY UpToNext DEF HeadUpTo
<1> QED BY <1>1, <1>2, <1>3

(* Where all lines are those of a head, none ends it.                      *)
LEMMA HeadGoesOn ==
    ASSUME NEW s \in Seq(STRING), NEW q \in Nat, HeadUpTo(s, q)
    PROVE  \A m \in HeadEnds(s) : q < m
<1> SUFFICES ASSUME NEW m \in HeadEnds(s), m <= q PROVE FALSE
  BY EndsArePositions DEF HeadEnds
<1>1. m \in Ends(s) /\ ~ First(s, m) /\ Line(s, m) = EmptyLine
  BY DEF HeadEnds
<1>2. IsHeader(Line(s, m))
  BY <1>1 DEF HeadUpTo
<1> QED BY <1>1, <1>2, NotAHeader

(* An empty line after the first one ends it.                              *)
LEMMA HeadEndsNext ==
    ASSUME NEW s \in Seq(STRING), NEW q, NEW n, NextLine(s, q, n), HeadUpTo(s, q),
           q # 0, Line(s, n) = EmptyLine
    PROVE  FirstHeadEnd(s, n)
<1>1. n \in HeadEnds(s)
  BY HeadUpToNext, LineFrom DEF HeadEnds, NextLine
<1>2. ASSUME NEW m \in HeadEnds(s) PROVE n <= m
  <2>1. q < m /\ m \in Ends(s)
    BY HeadGoesOn DEF HeadEnds, NextLine
  <2>2. m \in Nat /\ n \in Nat
    BY <2>1, EndsArePositions DEF NextLine
  <2> QED BY <2>1, <2>2 DEF NextLine, NoEnds
<1> QED BY <1>1, <1>2 DEF FirstHeadEnd

(* After any other line there is no head.                                  *)
LEMMA HeadIsBad ==
    ASSUME NEW s \in Seq(STRING), NEW q, NEW n, NextLine(s, q, n), HeadUpTo(s, q),
           ~ HeadUpTo(s, n), q = 0 \/ Line(s, n) # EmptyLine
    PROVE  /\ HeadEnds(s) = {}
           /\ \A a \in Nat : n <= a => ~ HeadUpTo(s, a)
<1>1. n \in Ends(s) /\ n \in Nat /\ q \in Nat /\ Ends(s) \subseteq Nat
  BY EndsArePositions DEF NextLine
<1>2. ASSUME NEW a \in Nat, n <= a PROVE ~ HeadUpTo(s, a)
  <2>1. {m \in Ends(s) : m <= n} \subseteq {m \in Ends(s) : m <= a}
    BY <1>1, <1>2
  <2> QED BY <2>1 DEF HeadUpTo
<1>3. ASSUME NEW m \in HeadEnds(s) PROVE FALSE
  <2>1. m \in Ends(s) /\ Line(s, m) = EmptyLine /\ ~ First(s, m) /\ HeadUpTo(s, m - 1) /\ q < m
    BY <1>1, HeadGoesOn DEF HeadEnds
  <2>2. m # n
    BY <2>1, LineFrom DEF NextLine
  <2>3. ~ (m < n)
    BY <2>1 DEF NextLine, NoEnds
  <2>4. m - 1 \in Nat /\ n <= m - 1
    BY <1>1, <2>1, <2>2, <2>3
  <2> QED BY <1>2, <2>1, <2>4
<1> QED BY <1>2, <1>3

LEMMA AnnouncedNext ==
    ASSUME NEW s \in Seq(STRING), NEW q, NEW n, NextLine(s, q, n)
    PROVE  /\ Announced(s, n) = Announced(s, q + 1)
           /\ Announced(s, n + 1) = IF IsLength(Line(s, n)) THEN Number[Line(s, n)[1]]
                                    ELSE Announced(s, q + 1)
<1>1. Ends(s) \subseteq Nat /\ n \in Ends(s)
  BY EndsArePositions DEF NextLine
<1>2. Lengths(s, n) = Lengths(s, q + 1)
  BY UpToNext DEF Lengths
<1>3. Announced(s, n) = Announced(s, q + 1)
  <2>1. CASE Lengths(s, n) = {}
    BY <1>2, <2>1, AnnouncedBy
  <2>2. CASE Lengths(s, n) # {}
    BY <1>2, <2>2, AnnouncedBy
  <2> QED BY <2>1, <2>2
<1>4. CASE ~ IsLength(Line(s, n))
  <2>1. Lengths(s, n + 1) = Lengths(s, n)
    BY <1>1, <1>4 DEF Lengths
  <2>2. Announced(s, n + 1) = Announced(s, n)
    BY <2>1, AnnouncedBy
  <2> QED BY <1>3, <1>4, <2>2
<1>5. CASE IsLength(Line(s, n))
  <2>1. /\ n \in Lengths(s, n + 1) /\ Lengths(s, n + 1) \subseteq Nat
        /\ \A m \in Lengths(s, n + 1) : m <= n
    BY <1>1, <1>5 DEF Lengths
  <2>2. Max(Lengths(s, n + 1)) = n
    BY <2>1, MaxIs
  <2> QED BY <1>3, <1>5, <2>1, <2>2, AnnouncedBy
<1> QED BY <1>3, <1>4, <1>5

-----------------------------------------------------------------------------
(* What the bytes received deserve.                                        *)

LEMMA ReceivedBytes ==
    ASSUME Types
    PROVE  /\ Received \in Seq(STRING) /\ Len(Received) = arrived /\ arrived \in Nat
           /\ HeadEnds(Received) = {n \in HeadEnds(sent) : n <= arrived}
           /\ \A n \in 0 .. arrived : HeadUpTo(Received, n) <=> HeadUpTo(sent, n)
           /\ \A n \in 0 .. arrived : Announced(Received, n) = Announced(sent, n)
<1>1. sent \in Seq(STRING) /\ arrived \in 0 .. Len(sent) /\ arrived \in Nat
  BY LenProperties DEF Types
<1> QED BY <1>1, Beginning, BeginningHead, BeginningAnnounced DEF Received

(* There is no end of a head yet.                                          *)
LEMMA VerdictInHead ==
    ASSUME Types, HeadEnds(Received) = {}
    PROVE  Verdict(Received) = IF HeadUpTo(sent, arrived) THEN "NeedMore" ELSE "Error"
<1>1. arrived \in 0 .. arrived
  BY ReceivedBytes
<1> QED BY <1>1, ReceivedBytes DEF Verdict

(* There is one.                                                           *)
LEMMA VerdictOfBody ==
    ASSUME Types, NEW n, FirstHeadEnd(sent, n), n <= arrived
    PROVE  LET length == Announced(sent, n)
           IN  /\ Min(HeadEnds(Received)) = n
               /\ Announced(Received, n) = length /\ length \in Nat
               /\ n \in 1 .. arrived
               /\ Verdict(Received) = IF length = 0 \/ arrived - n = length THEN "Success"
                                      ELSE IF arrived - n > length THEN "Error" ELSE "NeedMore"
<1>1. Ends(sent) \subseteq Nat \ {0} /\ sent \in Seq(STRING) /\ arrived \in Nat
  BY EndsArePositions, LenProperties DEF Types
<1>2. n \in HeadEnds(Received) /\ HeadEnds(Received) \subseteq Nat /\ n \in 1 .. arrived
  BY <1>1, ReceivedBytes DEF FirstHeadEnd, HeadEnds
<1>3. Min(HeadEnds(Received)) = n
  BY <1>2, ReceivedBytes, MinIs DEF FirstHeadEnd
<1>4. Announced(Received, n) = Announced(sent, n) /\ Announced(sent, n) \in Nat
  BY <1>1, <1>2, ReceivedBytes, AnnouncedBy
<1>5. Len(BodyOf(Received, n)) = arrived - n
  <2>1. \A i \in n + 1 .. arrived : Received[i] \in STRING
    BY <1>2, ReceivedBytes, ElementOfSeq
  <2>2. Len(SubSeq(Received, n + 1, arrived)) =
           IF n + 1 <= arrived THEN arrived - (n + 1) + 1 ELSE 0
    BY <1>1, <1>2, <2>1, SubSeqProperties
  <2> QED BY <1>1, <1>2, <2>2, ReceivedBytes DEF BodyOf
<1> DEFINE length == Announced(sent, n)
           got == Len(BodyOf(Received, n))
<1>6. Verdict(Received) = CASE length = 0 -> "Success"
                            [] length > 0 /\ got = length -> "Success"
                            [] length > 0 /\ got > length -> "Error"
                            [] length > 0 /\ got < length -> "NeedMore"
  BY <1>2, <1>3, <1>4 DEF Verdict
<1> HIDE DEF got, length
<1>7. length \in Nat /\ got = arrived - n /\ got \in Int
  BY <1>1, <1>2, <1>4, <1>5 DEF got, length
<1>8. Verdict(Received) = IF length = 0 \/ got = length THEN "Success"
                          ELSE IF got > length THEN "Error" ELSE "NeedMore"
  BY <1>6, <1>7
<1> QED BY <1>2, <1>3, <1>4, <1>7, <1>8 DEF length

-----------------------------------------------------------------------------
(* The part that is being parsed.                                          *)

LEMMA PartBytes ==
    ASSUME Types
    PROVE  /\ Taken \in 0 .. arrived /\ arrived \in Nat /\ Len(data) \in Nat
           /\ Taken + Len(data) = arrived /\ arrived <= Len(sent) /\ Len(sent) \in Nat
           /\ \A i \in 1 .. Len(data) : data[i] = sent[Taken + i]
<1>1. /\ Len(sent) \in Nat /\ arrived \in Nat /\ Len(data) \in Nat
      /\ Taken \in 0 .. arrived /\ Taken + Len(data) = arrived /\ arrived <= Len(sent)
  BY LenProperties DEF Types, Taken
<1>2. \A i \in Taken + 1 .. arrived : sent[i] \in STRING
  BY <1>1, ElementOfSeq DEF Types
<1>3. \A i \in 1 .. arrived - (Taken + 1) + 1 :
         SubSeq(sent, Taken + 1, arrived)[i] = sent[Taken + 1 + i - 1]
  BY <1>1, <1>2, SubSeqProperties
<1>4. ASSUME NEW i \in 1 .. Len(data) PROVE data[i] = sent[Taken + i]
  <2>1. i \in 1 .. arrived - (Taken + 1) + 1 /\ Taken + 1 + i - 1 = Taken + i
    BY <1>1
  <2>2. data[i] = sent[Taken + 1 + i - 1]
    BY <1>3, <2>1 DEF Types
  <2> QED BY <2>1, <2>2
<1> QED BY <1>1, <1>4

(* What was kept and what is taken now, together.                          *)
LEMMA KeptAndTaken ==
    ASSUME Types, NEW q \in 0 .. Taken, m_data = SubSeq(sent, q + 1, Taken),
           NEW k \in 0 .. Len(data)
    PROVE  m_data \o SubSeq(data, 1, k) = SubSeq(sent, q + 1, Taken + k)
<1>1. /\ Taken \in 0 .. arrived /\ arrived \in Nat /\ Len(data) \in Nat
      /\ Taken + Len(data) = arrived /\ arrived <= Len(sent) /\ Len(sent) \in Nat
  BY PartBytes
<1>2. SubSeq(data, 1, k) = SubSeq(sent, Taken + 1, Taken + k)
  <2>1. CASE k = 0
    <3>1. SubSeq(data, 1, k) = <<>> /\ SubSeq(sent, Taken + 1, Taken + k) = <<>>
      BY <1>1, <2>1, SubSeqEmpty
    <3> QED BY <3>1
  <2>2. CASE k # 0
    <3>1. /\ Taken + 1 \in 1 .. Len(sent) /\ arrived \in 1 .. Len(sent)
          /\ 1 \in 1 .. arrived - (Taken + 1) + 1 /\ k \in 1 .. arrived - (Taken + 1) + 1
      BY <1>1, <2>2
    <3> DEFINE b == Taken + 1
    <3>2. sent \in Seq(STRING) /\ data = SubSeq(sent, b, arrived)
      BY DEF Types
    <3>3. b + 1 - 1 = Taken + 1 /\ b + k - 1 = Taken + k
      BY <1>1
    <3>4. /\ b \in 1 .. Len(sent) /\ arrived \in 1 .. Len(sent)
          /\ 1 \in 1 .. arrived - b + 1 /\ k \in 1 .. arrived - b + 1
      BY <3>1
    <3> HIDE DEF b
    <3>5. SubSeq(SubSeq(sent, b, arrived), 1, k) = SubSeq(sent, b + 1 - 1, b + k - 1)
      BY <3>2, <3>4, SubSeqOfSubSeq
    <3> QED BY <3>2, <3>3, <3>5
  <2> QED BY <2>1, <2>2
<1>3. /\ q + 1 \in 1 .. Len(sent) + 1 /\ Taken \in q + 1 - 1 .. Len(sent)
      /\ Taken + k \in Taken .. Len(sent)
  BY <1>1
<1>4. SubSeq(sent, q + 1, Taken) \o SubSeq(sent, Taken + 1, Taken + k) = SubSeq(sent, q + 1, Taken + k)
  BY <1>3, ConcatAdjacentSubSeq DEF Types
<1> QED BY <1>2, <1>4

(* What is left of the part after k bytes.                                 *)
LEMMA RestOfPart ==
    ASSUME Types, NEW k \in 0 .. Len(data)
    PROVE  /\ SubSeq(data, k + 1, Len(data)) = SubSeq(sent, Taken + k + 1, arrived)
           /\ SubSeq(data, k + 1, Len(data)) \in Seq(STRING)
           /\ Len(SubSeq(data, k + 1, Len(data))) = Len(data) - k
<1>1. /\ Taken \in 0 .. arrived /\ arrived \in Nat /\ Len(data) \in Nat
      /\ Taken + Len(data) = arrived /\ arrived <= Len(sent) /\ Len(sent) \in Nat
  BY PartBytes
<1>2. \A i \in k + 1 .. Len(data) : data[i] \in STRING
  BY <1>1, ElementOfSeq DEF Types
<1>3. /\ SubSeq(data, k + 1, Len(data)) \in Seq(STRING)
      /\ Len(SubSeq(data, k + 1, Len(data))) =
            IF k + 1 <= Len(data) THEN Len(data) - (k + 1) + 1 ELSE 0
  BY <1>1, <1>2, SubSeqProperties
<1>4. SubSeq(data, k + 1, Len(data)) = SubSeq(sent, Taken + k + 1, arrived)
  <2>1. CASE k = Len(data)
    <3>1. SubSeq(data, k + 1, Len(data)) = <<>> /\ SubSeq(sent, Taken + k + 1, arrived) = <<>>
      BY <1>1, <2>1, SubSeqEmpty
    <3> QED BY <3>1
  <2>2. CASE k # Len(data)
    <3>1. /\ Taken + 1 \in 1 .. Len(sent) /\ arrived \in 1 .. Len(sent)
          /\ k + 1 \in 1 .. arrived - (Taken + 1) + 1
          /\ Len(data) \in 1 .. arrived - (Taken + 1) + 1
      BY <1>1, <2>2
    <3> DEFINE b == Taken + 1
               c == k + 1
               l == Len(data)
    <3>2. sent \in Seq(STRING) /\ data = SubSeq(sent, b, arrived)
      BY DEF Types
    <3>3. b + c - 1 = Taken + k + 1 /\ b + l - 1 = arrived
      BY <1>1
    <3>4. /\ b \in 1 .. Len(sent) /\ arrived \in 1 .. Len(sent)
          /\ c \in 1 .. arrived - b + 1 /\ l \in 1 .. arrived - b + 1
      BY <3>1
    <3> HIDE DEF b, c, l
    <3>5. SubSeq(SubSeq(sent, b, arrived), c, l) = SubSeq(sent, b + c - 1, b + l - 1)
      BY <3>2, <3>4, SubSeqOfSubSeq
    <3> QED BY <3>2, <3>3, <3>5 DEF c, l
  <2> QED BY <2>1, <2>2
<1> QED BY <1>1, <1>3, <1>4

(* The line the parser is about to take.                                   *)
LEMMA FirstEnd ==
    ASSUME Types, LineEnds
    PROVE  /\ LineEnd \in 1 .. Len(data) /\ data[LineEnd] = "nl"
           /\ \A j \in 1 .. LineEnd - 1 : data[j] # "nl"
<1> DEFINE S == {i \in 1 .. Len(data) : data[i] = "nl"}
<1>1. S \subseteq Nat /\ S # {} /\ Len(data) \in Nat
  BY PartBytes DEF LineEnds
<1>2. PICK i \in S : \A j \in S : i <= j
  BY <1>1, HasLeast
<1>3. i \in 1 .. Len(data) /\ data[i] = "nl" /\ \A j \in 1 .. i - 1 : data[j] # "nl"
  BY <1>1, <1>2
<1> QED BY <1>3 DEF LineEnd

LEMMA LineIsTaken ==
    ASSUME Types, NEW q \in 0 .. Taken, m_data = SubSeq(sent, q + 1, Taken), AtLine(q), LineEnds
    PROVE  LET n == Taken + LineEnd
           IN  /\ NextLine(sent, q, n) /\ n <= arrived
               /\ CurrentLine = Line(sent, n)
<1> DEFINE n == Taken + LineEnd
<1>1. /\ Taken \in 0 .. arrived /\ arrived \in Nat /\ Len(data) \in Nat
      /\ Taken + Len(data) = arrived /\ arrived <= Len(sent) /\ Len(sent) \in Nat
      /\ \A i \in 1 .. Len(data) : data[i] = sent[Taken + i]
  BY PartBytes
<1>2. /\ LineEnd \in 1 .. Len(data) /\ data[LineEnd] = "nl"
      /\ \A j \in 1 .. LineEnd - 1 : data[j] # "nl"
  BY FirstEnd
<1> HIDE DEF n
<1>3. n \in Ends(sent) /\ n <= arrived /\ q < n /\ n = Taken + LineEnd
  BY <1>1, <1>2 DEF Ends, n
<1>4. NoEnds(sent, q, n)
  <2> SUFFICES ASSUME NEW m \in Ends(sent), q < m, m < n PROVE FALSE
    BY DEF NoEnds
  <2>1. m \in Nat /\ sent[m] = "nl" /\ m > Taken
    BY <1>1 DEF AtLine, NoEnds, Ends
  <2>2. m - Taken \in 1 .. LineEnd - 1 /\ m - Taken \in 1 .. Len(data) /\ Taken + (m - Taken) = m
    BY <1>1, <1>2, <1>3, <2>1
  <2> QED BY <1>1, <1>2, <2>1, <2>2
<1>5. NextLine(sent, q, n)
  BY <1>1, <1>3, <1>4 DEF NextLine, AtLine
<1>6. CurrentLine = SubSeq(sent, q + 1, n)
  <2>1. LineEnd \in 0 .. Len(data)
    BY <1>1, <1>2
  <2>2. m_data \o SubSeq(data, 1, LineEnd) = SubSeq(sent, q + 1, Taken + LineEnd)
    BY <2>1, KeptAndTaken
  <2> QED BY <1>3, <2>2 DEF CurrentLine
<1>7. Line(sent, n) = SubSeq(sent, q + 1, n)
  BY <1>5, LineFrom DEF NextLine, Types
<1> QED BY <1>3, <1>5, <1>6, <1>7 DEF n

-----------------------------------------------------------------------------
(* The steps.                                                              *)

(* What the round that takes the line from q to n knows and does.          *)
Takes(q, n, next, length, r) ==
    /\ IInv /\ parsing /\ LineEnds /\ UNCHANGED <<sent, arrived>>
    /\ NextLine(sent, q, n) /\ n <= arrived
    /\ HeadUpTo(sent, q)
    /\ m_contentLength = Announced(sent, q + 1)
    /\ q = 0 <=> m_state = "initial"
    /\ CurrentLine = Line(sent, n)
    /\ n = Taken + LineEnd
    /\ TakeLine(next, length, r)

LEMMA TakesALine ==
    ASSUME IInv, parsing, m_state \in {"initial", "headers"}, LineEnds, UNCHANGED <<sent, arrived>>,
           NEW next, NEW length, NEW r, TakeLine(next, length, r)
    PROVE  \E q, n \in Nat : Takes(q, n, next, length, r)
<1>1. Types /\ result = "NeedMore"
  BY DEF IInv
<1>2. PICK q \in 0 .. arrived : Position(q)
  BY <1>1 DEF IInv, Waiting
<1>3. q \in 0 .. Taken /\ m_data = SubSeq(sent, q + 1, Taken) /\ AtLine(q)
  BY <1>1, <1>2, PartBytes DEF Position, AtBody
<1> DEFINE n == Taken + LineEnd
<1>4. NextLine(sent, q, n) /\ n <= arrived /\ CurrentLine = Line(sent, n)
  BY <1>1, <1>3, LineIsTaken
<1>5. q = 0 <=> m_state = "initial"
  <2>1. 0 \notin Ends(sent)
    BY <1>1, EndsArePositions DEF Types
  <2> QED BY <1>3, <2>1 DEF AtLine
<1>6. n \in Nat
  BY <1>1, FirstEnd, PartBytes
<1> QED BY <1>3, <1>4, <1>5, <1>6 DEF Takes, AtLine

(* The bytes after the line are left for the next round.                   *)
LEMMA LineTaken ==
    ASSUME NEW q \in Nat, NEW n \in Nat, NEW next, NEW length,
           NEW r \in {"NeedMore", "Success", "Error"}, Takes(q, n, next, length, r)
    PROVE  /\ Types' /\ Taken' = n /\ n \in Ends(sent)
           /\ parsing' => result' = "NeedMore" /\ data' # <<>>
           /\ ~ parsing' /\ result' = "NeedMore" => data' = <<>>
           /\ m_data' = SubSeq(sent, n + 1, n)
           /\ result' = r /\ m_state' = next /\ m_contentLength' = length
<1>1. /\ Types /\ LineEnds /\ n = Taken + LineEnd /\ TakeLine(next, length, r)
      /\ sent' = sent /\ arrived' = arrived
  BY DEF Takes, IInv
<1> DEFINE rest == SubSeq(data, LineEnd + 1, Len(data))
<1>2. LineEnd \in 0 .. Len(data) /\ LineEnd \in Nat
  BY <1>1, FirstEnd, PartBytes
<1>3. /\ Taken \in 0 .. arrived /\ arrived \in Nat /\ Len(data) \in Nat
      /\ Taken + Len(data) = arrived
  BY <1>1, PartBytes
<1>4. /\ rest = SubSeq(sent, Taken + LineEnd + 1, arrived)
      /\ rest \in Seq(STRING) /\ Len(rest) = Len(data) - LineEnd
  BY <1>1, <1>2, RestOfPart
<1>5. /\ data' = rest /\ result' = r /\ m_data' = <<>>
      /\ m_state' = next /\ m_contentLength' = length
      /\ parsing' = (r = "NeedMore" /\ rest # <<>>)
  BY <1>1 DEF TakeLine, Round
<1> HIDE DEF rest
<1>6. Taken' = n
  <2>1. Taken' = arrived - Len(rest)
    BY <1>1, <1>5 DEF Taken
  <2>2. arrived - (Len(data) - LineEnd) = Taken + LineEnd
    BY <1>2, <1>3
  <2> QED BY <1>1, <1>4, <2>1, <2>2
<1>7. Types'
  <2>1. Len(data') <= arrived /\ data' = SubSeq(sent, n + 1, arrived)
    BY <1>1, <1>2, <1>3, <1>4, <1>5
  <2> QED BY <1>1, <1>4, <1>5, <1>6, <2>1 DEF Types
<1>8. m_data' = SubSeq(sent, n + 1, n)
  BY <1>5, SubSeqEmpty
<1> QED BY <1>5, <1>6, <1>7, <1>8 DEF Takes, NextLine

(* A line of the head.                                                     *)
LEMMA HeadLineIInv ==
    ASSUME NEW q \in Nat, NEW n \in Nat, NEW length,
           Takes(q, n, "headers", length, "NeedMore"),
           HeadUpTo(sent, n), length = Announced(sent, n + 1)
    PROVE  IInv'
<1>1. /\ Types' /\ Taken' = n /\ n \in Ends(sent)
      /\ parsing' => result' = "NeedMore" /\ data' # <<>>
      /\ ~ parsing' /\ result' = "NeedMore" => data' = <<>>
      /\ m_data' = SubSeq(sent, n + 1, n)
      /\ result' = "NeedMore" /\ m_state' = "headers" /\ m_contentLength' = length
  BY LineTaken
<1>2. sent' = sent /\ arrived' = arrived /\ n <= arrived /\ arrived \in Nat
  BY PartBytes DEF Takes, IInv
<1>3. NoEnds(sent, n, n + 1)
  <2>1. Ends(sent) \subseteq Nat
    BY EndsArePositions DEF Takes, IInv, Types
  <2> QED BY <2>1 DEF NoEnds
<1>4. AtLine(n)'
  BY <1>1, <1>2, <1>3 DEF AtLine
<1>5. Position(n)'
  BY <1>1, <1>2, <1>4 DEF Position
<1> QED BY <1>1, <1>2, <1>5 DEF IInv, Waiting, Answered

(* The end of a head with a body.                                          *)
LEMMA BodyBeginsIInv ==
    ASSUME NEW q \in Nat, NEW n \in Nat, NEW length,
           Takes(q, n, "body", length, "NeedMore"),
           FirstHeadEnd(sent, n), length = Announced(sent, n), length # 0
    PROVE  IInv'
<1>1. /\ Types' /\ Taken' = n
      /\ parsing' => result' = "NeedMore" /\ data' # <<>>
      /\ ~ parsing' /\ result' = "NeedMore" => data' = <<>>
      /\ m_data' = SubSeq(sent, n + 1, n)
      /\ result' = "NeedMore" /\ m_state' = "body" /\ m_contentLength' = length
  BY LineTaken
<1>2. sent' = sent /\ arrived' = arrived /\ n <= arrived /\ arrived \in Nat
  BY PartBytes DEF Takes, IInv
<1>3. n - n < length
  <2>1. length \in Nat
    BY AnnouncedBy DEF Takes, IInv, Types
  <2> QED BY <2>1
<1>4. AtBody(n)'
  BY <1>1, <1>2, <1>3 DEF AtBody
<1>5. Position(n)'
  BY <1>1, <1>2, <1>4 DEF Position
<1> QED BY <1>1, <1>2, <1>5 DEF IInv, Waiting, Answered

(* A line after which no more is needed.                                   *)
LEMMA LastLineIInv ==
    ASSUME NEW q \in Nat, NEW n \in Nat, NEW next, NEW length, NEW r \in {"Success", "Error"},
           Takes(q, n, next, length, r), r = Verdict(Received),
           r = "Success" => FirstHeadEnd(sent, n) /\ Announced(sent, n) = 0
    PROVE  IInv'
<1>1. /\ Types' /\ ~ parsing' /\ result' = r /\ m_data' = SubSeq(sent, n + 1, n)
  BY LineTaken
<1>2. sent' = sent /\ arrived' = arrived /\ n <= arrived /\ Types
  BY DEF Takes, IInv
<1>3. Received' = Received
  BY <1>2 DEF Received
<1>4. BodyIsExact'
  <2> SUFFICES ASSUME r = "Success"
               PROVE  m_data' = SubSeq(Received, Min(HeadEnds(Received)) + 1,
                                       Min(HeadEnds(Received))
                                          + Announced(Received, Min(HeadEnds(Received))))
    BY <1>1, <1>3 DEF BodyIsExact
  <2>1. Min(HeadEnds(Received)) = n /\ Announced(Received, n) = 0
    BY <1>2, VerdictOfBody
  <2>2. SubSeq(Received, n + 1, n + 0) = <<>> /\ SubSeq(sent, n + 1, n) = <<>>
    BY SubSeqEmpty
  <2> QED BY <1>1, <2>1, <2>2
<1> QED BY <1>1, <1>3, <1>4 DEF IInv, Waiting, Answered

LEMMA InitialStateIInv ==
    ASSUME IInv, parsing, InitialState, UNCHANGED <<sent, arrived>>
    PROVE  IInv'
<1>1. CASE CurrentLine = StartLine
  <2>1. m_state = "initial" /\ LineEnds /\ TakeLine("headers", m_contentLength, "NeedMore")
    BY <1>1 DEF InitialState
  <2>2. PICK q, n \in Nat : Takes(q, n, "headers", m_contentLength, "NeedMore")
    BY <2>1, TakesALine
  <2>3. /\ sent \in Seq(STRING) /\ NextLine(sent, q, n) /\ q = 0 /\ HeadUpTo(sent, q)
        /\ CurrentLine = Line(sent, n) /\ m_contentLength = Announced(sent, q + 1)
    BY <2>1, <2>2 DEF Takes, IInv, Types
  <2>4. HeadUpTo(sent, n)
    BY <1>1, <2>3, HeadUpToNext
  <2>5. ~ IsLength(Line(sent, n))
    BY <1>1, <2>3, NumberAssumption DEF StartLine, IsLength
  <2>6. m_contentLength = Announced(sent, n + 1)
    BY <2>3, <2>5, AnnouncedNext
  <2> QED BY <2>2, <2>4, <2>6, HeadLineIInv
<1>2. CASE CurrentLine # StartLine
  <2>1. m_state = "initial" /\ LineEnds /\ TakeLine("initial", m_contentLength, "Error")
    BY <1>2 DEF InitialState
  <2>2. PICK q, n \in Nat : Takes(q, n, "initial", m_contentLength, "Error")
    BY <2>1, TakesALine
  <2>3. /\ Types /\ sent \in Seq(STRING) /\ NextLine(sent, q, n) /\ q = 0 /\ HeadUpTo(sent, q)
        /\ CurrentLine = Line(sent, n) /\ n <= arrived /\ arrived \in Nat
    BY <2>1, <2>2, PartBytes DEF Takes, IInv, Types
  <2>4. ~ HeadUpTo(sent, n)
    BY <1>2, <2>3, HeadUpToNext
  <2>5. HeadEnds(sent) = {} /\ ~ HeadUpTo(sent, arrived)
    BY <2>3, <2>4, HeadIsBad
  <2>6. HeadEnds(Received) = {}
    BY <2>3, <2>5, ReceivedBytes
  <2>7. Verdict(Received) = "Error"
    BY <2>3, <2>5, <2>6, VerdictInHead
  <2> QED BY <2>2, <2>7, LastLineIInv
<1> QED BY <1>1, <1>2

LEMMA HeadersStateIInv ==
    ASSUME IInv, parsing, HeadersState, UNCHANGED <<sent, arrived>>
    PROVE  IInv'
<1>1. /\ m_state = "headers" /\ LineEnds
      /\ \/ /\ IsLength(CurrentLine)
            /\ TakeLine("headers", Number[CurrentLine[1]], "NeedMore")
         \/ /\ IsHeader(CurrentLine) /\ ~ IsLength(CurrentLine)
            /\ TakeLine("headers", m_contentLength, "NeedMore")
         \/ /\ CurrentLine = EmptyLine /\ m_contentLength # 0
            /\ TakeLine("body", m_contentLength, "NeedMore")
         \/ /\ CurrentLine = EmptyLine /\ m_contentLength = 0
            /\ TakeLine("headers", m_contentLength, "Success")
         \/ /\ ~ IsHeader(CurrentLine) /\ CurrentLine # EmptyLine
            /\ \E length : TakeLine("headers", length, "Error")
  <2>1. CASE /\ CurrentLine = <<"wrong", "cr", "nl">>
             /\ TakeLine("headers", 0, "Error")
    BY <2>1, NotAHeader DEF HeadersState
  <2>2. CASE /\ ~ IsHeader(CurrentLine)
             /\ CurrentLine \notin {EmptyLine, <<"wrong", "cr", "nl">>}
             /\ TakeLine("headers", m_contentLength, "Error")
    BY <2>2 DEF HeadersState
  <2> QED BY <2>1, <2>2 DEF HeadersState
(* What holds of the line, whatever becomes of it.                         *)
<1>2. ASSUME NEW q \in Nat, NEW n \in Nat, NEW next, NEW length, NEW r,
             Takes(q, n, next, length, r)
      PROVE  /\ sent \in Seq(STRING) /\ NextLine(sent, q, n) /\ q # 0 /\ HeadUpTo(sent, q)
             /\ CurrentLine = Line(sent, n) /\ m_contentLength = Announced(sent, q + 1)
             /\ Types /\ n <= arrived /\ arrived \in Nat
             /\ HeadUpTo(sent, n) <=> IsHeader(CurrentLine)
             /\ Announced(sent, n) = m_contentLength
             /\ Announced(sent, n + 1) = IF IsLength(CurrentLine) THEN Number[CurrentLine[1]]
                                         ELSE m_contentLength
  <2>1. /\ sent \in Seq(STRING) /\ NextLine(sent, q, n) /\ q # 0 /\ HeadUpTo(sent, q)
        /\ CurrentLine = Line(sent, n) /\ m_contentLength = Announced(sent, q + 1)
        /\ Types /\ n <= arrived /\ arrived \in Nat
    BY <1>1, <1>2, PartBytes DEF Takes, IInv, Types
  <2> QED BY <2>1, HeadUpToNext, AnnouncedNext
<1>3. CASE /\ IsLength(CurrentLine)
           /\ TakeLine("headers", Number[CurrentLine[1]], "NeedMore")
  <2>1. PICK q, n \in Nat : Takes(q, n, "headers", Number[CurrentLine[1]], "NeedMore")
    BY <1>1, <1>3, TakesALine
  <2>2. HeadUpTo(sent, n) /\ Announced(sent, n + 1) = Number[CurrentLine[1]]
    BY <1>2, <1>3, <2>1 DEF IsHeader
  <2> QED BY <2>1, <2>2, HeadLineIInv
<1>4. CASE /\ IsHeader(CurrentLine) /\ ~ IsLength(CurrentLine)
           /\ TakeLine("headers", m_contentLength, "NeedMore")
  <2>1. PICK q, n \in Nat : Takes(q, n, "headers", m_contentLength, "NeedMore")
    BY <1>1, <1>4, TakesALine
  <2>2. HeadUpTo(sent, n) /\ Announced(sent, n + 1) = m_contentLength
    BY <1>2, <1>4, <2>1
  <2> QED BY <2>1, <2>2, HeadLineIInv
<1>5. CASE /\ CurrentLine = EmptyLine /\ m_contentLength # 0
           /\ TakeLine("body", m_contentLength, "NeedMore")
  <2>1. PICK q, n \in Nat : Takes(q, n, "body", m_contentLength, "NeedMore")
    BY <1>1, <1>5, TakesALine
  <2>2. FirstHeadEnd(sent, n) /\ Announced(sent, n) = m_contentLength
    BY <1>2, <1>5, <2>1, HeadEndsNext
  <2> QED BY <1>5, <2>1, <2>2, BodyBeginsIInv
<1>6. CASE /\ CurrentLine = EmptyLine /\ m_contentLength = 0
           /\ TakeLine("headers", m_contentLength, "Success")
  <2>1. PICK q, n \in Nat : Takes(q, n, "headers", m_contentLength, "Success")
    BY <1>1, <1>6, TakesALine
  <2>2. FirstHeadEnd(sent, n) /\ Announced(sent, n) = 0 /\ Types /\ n <= arrived
    BY <1>2, <1>6, <2>1, HeadEndsNext
  <2>3. Verdict(Received) = "Success"
    BY <2>2, VerdictOfBody
  <2> QED BY <2>1, <2>2, <2>3, LastLineIInv
<1>7. CASE /\ ~ IsHeader(CurrentLine) /\ CurrentLine # EmptyLine
           /\ \E length : TakeLine("headers", length, "Error")
  <2>1. PICK length : TakeLine("headers", length, "Error")
    BY <1>7
  <2>2. PICK q, n \in Nat : Takes(q, n, "headers", length, "Error")
    BY <1>1, <2>1, TakesALine
  <2>3. /\ sent \in Seq(STRING) /\ NextLine(sent, q, n) /\ HeadUpTo(sent, q)
        /\ ~ HeadUpTo(sent, n) /\ Line(sent, n) # EmptyLine
        /\ Types /\ n <= arrived /\ arrived \in Nat
    BY <1>2, <1>7, <2>2
  <2>4. HeadEnds(sent) = {} /\ ~ HeadUpTo(sent, arrived)
    BY <2>3, HeadIsBad
  <2>5. HeadEnds(Received) = {}
    BY <2>3, <2>4, ReceivedBytes
  <2>6. Verdict(Received) = "Error"
    BY <2>3, <2>4, <2>5, VerdictInHead
  <2> QED BY <2>2, <2>6, LastLineIInv
<1> QED BY <1>1, <1>3, <1>4, <1>5, <1>6, <1>7

(* The whole part is kept: for the next line, or for the body.             *)
LEMMA PartKept ==
    ASSUME IInv, parsing, NEW r \in {"NeedMore", "Success", "Error"}, Round(r, <<>>),
           UNCHANGED <<sent, arrived>>
    PROVE  /\ Types' /\ Taken' = arrived /\ ~ parsing'
           /\ result' = r /\ data' = <<>>
<1>1. /\ data' = <<>> /\ result' = r /\ ~ parsing' /\ parsing' \in BOOLEAN
      /\ sent' = sent /\ arrived' = arrived
  BY DEF Round
<1>2. Types /\ arrived \in Nat /\ Len(<<>>) = 0 /\ <<>> \in Seq(STRING)
  BY PartBytes, EmptySeq DEF IInv
<1>3. Taken' = arrived
  BY <1>1, <1>2 DEF Taken
<1>4. SubSeq(sent, arrived + 1, arrived) = <<>>
  BY <1>2, SubSeqEmpty
<1>5. Types'
  BY <1>1, <1>2, <1>3, <1>4 DEF Types
<1> QED BY <1>1, <1>3, <1>5

LEMMA KeptPart ==
    ASSUME Types, NEW q \in 0 .. Taken, m_data = SubSeq(sent, q + 1, Taken)
    PROVE  m_data \o data = SubSeq(sent, q + 1, arrived)
<1>1. Len(data) \in 0 .. Len(data) /\ Taken + Len(data) = arrived /\ data \in Seq(STRING)
  BY PartBytes DEF Types
<1>2. SubSeq(data, 1, Len(data)) = data
  BY <1>1, SubSeqFull
<1> QED BY <1>1, <1>2, KeptAndTaken

LEMMA KeepPartIInv ==
    ASSUME IInv, parsing, KeepPart, UNCHANGED <<sent, arrived>>
    PROVE  IInv'
<1>1. /\ m_state \in {"initial", "headers"} /\ ~ LineEnds /\ m_data' = m_data \o data
      /\ Round("NeedMore", <<>>) /\ UNCHANGED <<m_state, m_contentLength, sent, arrived>>
  BY DEF KeepPart
<1>2. Types' /\ Taken' = arrived /\ ~ parsing' /\ result' = "NeedMore" /\ data' = <<>>
  BY <1>1, PartKept
<1>3. /\ Types /\ Taken \in 0 .. arrived /\ arrived \in Nat
      /\ Taken + Len(data) = arrived /\ arrived <= Len(sent) /\ Len(data) \in Nat
      /\ \A i \in 1 .. Len(data) : data[i] = sent[Taken + i]
  BY PartBytes DEF IInv
<1>4. PICK q \in 0 .. arrived : Position(q)
  BY DEF IInv, Waiting
<1>5. q \in 0 .. Taken /\ m_data = SubSeq(sent, q + 1, Taken) /\ AtLine(q)
  BY <1>1, <1>3, <1>4 DEF Position, AtBody
<1>6. m_data' = SubSeq(sent, q + 1, arrived)
  BY <1>1, <1>3, <1>5, KeptPart
<1>7. NoEnds(sent, q, arrived + 1)
  <2> SUFFICES ASSUME NEW m \in Ends(sent), q < m, m < arrived + 1 PROVE FALSE
    BY DEF NoEnds
  <2>1. m \in Nat /\ sent[m] = "nl" /\ m > Taken
    BY <1>3, <1>5 DEF AtLine, NoEnds, Ends
  <2>2. m - Taken \in 1 .. Len(data) /\ Taken + (m - Taken) = m
    BY <1>3, <2>1
  <2> QED BY <1>1, <1>3, <2>1, <2>2 DEF LineEnds
<1>8. AtLine(q)'
  BY <1>1, <1>2, <1>5, <1>7 DEF AtLine
<1>9. Position(q)'
  <2>1. q <= arrived
    BY <1>3, <1>5
  <2> QED BY <1>1, <1>2, <1>6, <1>8, <2>1 DEF Position
<1> QED BY <1>1, <1>2, <1>9 DEF IInv, Waiting, Answered

LEMMA BodyStateIInv ==
    ASSUME IInv, parsing, BodyState, UNCHANGED <<sent, arrived>>
    PROVE  IInv'
<1> DEFINE got == Len(m_data')
           r == CASE got > m_contentLength -> "Error"
                  [] got = m_contentLength -> "Success"
                  [] OTHER -> "NeedMore"
<1>1. /\ m_state = "body" /\ m_data' = m_data \o data /\ Round(r, <<>>)
      /\ UNCHANGED <<m_state, m_contentLength, sent, arrived>>
  BY DEF BodyState
<1>2. /\ Types /\ Taken \in 0 .. arrived /\ arrived \in Nat /\ arrived <= Len(sent)
      /\ Len(sent) \in Nat /\ sent \in Seq(STRING)
  BY PartBytes DEF IInv, Types
<1>3. PICK q \in 0 .. arrived : Position(q)
  BY <1>1 DEF IInv, Waiting
<1>4. /\ q \in 0 .. Taken /\ m_data = SubSeq(sent, q + 1, Taken)
      /\ FirstHeadEnd(sent, q) /\ m_contentLength = Announced(sent, q)
      /\ Taken - q < m_contentLength
  BY <1>1, <1>2, <1>3 DEF Position, AtBody, AtLine
<1>5. m_data' = SubSeq(sent, q + 1, arrived)
  BY <1>1, <1>2, <1>4, KeptPart
<1>6. got = arrived - q
  <2>1. \A i \in q + 1 .. arrived : sent[i] \in STRING
    BY <1>2, ElementOfSeq
  <2>2. Len(SubSeq(sent, q + 1, arrived)) = IF q + 1 <= arrived THEN arrived - (q + 1) + 1 ELSE 0
    BY <1>2, <2>1, SubSeqProperties
  <2> QED BY <1>2, <1>5, <2>2
<1>7. /\ Min(HeadEnds(Received)) = q
      /\ Announced(Received, q) = m_contentLength
      /\ m_contentLength \in Nat /\ m_contentLength # 0
      /\ Verdict(Received) = IF m_contentLength = 0 \/ arrived - q = m_contentLength THEN "Success"
                             ELSE IF arrived - q > m_contentLength THEN "Error" ELSE "NeedMore"
  <2>1. /\ Min(HeadEnds(Received)) = q
        /\ Announced(Received, q) = Announced(sent, q) /\ Announced(sent, q) \in Nat
        /\ Verdict(Received) = IF Announced(sent, q) = 0 \/ arrived - q = Announced(sent, q)
                               THEN "Success"
                               ELSE IF arrived - q > Announced(sent, q) THEN "Error" ELSE "NeedMore"
    BY <1>2, <1>3, <1>4, VerdictOfBody
  <2> QED BY <1>2, <1>4, <2>1
<1> HIDE DEF got
<1>8. r = Verdict(Received) /\ r \in {"NeedMore", "Success", "Error"}
  BY <1>2, <1>6, <1>7
<1>9. r = "NeedMore" => arrived - q < m_contentLength
  BY <1>2, <1>6, <1>7
<1>10. r = "Success" => arrived = q + m_contentLength
  BY <1>2, <1>6, <1>7
<1> HIDE DEF r
<1>11. Types' /\ Taken' = arrived /\ ~ parsing' /\ result' = r /\ data' = <<>>
  BY <1>1, <1>8, PartKept
<1>12. Received' = Received
  BY <1>1 DEF Received
<1>13. CASE r = "NeedMore"
  <2>1. q <= arrived
    BY <1>2
  <2>2. Position(q)'
    BY <1>1, <1>4, <1>5, <1>9, <1>11, <1>13, <2>1 DEF Position, AtBody
  <2> QED BY <1>1, <1>11, <1>13, <2>2 DEF IInv, Waiting, Answered
<1>14. CASE r # "NeedMore"
  <2>1. BodyIsExact'
    <3> SUFFICES ASSUME r = "Success"
                 PROVE  m_data' = SubSeq(Received, q + 1, q + m_contentLength)
      BY <1>7, <1>11, <1>12 DEF BodyIsExact
    <3>1. arrived = q + m_contentLength /\ arrived \in 1 .. Len(sent) /\ 1 \in 1 .. Len(sent)
      BY <1>2, <1>7, <1>10
    <3> DEFINE b == q + 1
    <3>2. b \in 1 .. arrived - 1 + 1 /\ arrived \in 1 .. arrived - 1 + 1
      BY <1>2, <1>7, <3>1
    <3>3. 1 + b - 1 = b /\ 1 + arrived - 1 = arrived
      BY <1>2
    <3> HIDE DEF b
    <3>4. SubSeq(SubSeq(sent, 1, arrived), b, arrived) = SubSeq(sent, 1 + b - 1, 1 + arrived - 1)
      BY <1>2, <3>1, <3>2, SubSeqOfSubSeq
    <3> QED BY <1>5, <3>1, <3>3, <3>4 DEF b, Received
  <2> QED BY <1>8, <1>11, <1>12, <1>14, <2>1 DEF IInv, Waiting, Answered
<1> QED BY <1>13, <1>14

(* More bytes make the next part.                                          *)
LEMMA NextPartIInv == ASSUME IInv, NEW k, NextPart(k) PROVE IInv'
<1>1. /\ ~ parsing /\ parsing' /\ result = "NeedMore" /\ data = <<>>
      /\ data' = SubSeq(sent, arrived + 1, arrived + k) /\ arrived' = arrived + k
      /\ parsing' \in BOOLEAN
      /\ k \in 1 .. Len(sent) - arrived
      /\ UNCHANGED <<sent, m_state, m_data, m_contentLength, result>>
  BY DEF NextPart, IInv
<1>2. /\ Types /\ arrived \in Nat /\ arrived <= Len(sent) /\ Len(sent) \in Nat
      /\ sent \in Seq(STRING) /\ Taken + Len(data) = arrived /\ Len(data) = 0 /\ Taken = arrived
  <2>1. Len(data) = 0
    BY <1>1
  <2>2. /\ Types /\ arrived \in Nat /\ arrived <= Len(sent) /\ Len(sent) \in Nat
        /\ sent \in Seq(STRING) /\ Taken + Len(data) = arrived /\ Taken \in 0 .. arrived
    BY PartBytes DEF IInv, Types
  <2> QED BY <2>1, <2>2
<1>3. data' \in Seq(STRING) /\ Len(data') = k
  <2>1. \A i \in arrived + 1 .. arrived + k : sent[i] \in STRING
    BY <1>1, <1>2, ElementOfSeq
  <2>2. /\ data' \in Seq(STRING)
        /\ Len(data') = IF arrived + 1 <= arrived + k THEN (arrived + k) - (arrived + 1) + 1 ELSE 0
    BY <1>1, <1>2, <2>1, SubSeqProperties
  <2> QED BY <1>1, <1>2, <2>2
<1>4. Taken' = Taken
  <2>1. Taken' = arrived' - Len(data')
    BY DEF Taken
  <2>2. arrived' = arrived + k /\ Len(data') = k /\ k \in Nat
    BY <1>1, <1>2, <1>3
  <2> QED BY <1>2, <2>1, <2>2
<1>5. Types'
  <2>1. arrived' \in 0 .. Len(sent) /\ Len(data') <= arrived'
    BY <1>1, <1>2, <1>3
  <2> QED BY <1>1, <1>2, <1>3, <1>4, <2>1 DEF Types
<1>6. data' # <<>>
  <2>1. Len(data') # 0
    BY <1>1, <1>3
  <2> QED BY <2>1
<1>7. PICK q \in 0 .. arrived : Position(q)
  BY <1>1 DEF IInv, Waiting
<1>8. Position(q)'
  BY <1>1, <1>4, <1>7 DEF Position, AtLine, AtBody
<1>9. q \in 0 .. arrived'
  BY <1>1, <1>2
<1> QED BY <1>1, <1>5, <1>6, <1>8, <1>9 DEF IInv, Waiting, Answered

LEMMA InitIInv == Init => IInv
<1> SUFFICES ASSUME Init PROVE IInv
  OBVIOUS
<1>1. /\ sent \in Seq(STRING) /\ arrived = 0 /\ data = <<>> /\ m_data = <<>> /\ ~ parsing
      /\ m_state = "initial" /\ m_contentLength = 0 /\ result = "NeedMore"
  BY StreamsAssumption DEF Init
<1>2. Len(sent) \in Nat /\ Len(data) = 0 /\ data \in Seq(STRING) /\ Ends(sent) \subseteq Nat \ {0}
  BY <1>1, LenProperties, EmptySeq, EndsArePositions
<1>3. Taken = 0
  <2>1. arrived = 0 /\ Len(data) = 0
    BY <1>1, <1>2
  <2> QED BY <2>1 DEF Taken
<1>4. SubSeq(sent, 1, 0) = <<>>
  BY SubSeqEmpty
<1>5. Types
  <2>1. parsing \in BOOLEAN /\ arrived \in 0 .. Len(sent) /\ Len(data) <= arrived
    <3>1. parsing \in BOOLEAN
      BY DEF Init
    <3>2. arrived = 0 /\ Len(sent) \in Nat /\ Len(data) = 0
      BY <1>1, <1>2
    <3> QED BY <3>1, <3>2
  <2>2. data = SubSeq(sent, Taken + 1, arrived)
    <3>1. arrived = 0 /\ data = <<>> /\ Taken + 1 = 1
      BY <1>1, <1>3
    <3> QED BY <1>4, <3>1
  <2> QED BY <1>1, <1>2, <2>1, <2>2 DEF Types
<1>6. AtLine(0)
  <2>1. Announced(sent, 1) = 0
    <3>1. Lengths(sent, 1) = {}
      BY <1>2 DEF Lengths
    <3> QED BY <1>1, <3>1, AnnouncedBy
  <2>2. HeadUpTo(sent, 0) /\ NoEnds(sent, 0, 1)
    BY <1>2 DEF HeadUpTo, NoEnds
  <2> QED BY <1>1, <1>3, <2>1, <2>2 DEF AtLine
<1>7. Position(0)
  BY <1>1, <1>3, <1>4, <1>6 DEF Position
<1> QED BY <1>1, <1>5, <1>7 DEF IInv, Waiting, Answered

LEMMA NextIInv == IInv /\ [Next]_vars => IInv'
<1> SUFFICES ASSUME IInv, [Next]_vars PROVE IInv'
  OBVIOUS
<1>1. CASE \E k \in 1 .. Len(sent) : NextPart(k)
  BY <1>1, NextPartIInv
<1>2. CASE ParseRound
  BY <1>2, KeepPartIInv, InitialStateIInv, HeadersStateIInv, BodyStateIInv DEF ParseRound
<1>3. CASE UNCHANGED vars
  BY <1>3 DEF vars, IInv, Types, Taken, Waiting, Answered, Position, AtLine, AtBody,
              Received, BodyIsExact
<1> QED BY <1>1, <1>2, <1>3 DEF Next

THEOREM SpecIInv == Spec => []IInv
  BY InitIInv, NextIInv, PTL DEF Spec

-----------------------------------------------------------------------------

(* Between two parts, parseNextPart has answered what the bytes received   *)
(* so far deserve, and so no matter how they were cut: lines split over    *)
(* parts, parts with several lines, a body that begins with its head.      *)
THEOREM VerdictAlwaysFitsBytes == Spec => []VerdictFitsBytes
<1>1. IInv => VerdictFitsBytes
  <2> SUFFICES ASSUME IInv, ~ parsing, result = "NeedMore" PROVE Verdict(Received) = "NeedMore"
    BY DEF IInv, Answered, VerdictFitsBytes
  <2>1. PICK q \in 0 .. arrived : Position(q)
    BY DEF IInv, Waiting
  <2>2. Types /\ Len(data) = 0 /\ arrived \in Nat /\ Taken = arrived /\ sent \in Seq(STRING)
    <3>1. Len(data) = 0
      BY DEF IInv
    <3>2. Types /\ arrived \in Nat /\ Taken + Len(data) = arrived /\ Taken \in 0 .. arrived
      BY PartBytes DEF IInv
    <3> QED BY <3>1, <3>2 DEF Types
  <2>3. CASE AtBody(q)
    <3>1. /\ FirstHeadEnd(sent, q) /\ q <= arrived /\ arrived - q < Announced(sent, q)
      BY <2>1, <2>2, <2>3 DEF AtBody
    <3>2. Announced(sent, q) \in Nat
      BY <2>2, AnnouncedBy
    <3>3. Announced(sent, q) # 0
      BY <2>2, <3>1, <3>2
    <3> QED BY <2>2, <3>1, <3>2, <3>3, VerdictOfBody
  <2>4. CASE AtLine(q)
    <3>1. HeadUpTo(sent, q) /\ NoEnds(sent, q, arrived + 1) /\ Ends(sent) \subseteq Nat
      BY <2>2, <2>4, EndsArePositions DEF AtLine
    <3>2. \A m \in Ends(sent) : m <= arrived => m <= q
      BY <2>2, <3>1 DEF NoEnds
    <3>3. HeadUpTo(sent, arrived)
      BY <3>1, <3>2 DEF HeadUpTo
    <3>4. HeadEnds(Received) = {}
      <4>1. \A m \in HeadEnds(sent) : q < m /\ m \in Ends(sent)
        BY <2>2, <3>1, HeadGoesOn DEF HeadEnds
      <4>2. \A m \in HeadEnds(sent) : ~ (m <= arrived)
        BY <3>1, <3>2, <4>1
      <4> QED BY <2>2, <4>2, ReceivedBytes
    <3> QED BY <2>2, <3>3, <3>4, VerdictInHead
  <2> QED BY <2>1, <2>3, <2>4 DEF Position
<1> QED BY <1>1, SpecIInv, PTL

(* A method is given the announced number of bytes, those after the head.  *)
THEOREM BodyIsAlwaysExact == Spec => []BodyIsExact
<1>1. IInv => BodyIsExact
  BY DEF IInv, Answered, BodyIsExact
<1> QED BY <1>1, SpecIInv, PTL

=============================================================================
