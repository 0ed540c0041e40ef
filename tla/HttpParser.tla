----------------------------- MODULE HttpParser -----------------------------
(***************************************************************************)
(* HttpParser (httpparser.cpp): a request parsed from the parts in which   *)
(* its bytes arrive.  A byte stands for all the text of a line that has no *)
(* effect of its own: "start" for a start line the regular expression      *)
(* takes, "head" for a header, a text with a Number for a Content-Length,  *)
(* "wrong" for one that is no number, anything else for text that is none  *)
(* of these; "cr" and "nl" end a line.                                     *)
(***************************************************************************)
EXTENDS Naturals, SequencesExt

CONSTANTS
    Streams,  \* what clients send
    Number    \* toULongLong() of each Content-Length that is a number

ASSUME StreamsAssumption == Streams \subseteq Seq(STRING)
ASSUME NumberAssumption ==
    /\ DOMAIN Number \cap {"start", "head", "wrong", "cr", "nl"} = {}
    /\ \A text \in DOMAIN Number : Number[text] \in Nat

VARIABLES
    sent,           \* all the client sends
    arrived,        \* how many bytes of it were handed to the parser
    data,           \* what the current part has left, while it is parsed
    parsing,        \* parseNextPart() is running
    m_state, m_data, m_contentLength, result

vars == <<sent, arrived, data, parsing, m_state, m_data, m_contentLength, result>>

StartLine == <<"start", "cr", "nl">>
EmptyLine == <<"cr", "nl">>
IsLength(line) == Len(line) = 3 /\ line[1] \in DOMAIN Number /\ Tail(line) = EmptyLine
IsHeader(line) == line = <<"head", "cr", "nl">> \/ IsLength(line)

Init ==
    /\ sent \in Streams
    /\ arrived = 0
    /\ data = <<>>
    /\ parsing = FALSE
    /\ m_state = "initial"
    /\ m_data = <<>>
    /\ m_contentLength = 0
    /\ result = "NeedMore"

(* parseNextPart() is called with the next k bytes.                        *)
NextPart(k) ==
    /\ ~ parsing
    /\ result = "NeedMore"
    /\ k \in 1 .. Len(sent) - arrived
    /\ data' = SubSeq(sent, arrived + 1, arrived + k)
    /\ arrived' = arrived + k
    /\ parsing' = TRUE
    /\ UNCHANGED <<sent, m_state, m_data, m_contentLength, result>>

(* The end of a round of the loop, which goes on while there is data.      *)
Round(r, rest) ==
    /\ result' = r
    /\ data' = rest
    /\ parsing' = (r = "NeedMore" /\ rest # <<>>)

LineEnds == \E i \in 1 .. Len(data) : data[i] = "nl"
LineEnd == CHOOSE i \in 1 .. Len(data) : data[i] = "nl" /\ \A j \in 1 .. i - 1 : data[j] # "nl"

MutCurrentLine == SubSeq(data, 1, LineEnd)

(* What was kept and the bytes up to the end of line make up a line.       *)
CurrentLine == m_data \o SubSeq(data, 1, LineEnd)

(* Without an end of line the part is kept and more is needed.             *)
KeepPart ==
    /\ m_state \in {"initial", "headers"}
    /\ ~ LineEnds
    /\ m_data' = m_data \o data
    /\ Round("NeedMore", <<>>)
    /\ UNCHANGED <<m_state, m_contentLength>>

(* A line is taken from the part, and m_data is ready for the next one.    *)
TakeLine(next, length, r) ==
    /\ m_data' = <<>>
    /\ m_state' = next
    /\ m_contentLength' = length
    /\ Round(r, SubSeq(data, LineEnd + 1, Len(data)))

InitialState ==
    /\ m_state = "initial"
    /\ LineEnds
    /\ IF CurrentLine = StartLine
       THEN TakeLine("headers", m_contentLength, "NeedMore")
       ELSE TakeLine("initial", m_contentLength, "Error")

HeadersState ==
    /\ m_state = "headers"
    /\ LineEnds
    /\ \/ /\ IsLength(CurrentLine)
          /\ TakeLine("headers", Number[CurrentLine[1]], "NeedMore")
       \/ /\ IsHeader(CurrentLine) /\ ~ IsLength(CurrentLine)
          /\ TakeLine("headers", m_contentLength, "NeedMore")
       \/ /\ CurrentLine = EmptyLine /\ m_contentLength # 0
          /\ TakeLine("body", m_contentLength, "NeedMore")
       \/ /\ CurrentLine = EmptyLine /\ m_contentLength = 0
          /\ TakeLine("headers", m_contentLength, "Success")
       \/ /\ CurrentLine = <<"wrong", "cr", "nl">>
          /\ TakeLine("headers", 0, "Error")
       \/ /\ ~ IsHeader(CurrentLine)
          /\ CurrentLine \notin {EmptyLine, <<"wrong", "cr", "nl">>}
          /\ TakeLine("headers", m_contentLength, "Error")

MutBodyTakesMore ==
    /\ m_state = "body"
    /\ m_data' = m_data \o data
    /\ Round(IF Len(m_data') >= m_contentLength THEN "Success" ELSE "NeedMore", <<>>)
    /\ UNCHANGED <<m_state, m_contentLength>>

BodyState ==
    /\ m_state = "body"
    /\ m_data' = m_data \o data
    /\ Round(CASE Len(m_data') > m_contentLength -> "Error"
               [] Len(m_data') = m_contentLength -> "Success"
               [] OTHER -> "NeedMore", <<>>)
    /\ UNCHANGED <<m_state, m_contentLength>>

ParseRound ==
    /\ parsing
    /\ KeepPart \/ InitialState \/ HeadersState \/ BodyState
    /\ UNCHANGED <<sent, arrived>>

Next == (\E k \in 1 .. Len(sent) : NextPart(k)) \/ ParseRound

Spec == Init /\ [][Next]_vars

-----------------------------------------------------------------------------
(* What a request is, of bytes s, without parts and without a state.       *)

(* The lines of s as the positions of their ends.                          *)
Ends(s) == {n \in 1 .. Len(s) : s[n] = "nl"}
Line(s, n) ==
    SubSeq(s, 1 + Max({0} \cup {m \in Ends(s) : m < n}), n)
First(s, n) == \A m \in Ends(s) : m >= n

(* The lines up to the one that ends at n belong to the head of a request. *)
HeadUpTo(s, n) ==
    \A m \in {m \in Ends(s) : m <= n} :
        IF First(s, m) THEN Line(s, m) = StartLine ELSE IsHeader(Line(s, m))

HeadEnds(s) == {n \in Ends(s) : /\ Line(s, n) = EmptyLine
                                /\ ~ First(s, n)
                                /\ HeadUpTo(s, n - 1)}

(* The Content-Length in force, the last one of the head that ends at n.   *)
Announced(s, n) ==
    LET lengths == {m \in Ends(s) : m < n /\ IsLength(Line(s, m))}
    IN  IF lengths = {} THEN 0 ELSE Number[Line(s, Max(lengths))[1]]

BodyOf(s, n) == SubSeq(s, n + 1, Len(s))

Verdict(s) ==
    IF HeadEnds(s) # {}
    THEN LET n == Min(HeadEnds(s))
             length == Announced(s, n)
         IN  CASE length = 0 -> "Success"
               [] length > 0 /\ Len(BodyOf(s, n)) = length -> "Success"
               [] length > 0 /\ Len(BodyOf(s, n)) > length -> "Error"
               [] length > 0 /\ Len(BodyOf(s, n)) < length -> "NeedMore"
    ELSE IF HeadUpTo(s, Len(s)) THEN "NeedMore" ELSE "Error"

Received == SubSeq(sent, 1, arrived)

(* However the bytes are cut into parts, the parser's answer after a part  *)
(* is the one the bytes received so far deserve: lines split over parts,   *)
(* several lines in a part and a body that begins in the part of the head  *)
(* make no difference.                                                     *)
VerdictFitsBytes == ~ parsing => result = Verdict(Received)

(* A method gets the announced number of bytes and they are those after    *)
(* the head, in one piece.                                                 *)
BodyIsExact ==
    result = "Success" =>
        LET n == Min(HeadEnds(Received))
        IN  m_data = SubSeq(Received, n + 1, n + Announced(Received, n))

=============================================================================
