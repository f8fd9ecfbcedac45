------------------------------ MODULE HttpAnswer ------------------------------
(***************************************************************************)
(* What html_answer of src/apps/Run_unix_srv.c makes of the bytes of one   *)
(* recv: it scans for the end of the headers, takes them apart line by     *)
(* line (http_str_to_headers of src/unix/http.c) and lists them on a page. *)
(*                                                                         *)
(* A request is its text from the end of the request line on, which is the *)
(* CR at index 0, and how much of it the one recv got: TCP is free to      *)
(* deliver a request in pieces.  With nothing received of this text the    *)
(* recv got a piece of the request line, and index 0 of the buffer is the  *)
(* NUL behind it.  The request line is left out but for the character at   *)
(* index 5 of in_buf, which tells `GET / ' from other paths; if it did not *)
(* arrive it is whatever was on the stack.                                 *)
(***************************************************************************)
EXTENDS HttpHeaders

CONSTANTS
    MaxHeaders,  \* HEADER_BUFFER_SIZE, the length of header_buffer
    BufferSize,  \* BUFFER_SIZE, the length of in_buf and of out_buf
    FrameSize,   \* what out_buf holds of an empty page, with the final NUL
    TagsSize,    \* "<li>" and "</li>"
    Requests,    \* [text, size, received, root]
    Leftovers    \* what the stack holds behind the received bytes

(* A client sends lines that end in CR LF, the last one empty, and the CR  *)
(* only there: CR LF CR LF is the end of the request.                      *)
Proper(r) ==
    /\ r.size \in Nat /\ r.size >= 4 /\ r.received \in 0..r.size
    /\ r.text[0] = CR
    /\ \A i \in 0..(r.size - 1) : r.text[i] # NUL
    /\ \A i \in 0..(r.size - 1) : r.text[i] = CR => i + 1 < r.size /\ r.text[i + 1] = LF
    /\ \A i \in 0..(r.size - 4) : r.text[i] = CR /\ r.text[i + 2] = CR <=> i = r.size - 4

ASSUME RequestsAssumption == \A r \in Requests : Proper(r)

(* As much of the stack as the scans need to come to an end.               *)
ASSUME LeftoversAssumption ==
    \A l \in Leftovers : l \in Seq(STRING) /\ Len(l) >= 4 /\ l[Len(l)] # Space

ASSUME MaxHeadersAssumption == MaxHeaders \in Nat

ASSUME SizesAssumption == BufferSize \in Nat /\ FrameSize \in Nat /\ TagsSize \in Nat

VARIABLES
    phase,
    request,       \* the request that is being answered
    buf,           \* in_buf from the end of the request line on
    bytes_read,    \* counted from the same place
    header_end,    \* header_end of html_answer
    line_start,    \* header_start of http_str_to_headers
    line_end,      \* header_end of http_str_to_headers
    headers,       \* header_buffer, as far as it is filled
    page           \* the items of the page

answerVars == <<phase, request, buf, bytes_read, header_end, line_start, line_end, headers, page>>

------------------------------------------------------------------------------
(* in_buf and what follows it after the recv.                              *)
Stack(r, leftover) ==
    [i \in 0..(r.received + Len(leftover)) |->
        IF i < r.received THEN r.text[i]
        ELSE IF i = r.received THEN NUL
        ELSE leftover[i - r.received]]

(* Lines 50 and 51: the scan for the end of the request line knows nothing *)
(* of bytes_read.                                                          *)
LineEnds(b) == {i \in DOMAIN b : b[i] = CR}
HeaderStart(b) == Min(LineEnds(b)) + 2

(* recv, the NUL behind what it got, the test of the path and the scan for *)
(* the end of the request line.  Without a CR on all of the stack the scan *)
(* is out of bounds.                                                       *)
Receive(r, leftover) ==
    /\ phase = "recv"
    /\ buf' = Stack(r, leftover)
    /\ bytes_read' = r.received
    /\ request' = r
    /\ phase' = IF ~r.root THEN "not_found"
                ELSE IF LineEnds(buf') = {} THEN "overrun" ELSE "scan"
    /\ header_end' = IF phase' = "scan" THEN HeaderStart(buf') ELSE 0
    /\ headers' = <<>>
    /\ page' = <<>>
    /\ line_start' = 0
    /\ line_end' = 0

SendNotFound ==
    /\ phase = "not_found"
    /\ phase' = "sent"
    /\ UNCHANGED <<request, buf, bytes_read, header_end, line_start, line_end, headers, page>>

(* Faulty variant: the scan takes up again where it stopped.               *)
ScanLineStays ==
    /\ phase = "scan"
    /\ header_end < bytes_read
    /\ LET end == LineEnd(buf, header_end, bytes_read)
           found == <<buf[end + 1], buf[end + 2], buf[end + 3]>> = <<LF, CR, LF>>
       IN  /\ header_end' = end
           /\ phase' = IF found THEN "split" ELSE "scan"
    /\ UNCHANGED <<request, buf, bytes_read, line_start, line_end, headers, page>>

(* Lines 55-68, one line of the request: its end is the end of the headers *)
(* if an empty line follows.                                               *)
ScanLine ==
    /\ phase = "scan"
    /\ header_end < bytes_read
    /\ LET end == LineEnd(buf, header_end, bytes_read)
           found == <<buf[end + 1], buf[end + 2], buf[end + 3]>> = <<LF, CR, LF>>
       IN  /\ header_end' = IF found THEN end ELSE end + 2
           /\ phase' = IF found THEN "split" ELSE "scan"
    /\ UNCHANGED <<request, buf, bytes_read, line_start, line_end, headers, page>>

ScanEnds ==
    /\ phase = "scan"
    /\ header_end >= bytes_read
    /\ phase' = "split"
    /\ UNCHANGED <<request, buf, bytes_read, header_end, line_start, line_end, headers, page>>

(* http_str_to_headers is called and looks for the end of the first line.  *)
Split ==
    /\ phase = "split"
    /\ line_start' = HeaderStart(buf)
    /\ line_end' = LineEnd(buf, HeaderStart(buf), header_end)
    /\ phase' = "lines"
    /\ UNCHANGED <<request, buf, bytes_read, header_end, headers, page>>

(* Faulty variant: the array of headers may run over.                      *)
MoreLinesUnbounded == line_start < header_end

MoreLines == line_start < header_end /\ Len(headers) < MaxHeaders

(* Faulty variant: the next line is taken to follow a single character.    *)
ParseLineSkipsOne ==
    /\ phase = "lines"
    /\ MoreLines
    /\ LET parsed == HeaderAt(buf, line_start, line_end - line_start)
       IN  /\ phase' = IF parsed.status = "fault" THEN "fault" ELSE "lines"
           /\ headers' = IF parsed.status = "parsed" THEN Append(headers, parsed.header)
                                                     ELSE headers
    /\ line_start' = line_end + 1
    /\ line_end' = LineEnd(buf, line_end + 1, header_end + 1)
    /\ UNCHANGED <<request, buf, bytes_read, header_end, page>>

(* One round of the loop of http_str_to_headers.  The scan for the end of  *)
(* the following line goes one character further than the first one did.   *)
ParseLine ==
    /\ phase = "lines"
    /\ MoreLines
    /\ LET parsed == HeaderAt(buf, line_start, line_end - line_start)
       IN  /\ phase' = IF parsed.status = "fault" THEN "fault" ELSE "lines"
           /\ headers' = IF parsed.status = "parsed" THEN Append(headers, parsed.header)
                                                     ELSE headers
    /\ line_start' = line_end + 2
    /\ line_end' = LineEnd(buf, line_end + 2, header_end + 1)
    /\ UNCHANGED <<request, buf, bytes_read, header_end, page>>

(* What strncat puts into out_buf: the page with its items.                *)
PageSize ==
    FrameSize + MapThenSumSet(LAMBDA i : TagsSize + Len(HeaderToStr(headers[i])), DOMAIN headers)

(* strncat has no bound but the length of what it appends: more headers    *)
(* than the buffers have room for are written past their end.              *)
PageOverflows ==
    /\ phase = "lines"
    /\ ~MoreLines
    /\ PageSize > BufferSize
    /\ phase' = "overflow"
    /\ UNCHANGED <<request, buf, bytes_read, header_end, line_start, line_end, headers, page>>

(* The page lists the headers in order and is sent.                        *)
SendPage ==
    /\ phase = "lines"
    /\ ~MoreLines
    /\ PageSize <= BufferSize
    /\ page' = [i \in DOMAIN headers |-> HeaderToStr(headers[i])]
    /\ phase' = "sent"
    /\ UNCHANGED <<request, buf, bytes_read, header_end, line_start, line_end, headers>>

------------------------------------------------------------------------------
AnswerInit ==
    /\ phase = "recv"
    /\ request = [text |-> <<>>, size |-> 0, received |-> 0, root |-> FALSE]
    /\ buf = [i \in 0..0 |-> NUL]
    /\ bytes_read = 0
    /\ header_end = 0
    /\ line_start = 0
    /\ line_end = 0
    /\ headers = <<>>
    /\ page = <<>>

AnswerStep == SendNotFound \/ ScanLine \/ ScanEnds \/ Split \/ ParseLine \/ SendPage \/ PageOverflows

AnswerNext ==
    \/ \E r \in Requests, leftover \in Leftovers : Receive(r, leftover)
    \/ AnswerStep

(* The thread goes on with the request it has begun.                       *)
AnswerSpec == AnswerInit /\ [][AnswerNext]_answerVars /\ WF_answerVars(AnswerStep)

------------------------------------------------------------------------------
(* The places and the ranges of the indices.  If the end of the request    *)
(* line was received, no scan stops more than three characters behind what *)
(* was.  If not, the scan of line 50 goes on to the next CR on the stack,  *)
(* however far that is, and no later scan goes any further.                *)
AnswerTypeOK ==
    /\ phase \in {"recv", "not_found", "scan", "split", "lines",
                  "fault", "overrun", "overflow", "sent"}
    /\ IF request.received > 0
       THEN /\ header_end \in 0..(bytes_read + 2)
            /\ line_start \in 0..(bytes_read + 5)
            /\ line_end \in 0..(bytes_read + 5)
       ELSE /\ header_end # 0 => header_end = HeaderStart(buf)
            /\ {line_start, line_end} \subseteq {0, header_end}
    /\ Len(headers) <= MaxHeaders
    /\ \A i \in DOMAIN headers : Fits(headers[i])

(* The lines that arrived, whole or not, by the index of their first       *)
(* character; where such a line ends; those that arrived with their CR LF. *)
LineStarts ==
    {i \in 2..(bytes_read - 1) : buf[i - 2] = CR /\ buf[i - 1] = LF /\ buf[i] # CR}
LastOf(i) == Min({bytes_read} \cup {j \in i..(bytes_read - 1) : buf[j] = CR}) - 1
Whole(i) == LastOf(i) + 2 < bytes_read

(* The lines that belong on the page, and how many of them come before i.  *)
Said(i) == Meant(buf, i, LastOf(i))
Shown == {i \in LineStarts : Whole(i) /\ Colons(buf, i, LastOf(i)) # {} /\ Fits(Said(i))}
Below(i) == Cardinality({k \in Shown : k < i})

(* The page shows what the client sent: every line that arrived whole and  *)
(* fits, trimmed, in order, as far as header_buffer reaches, and at most   *)
(* one more item, for a line that was cut off by the end of the recv.      *)
PageShowsRequest ==
    phase = "sent" /\ request.root =>
        /\ \A i \in Shown : Below(i) < MaxHeaders =>
              Below(i) < Len(page) /\ page[Below(i) + 1] = HeaderToStr(Said(i))
        /\ Len(page) <= Cardinality(Shown) + (IF request.received < request.size - 2 THEN 1 ELSE 0)

(* http_str_to_header ends the process only over a line, or the part of it *)
(* that arrived, without a colon or with nothing but spaces on one side of *)
(* it, or over the empty line: when it is the only line, or its LF is      *)
(* missing.                                                                *)
FaultsOnlyOnIrregular ==
    phase = "fault" =>
        \/ request.size = 4
        \/ request.received = request.size - 1
        \/ \E i \in LineStarts : ~Regular(buf, i, LastOf(i))

(* What the page shows reads back as what the client said: the two         *)
(* conversions are inverse to each other on every header with a value that *)
(* arrived whole.  (A header that was cut off may keep a trailing space.)  *)
ReadsBack ==
    phase = "sent" /\ request.root => \A i \in Shown :
        Below(i) < MaxHeaders /\ Said(i).value # <<>> =>
            LET text == <<">">> \o page[Below(i) + 1] \o <<NUL>>
                line == [j \in 0..(Len(text) - 1) |-> text[j + 1]]
            IN  HeaderAt(line, 1, Len(text) - 2) = [status |-> "parsed", header |-> Said(i)]

(* The scan for the end of the headers and the loop over the lines come to *)
(* an end: the request is answered, http_str_to_header ends the process, or*)
(* the page has outgrown its buffer.                                       *)
Answered == phase = "scan" ~> phase \in {"sent", "fault", "overflow"}
==============================================================================
