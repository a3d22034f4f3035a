------------------------------ MODULE Parsers ------------------------------
(***************************************************************************)
(* The parsers of the program, as functions of the characters they read:   *)
(* the FTP control line (ftpvita_parse.h) and the path check of the        *)
(* package installer, beside the command line of port 1338                 *)
(* (CommandParser).  Reading behind the end of a text gives the NUL that   *)
(* terminates it.  The sizes and limits the C code fixes are parameters.   *)
(***************************************************************************)
EXTENDS CommandParser

CONSTANT Reject     \* the answer of a parser that refuses its text

Blanks == {" ", "tab"}
LineEnds == {"cr", "nl", Nul}
Numerals == <<"0", "1", "2", "3", "4", "5", "6", "7", "8", "9">>
Digits == Range(Numerals)
DigitValue == [d \in Digits |-> CHOOSE n \in 0..9 : Numerals[n + 1] = d]

At(s, i) == IF i \in DOMAIN s THEN s[i] ELSE Nul

\* Where a cursor that starts at i and advances over the characters of set stops.
SpanEnd(s, i, set) ==
    CHOOSE j \in i..Len(s) + 1 : /\ At(s, j) \notin set
                                 /\ \A k \in i..j - 1 : s[k] \in set

\* Where a cursor that starts at i and looks for set or the end of the text stops.
UntilEnd(s, i, set) ==
    CHOOSE j \in i..Len(s) + 1 : /\ At(s, j) \in set \cup {Nul}
                                 /\ \A k \in i..j - 1 : s[k] \notin set \cup {Nul}

-----------------------------------------------------------------------------
(* The FTP control line. *)

WordEnds == Blanks \cup LineEnds

\* The verb, and the text its argument starts at.
ftpvita_parse_command_line(line, command_size) ==
    LET cursor == SpanEnd(line, 1, Blanks)
        stop == UntilEnd(line, cursor, WordEnds)
    IN IF stop = cursor \/ stop - cursor >= command_size
       THEN Reject
       ELSE [command |-> SubSeq(line, cursor, stop - 1),
             arguments |-> SubSeq(line, SpanEnd(line, stop, Blanks), Len(line))]

\* The argument of a command: up to the end of the line or a tab.
ftpvita_copy_command_argument(arguments, output_size) ==
    LET length == UntilEnd(arguments, 1, {"cr", "nl", "tab"}) - 1
    IN IF length = 0 \/ length >= output_size THEN Reject ELSE SubSeq(arguments, 1, length)

\* Both number parsers allow only blanks before the end of the line.
EndsLine(s, cursor) == At(s, SpanEnd(s, cursor, Blanks)) \in LineEnds

OverflowsMutant(value, digit, maximum) == value > maximum \div 10
\* The test before the multiplication: the next value would exceed maximum.
Overflows(value, digit, maximum) == value > (maximum - digit) \div 10

\* The number of the digits read: -1 once one is refused.
RestValue(digits, maximum) ==
    LET digit(v, c) == IF v = -1 \/ Overflows(v, DigitValue[c], maximum) THEN -1
                       ELSE v * 10 + DigitValue[c]
    IN FoldLeft(digit, 0, digits)

\* The offset of REST, at most maximum.
ftpvita_parse_rest_offset(arguments, maximum) ==
    LET cursor == SpanEnd(arguments, 1, Blanks)
        stop == SpanEnd(arguments, cursor, Digits)
        value == RestValue(SubSeq(arguments, cursor, stop - 1), maximum)
    IN IF stop = cursor \/ value = -1 \/ ~EndsLine(arguments, stop) THEN Reject ELSE value

FieldSeparators == {","}

\* The same with the test behind the multiplication.
OctetValue(digits, octet) ==
    LET digit(v, c) == IF v = -1 \/ v * 10 + DigitValue[c] > octet THEN -1
                       ELSE v * 10 + DigitValue[c]
    IN FoldLeft(digit, 0, digits)

\* The number at the cursor, and the comma behind each but the last.
ReadField(arguments, scan, last, octet) ==
    LET stop == SpanEnd(arguments, scan.cursor, Digits)
        value == OctetValue(SubSeq(arguments, scan.cursor, stop - 1), octet)
    IN IF \/ stop = scan.cursor \/ value = -1
          \/ ~last /\ At(arguments, stop) \notin FieldSeparators
       THEN Reject
       ELSE [cursor |-> IF last THEN stop ELSE stop + 1, values |-> Append(scan.values, value)]

\* The numbers of PORT.  Field[n] is the scan behind the n-th, or Reject.
ftpvita_parse_port_tuple(arguments, fields, octet) ==
    LET Field[index \in 0..fields] ==
          IF index = 0 THEN [cursor |-> 1, values |-> <<>>]
          ELSE IF Field[index - 1] = Reject THEN Reject
          ELSE ReadField(arguments, Field[index - 1], index = fields, octet)
    IN IF Field[fields] # Reject /\ EndsLine(arguments, Field[fields].cursor)
       THEN Field[fields].values ELSE Reject

-----------------------------------------------------------------------------
(* The path of an archive entry, a C string (no NUL inside). *)

NoNameMutant == {<<>>, <<".">>}
\* Components that do not lead down.
NoName == {<<>>, <<".">>, <<".", ".">>}

\* Where the loop over the components comes by: the start, and behind each slash
\* but one that ends the path.
ComponentStarts(path) == {1} \cup {i + 1 : i \in {j \in 1..Len(path) - 1 : path[j] = "/"}}

\* No component is refused; the loop returns at the first that is.
is_safe_archive_path(path) ==
    /\ path # <<>> /\ path[1] # "/"
    /\ Range(path) \cap {":", "\\"} = {}
    /\ \A i \in ComponentStarts(path) :
         SubSeq(path, i, UntilEnd(path, i, {"/"}) - 1) \notin NoName
=============================================================================
