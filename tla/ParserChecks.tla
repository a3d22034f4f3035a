---------------------------- MODULE ParserChecks ----------------------------
(***************************************************************************)
(* Every text of up to MaxLine characters, typed one character at a time,  *)
(* given to each parser and compared with a definition of what the text    *)
(* means that does not scan it.                                            *)
(***************************************************************************)
EXTENDS ParserReference

CONSTANTS
    Chars, MaxLine,     \* the texts: sequences over Chars up to this length
    CommandSize,        \* bytes of the verb buffer
    ArgumentSize,       \* bytes of the argument buffer
    OffsetMax,          \* 0x7fffffff, scaled down
    Fields, OctetMax,   \* 6 and 255, scaled down
    ARG_MAX             \* words of a command

ASSUME CheckAssumption ==
    /\ ARG_MAX \in Nat \ {0} /\ Fields \in Nat \ {0}
    /\ CommandSize \in Nat /\ ArgumentSize \in Nat
    /\ OffsetMax \in Nat /\ OctetMax \in Nat

\* The answer that refuses is none of those that accept.
ASSUME RejectAssumption ==
    /\ Reject \notin [command : Seq(Chars), arguments : Seq(Chars)]
    /\ Reject \notin Seq(Chars) \X (Seq(Chars) \cup {Reject})
    /\ Reject \notin [cursor : Nat, values : Seq(Nat)]

VARIABLE line

LineInit == line = <<>>
TypeChar == Len(line) < MaxLine /\ \E c \in Chars : line' = Append(line, c)
LineSpec == LineInit /\ [][TypeChar]_line

-----------------------------------------------------------------------------
\* A control line is blanks, a verb, blanks, an argument and the rest of the
\* buffer: parsing finds exactly that verb and that argument, at every size of
\* buffer and line, and refuses every other line.
ControlLineSplit ==
    LET parsed == ftpvita_parse_command_line(line, CommandSize)
        result == IF parsed = Reject THEN Reject
                  ELSE <<parsed.command,
                         ftpvita_copy_command_argument(parsed.arguments, ArgumentSize)>>
        meanings ==
          {w \in [1..4 -> 1..Len(line) + 1] :
             LET i == w[1]  j == w[2]  k == w[3]  m == w[4]
             IN /\ i < j /\ j <= k /\ k <= m /\ j - i < CommandSize
                /\ All(SubSeq(line, 1, i - 1), Blanks)
                /\ All(SubSeq(line, i, j - 1), Chars \ (Blanks \cup LineEnds))
                /\ All(SubSeq(line, j, k - 1), Blanks)
                /\ At(line, k) \notin Blanks /\ (j = k => At(line, k) \in LineEnds)
                /\ All(SubSeq(line, k, m - 1), Chars \ {"cr", "nl", "tab", Nul})
                /\ At(line, m) \in {"cr", "nl", "tab", Nul}}
    IN /\ result = Reject <=> meanings = {}
       /\ \A w \in meanings :
            result = <<SubSeq(line, w[1], w[2] - 1),
                       IF w[4] - w[3] \notin 1..ArgumentSize - 1 THEN Reject ELSE SubSeq(line, w[3], w[4] - 1)>>

\* REST takes exactly the decimal numbers up to 0x7fffffff, without ever
\* computing a larger one, and gives the number the digits denote.
RestIsDecimal ==
    LET body == Before(line, LineEnds)
        texts == {t \in [1..2 -> 1..Len(body) + 1] :
                    /\ t[1] < t[2]
                    /\ All(SubSeq(body, 1, t[1] - 1), Blanks)
                    /\ All(SubSeq(body, t[1], t[2] - 1), Digits)
                    /\ All(SubSeq(body, t[2], Len(body)), Blanks)}
        numbers == {NumberOf(SubSeq(body, t[1], t[2] - 1)) : t \in texts}
    IN ftpvita_parse_rest_offset(line, OffsetMax)
         = IF numbers # {} /\ Max(numbers) <= OffsetMax THEN Max(numbers) ELSE Reject

\* PORT takes exactly its number of fields, separated by single commas, each a
\* non-empty decimal number of at most one octet.
PortIsTuple ==
    LET body == Before(line, LineEnds)
        blank == Max({0} \cup {i \in DOMAIN body : body[i] \notin Blanks})
        parts == SplitAt(SubSeq(body, 1, blank), ",")
        legal == /\ Len(parts) = Fields
                 /\ \A k \in DOMAIN parts :
                      /\ parts[k] # <<>> /\ All(parts[k], Digits)
                      /\ NumberOf(parts[k]) <= OctetMax
    IN ftpvita_parse_port_tuple(line, Fields, OctetMax)
         = IF legal THEN [k \in DOMAIN parts |-> NumberOf(parts[k])] ELSE Reject

\* What a client sends on its control connection means what the parsers of
\* ftpvita_parse.h find in it: verb and argument, restart offset, port tuple.
ControlTextParsed == ControlLineSplit /\ RestIsDecimal /\ PortIsTuple

\* parse_cmd gives the words of the first line, or refuses when there are more
\* of them than arg_list holds; nothing behind the line counts.
CommandIsWords ==
    LET words == Words(Before(line, Terminals))
        parsed == parse_cmd(line, ARG_MAX)
    IN IF Len(words) > ARG_MAX THEN parsed.too_many
       ELSE ~parsed.too_many /\ parsed.args = words

\* An entry path is accepted exactly when it has no device or backslash and is
\* the plain spelling of a place below the staging directory: no component is
\* empty, . or .., but a directory may end in one slash.
SafePathStaysInside ==
    LET path == Before(line, {Nul})
        plain == IF path # <<>> /\ Last(path) = "/" THEN Front(path) ELSE path
    IN is_safe_archive_path(path) <=>
         /\ Range(path) \cap {":", "\\"} = {}
         /\ Place(path) # <<>> /\ Place(path) = SplitAt(plain, "/")
         /\ <<".", ".">> \notin Range(Place(path))
=============================================================================
