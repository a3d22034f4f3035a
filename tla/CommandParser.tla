--------------------------- MODULE CommandParser ---------------------------
(***************************************************************************)
(* parse_cmd: the command line of port 1338 split into its words           *)
(* (parser.c), character by character as the cursor passes them.           *)
(***************************************************************************)
EXTENDS Texts

Separators == {" ", "tab", "cr"}
Terminals == {"nl", Nul}

\* One character: args are the words so far, inside says that the last one is
\* still being read.
ScanStep(scan, c, arg_max) ==
    IF scan.ended THEN scan
    ELSE IF c \in Terminals THEN [scan EXCEPT !.ended = TRUE]
    ELSE IF c \in Separators THEN [scan EXCEPT !.inside = FALSE]
    ELSE IF scan.inside THEN [scan EXCEPT !.args[Len(scan.args)] = Append(@, c)]
    ELSE IF Len(scan.args) = arg_max THEN [scan EXCEPT !.ended = TRUE, !.too_many = TRUE]
    ELSE [scan EXCEPT !.args = Append(@, <<c>>), !.inside = TRUE]

ScanStart == [args |-> <<>>, inside |-> FALSE, ended |-> FALSE, too_many |-> FALSE]

Scanned(cmd, arg_max) ==
    LET Scan[n \in 0..Len(cmd)] ==
          IF n = 0 THEN ScanStart ELSE ScanStep(Scan[n - 1], cmd[n], arg_max)
    IN Scan[Len(cmd)]

parse_cmdMutant(cmd, arg_max) == [too_many |-> FALSE, args |-> Scanned(cmd, arg_max).args]
\* The words of the first line in arg_list; too_many stands for the return value
\* PARSE_CMD_TOO_MANY_ARGS.
parse_cmd(cmd, arg_max) ==
    LET scan == Scanned(cmd, arg_max)
    IN [too_many |-> scan.too_many, args |-> scan.args]
=============================================================================
