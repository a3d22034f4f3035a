-------------------------- MODULE FtpSessionProofs --------------------------
(***************************************************************************)
(* The client's descriptors and restart point, for every set of            *)
(* descriptors, every width of unsigned int and every length of the file;  *)
(* and its current directory and paths, for every argument and PATH_MAX.   *)
(***************************************************************************)
EXTENDS FtpSession, FtpNavigation, SequenceLemmas

USE DEF None

LEMMA RestMax == REST_MAX \in Nat /\ REST_MAX <= UINT_MAX /\ 0 \in 0..REST_MAX
  BY SessionAssumption DEF REST_MAX

-----------------------------------------------------------------------------
(* Types. *)

\* The parts of TypeOK about sockets, and about everything else.
SocketType ==
    /\ ctrl_sockfd \in Fds \cup {None} /\ data_sockfd \in Fds \cup {None}
    /\ pasv_sockfd \in Fds \cup {None}
    /\ data_con_type \in {"none", "active", "passive"}
    /\ open \subseteq Fds

FileType ==
    /\ restore_point \in 0..REST_MAX \cup {UINT_MAX}
    /\ flen \in {None} \cup 0..MaxLen
    /\ streaming \in Transfers
    /\ asked \in 0..REST_MAX /\ refused \in BOOLEAN
    /\ last \in [cmd : Transfers, start : 0..UINT_MAX \cup 0..MaxLen,
                 asked : 0..REST_MAX, refused : BOOLEAN]

LEMMA TypeParts == TypeOK <=> SocketType /\ FileType
  BY DEF TypeOK, SocketType, FileType

\* No two fields share a descriptor.
Distinct ==
    /\ data_sockfd # None => data_sockfd # ctrl_sockfd
    /\ pasv_sockfd # None => pasv_sockfd # ctrl_sockfd /\ pasv_sockfd # data_sockfd

\* The fields and the kernel agree, and so do the fields among themselves.
SocketInv ==
    /\ SocketType
    /\ open = {ctrl_sockfd, data_sockfd, pasv_sockfd} \ {None}
    /\ Distinct
    /\ data_con_type # "none" <=> data_sockfd # None
    /\ pasv_sockfd # None => data_con_type = "passive" /\ streaming # "none"
    /\ data_sockfd # None \/ streaming # "none" => ctrl_sockfd # None

-----------------------------------------------------------------------------
(* What the building blocks of the commands do to the sockets. *)

LEMMA CloseDataInv ==
    ASSUME SocketInv, CloseData, streaming' \in {streaming, "none"} PROVE SocketInv'
  BY SessionAssumption DEF SocketInv, SocketType, Distinct, CloseData, AfterClose

LEMMA OpenDataInv ==
    ASSUME SocketInv, Ready, OpenData, streaming' # "none" PROVE SocketInv'
<1>1. ctrl_sockfd' = ctrl_sockfd /\ data_sockfd' = data_sockfd
      /\ data_con_type' = data_con_type /\ data_con_type # "none" /\ pasv_sockfd = None
  BY DEF OpenData, SocketInv, Ready
<1>2. CASE UNCHANGED <<pasv_sockfd, open>>
  BY <1>1, <1>2 DEF SocketInv, SocketType, Distinct, Ready
<1>3. CASE /\ data_con_type = "passive"
           /\ \E fd \in Fds \ open : pasv_sockfd' = fd /\ open' = open \cup {fd}
  BY <1>1, <1>3, SessionAssumption DEF SocketInv, SocketType, Distinct, Ready
<1> QED
  BY <1>2, <1>3 DEF OpenData

\* Nothing about sockets changes.
LEMMA SocketFrame ==
    ASSUME SocketInv, UNCHANGED <<sockets, streaming>> PROVE SocketInv'
  BY DEF SocketInv, SocketType, Distinct, sockets

LEMMA SetupInv == ASSUME SocketInv, NEW type \in {"active", "passive"}, Setup(type)
                  PROVE SocketInv'
<1>1. CASE CloseData
  BY <1>1, CloseDataInv DEF Setup
<1>2. CASE \E fd \in Fds \ AfterClose :
             /\ data_sockfd' = fd /\ open' = AfterClose \cup {fd}
             /\ data_con_type' = type /\ pasv_sockfd' = None
             /\ UNCHANGED ctrl_sockfd
  <2>1. ctrl_sockfd # None /\ streaming = "none" /\ streaming' = streaming
    BY DEF Setup, Ready
  <2>2. AfterClose = {ctrl_sockfd}
    BY <2>1 DEF AfterClose, SocketInv, SocketType, Distinct
  <2> QED
    BY <1>2, <2>1, <2>2, SessionAssumption DEF SocketInv, SocketType, Distinct
<1> QED
  BY <1>1, <1>2 DEF Setup

LEMMA ReceiveFileInv == ASSUME SocketInv, NEW cmd \in {"STOR", "APPE"}, NEW rp, ReceiveFile(cmd, rp)
                        PROVE SocketInv'
<1>1. CASE StoreRefused(rp)
  BY <1>1, CloseDataInv DEF StoreRefused
<1>2. CASE StoreNoData(cmd, rp)
  BY <1>2, CloseDataInv DEF StoreNoData
<1>3. CASE StoreStarts(cmd, rp)
  BY <1>3, OpenDataInv DEF StoreStarts, ReceiveFile
<1> QED
  BY <1>1, <1>2, <1>3 DEF ReceiveFile

\* Every step keeps the fields and the kernel in agreement.
LEMMA SocketStep == SocketInv /\ [Next]_vars => SocketInv'
<1> SUFFICES ASSUME SocketInv, [Next]_vars PROVE SocketInv'
    OBVIOUS
<1>1. CASE Connect
  BY <1>1, SessionAssumption DEF Connect, SocketInv, SocketType, Distinct
<1>2. CASE Disconnect
  BY <1>2, SessionAssumption DEF Disconnect, Ready, AfterClose, SocketInv, SocketType, Distinct
<1>3. CASE PASV \/ PORT
  BY <1>3, SetupInv DEF PASV, PORT
<1>4. CASE REST
  BY <1>4, SocketFrame DEF REST
<1>5. CASE LIST
  <2>1. CASE CloseData /\ UNCHANGED streaming
    BY <2>1, CloseDataInv
  <2>2. CASE OpenData /\ streaming' = "LIST"
    BY <1>5, <2>2, OpenDataInv DEF LIST
  <2> QED
    BY <1>5, <2>1, <2>2 DEF LIST
<1>6. CASE RetrFails
  BY <1>6, CloseDataInv DEF RetrFails
<1>7. CASE RetrStarts
  BY <1>7, OpenDataInv DEF RetrStarts
<1>8. CASE STOR \/ APPE
  BY <1>8, ReceiveFileInv DEF STOR, APPE
<1>9. CASE Write
  BY <1>9, SocketFrame DEF Write
<1>10. CASE EndTransfer
  BY <1>10, CloseDataInv DEF EndTransfer
<1>11. CASE FileChanges
  BY <1>11, SocketFrame DEF FileChanges
<1>12. CASE UNCHANGED vars
  BY <1>12, SocketFrame DEF vars, sockets
<1> QED
  BY <1>1, <1>2, <1>3, <1>4, <1>5, <1>6, <1>7, <1>8, <1>9, <1>10, <1>11, <1>12 DEF Next

-----------------------------------------------------------------------------
(* The file and the restart point. *)

\* Without an upload that came back early, the restart point is the offset that
\* was asked for; an upload in progress leaves none behind.
RestInv ==
    /\ ~refused /\ streaming \notin {"STOR", "APPE"} => restore_point = asked
    /\ streaming \in {"STOR", "APPE"} => asked = 0 /\ ~refused

FileInv == FileType /\ RestInv /\ RetrUsesItsRest

LEMMA OpenFileType ==
    ASSUME FileType, NEW cmd \in {"STOR", "APPE"}, NEW rp, OpenFile(cmd, rp)
    PROVE /\ flen' \in {None} \cup 0..MaxLen /\ last'.cmd = cmd
          /\ last' \in [cmd : Transfers, start : 0..UINT_MAX \cup 0..MaxLen,
                        asked : 0..REST_MAX, refused : BOOLEAN]
  BY SessionAssumption, RestMax DEF FileType, OpenFile, Transfers

LEMMA ReceiveFileFile ==
    ASSUME FileInv, NEW cmd \in {"STOR", "APPE"}, NEW rp \in 0..REST_MAX \cup {UINT_MAX},
           ReceiveFile(cmd, rp)
    PROVE FileInv'
<1> USE SessionAssumption, RestMax
<1>1. CASE StoreRefused(rp)
  <2>1. FileType' /\ RestInv'
    BY <1>1 DEF StoreRefused, FileInv, FileType, RestInv, ReceiveFile, Ready
  <2> QED
    BY <1>1, <2>1 DEF StoreRefused, FileInv, RetrUsesItsRest
<1>2. CASE StoreNoData(cmd, rp)
  <2>1. OpenFile(cmd, rp) /\ restore_point' = rp /\ asked' = 0 /\ refused' = TRUE
        /\ streaming' = "none"
    BY <1>2 DEF StoreNoData, ReceiveFile, Ready
  <2>2. FileType' /\ RestInv' /\ last'.cmd = cmd
    BY <2>1, OpenFileType DEF FileInv, FileType, RestInv, Transfers
  <2> QED
    BY <2>2 DEF FileInv, RetrUsesItsRest
<1>3. CASE StoreStarts(cmd, rp)
  <2>1. OpenFile(cmd, rp) /\ restore_point' = rp /\ asked' = 0 /\ refused' = FALSE
        /\ streaming' = cmd
    BY <1>3 DEF StoreStarts
  <2>2. FileType' /\ RestInv' /\ last'.cmd = cmd
    BY <2>1, OpenFileType DEF FileInv, FileType, RestInv, Transfers
  <2> QED
    BY <2>2 DEF FileInv, RetrUsesItsRest
<1> QED
  BY <1>1, <1>2, <1>3 DEF ReceiveFile

\* Nothing about the file, the restart point and their history changes.
LEMMA FileFrame ==
    ASSUME FileInv, UNCHANGED <<restore_point, flen, streaming, history>> PROVE FileInv'
  BY DEF FileInv, FileType, RestInv, RetrUsesItsRest, history

\* Every step keeps the restart point and the record of the last transfer right.
LEMMA FileStep == FileInv /\ [Next]_vars => FileInv'
<1> SUFFICES ASSUME FileInv, [Next]_vars PROVE FileInv'
    OBVIOUS
<1> USE SessionAssumption, RestMax
<1>1. CASE Connect
  <2>1. /\ restore_point' = 0 /\ asked' = 0 /\ refused' = FALSE /\ last' = NoTransfer
        /\ flen' = flen /\ streaming' = streaming
    BY <1>1 DEF Connect
  <2>2. NoTransfer \in [cmd : Transfers, start : 0..UINT_MAX \cup 0..MaxLen,
                        asked : 0..REST_MAX, refused : BOOLEAN]
    BY DEF NoTransfer, Transfers
  <2>3. FileType' /\ RestInv'
    BY <2>1, <2>2 DEF FileInv, FileType, RestInv
  <2> QED
    BY <2>1, <2>3 DEF NoTransfer, FileInv, RetrUsesItsRest
<1>2. CASE Disconnect \/ PASV \/ PORT
  BY <1>2, FileFrame DEF Disconnect, PASV, PORT, Setup
<1>4. CASE REST
  BY <1>4 DEF REST, ParsedOffsets, Ready, FileInv, FileType, RestInv, RetrUsesItsRest
<1>5. CASE LIST
  <2>1. streaming = "none" /\ streaming' \in {"none", "LIST"}
        /\ UNCHANGED <<restore_point, flen, asked, refused, last>>
    BY <1>5 DEF LIST, Ready, history
  <2> QED
    BY <2>1 DEF FileInv, FileType, RestInv, RetrUsesItsRest, Transfers
<1>6. CASE RetrFails
  <2>1. restore_point' = 0 /\ asked' = 0 /\ refused' = FALSE /\ streaming = "none"
        /\ UNCHANGED <<flen, streaming, last>>
    BY <1>6 DEF RetrFails, TakeRest, Ready
  <2> QED
    BY <2>1 DEF FileInv, FileType, RestInv, RetrUsesItsRest
<1>7. CASE RetrStarts
  <2>1. /\ streaming = "none" /\ flen # None /\ restore_point <= flen
        /\ streaming' = "RETR" /\ restore_point' = 0 /\ asked' = 0 /\ refused' = FALSE
        /\ flen' = flen
        /\ last' = [cmd |-> "RETR", start |-> restore_point, asked |-> asked,
                    refused |-> refused]
    BY <1>7 DEF RetrStarts, Ready, SeekOk, TakeRest
  <2>2. FileType' /\ RestInv'
    <3>1. flen \in 0..MaxLen /\ restore_point \in 0..MaxLen
      BY <2>1 DEF FileInv, FileType
    <3>2. last' \in [cmd : Transfers, start : 0..UINT_MAX \cup 0..MaxLen,
                     asked : 0..REST_MAX, refused : BOOLEAN]
      BY <2>1, <3>1 DEF FileInv, FileType, Transfers
    <3> QED
      BY <2>1, <3>1, <3>2 DEF FileType, RestInv, Transfers
  <2>3. RetrUsesItsRest'
    BY <2>1 DEF FileInv, FileType, RestInv, RetrUsesItsRest
  <2> QED
    BY <2>2, <2>3 DEF FileInv
<1>8. CASE STOR \/ APPE
  BY <1>8, ReceiveFileFile DEF STOR, APPE, FileInv, FileType
<1>9. CASE Write
  BY <1>9 DEF Write, history, FileInv, FileType, RestInv, RetrUsesItsRest
<1>10. CASE EndTransfer
  BY <1>10 DEF EndTransfer, history, FileInv, FileType, RestInv, RetrUsesItsRest, Transfers
<1>11. CASE FileChanges
  BY <1>11 DEF FileChanges, history, FileInv, FileType, RestInv, RetrUsesItsRest
<1>12. CASE UNCHANGED vars
  BY <1>12, FileFrame DEF vars, history
<1> QED
  BY <1>1, <1>2, <1>4, <1>5, <1>6, <1>7, <1>8, <1>9, <1>10, <1>11, <1>12 DEF Next

-----------------------------------------------------------------------------
\* A function that numbers the fields in use is a bijection onto their
\* descriptors, so that there are as many of one as of the other.
LEMMA FieldsCounted ==
    ASSUME NEW c, NEW d, NEW p,
           d # None => d # c, p # None => p # c /\ p # d
    PROVE Cardinality({c, d, p} \ {None}) = Cardinality({f \in {1, 2, 3} : <<c, d, p>>[f] # None})
<1> DEFINE F == {f \in {1, 2, 3} : <<c, d, p>>[f] # None}
           fields == [f \in F |-> <<c, d, p>>[f]]
<1>1. IsFiniteSet(F)
  BY FS_Interval, FS_Subset, F \subseteq 1..3
<1>2. fields \in Bijection(F, {c, d, p} \ {None})
  <2>1. <<c, d, p>>[1] = c /\ <<c, d, p>>[2] = d /\ <<c, d, p>>[3] = p
    OBVIOUS
  <2>2. fields \in [F -> {c, d, p} \ {None}]
    BY <2>1
  <2>3. \A f, g \in F : fields[f] = fields[g] => f = g
    BY <2>1
  <2>4. \A x \in {c, d, p} \ {None} : \E f \in F : fields[f] = x
    BY <2>1
  <2> QED
    BY <2>2, <2>3, <2>4 DEF Bijection, Injection, Surjection, IsInjective
<1> QED
  BY <1>1, <1>2, FS_Bijection DEF ExistsBijection

\* The invariant behind the theorems below holds in every state of a session.
THEOREM SessionInvariance == Spec => [](SocketInv /\ FileInv)
<1>1. Init => SocketInv /\ FileInv
  <2> SUFFICES ASSUME Init PROVE SocketInv /\ FileInv
      OBVIOUS
  <2>1. SocketInv
    BY DEF Init, SocketInv, SocketType, Distinct
  <2>2. NoTransfer \in [cmd : Transfers, start : 0..UINT_MAX \cup 0..MaxLen,
                        asked : 0..REST_MAX, refused : BOOLEAN]
    BY SessionAssumption, RestMax DEF NoTransfer, Transfers
  <2>3. FileType /\ RestInv
    BY <2>2, RestMax DEF Init, FileType, RestInv, Transfers
  <2>4. RetrUsesItsRest
    BY DEF Init, NoTransfer, RetrUsesItsRest
  <2> QED
    BY <2>1, <2>3, <2>4 DEF FileInv
<1> QED
  BY <1>1, SocketStep, FileStep, PTL DEF Spec

\* Descriptors, lengths and restart points stay in their ranges.
THEOREM TypeCorrect == Spec => []TypeOK
<1>1. SocketInv /\ FileInv => TypeOK
  BY TypeParts DEF SocketInv, FileInv
<1> QED
  BY <1>1, SessionInvariance, PTL

\* No sequence of commands, refusals and disconnects leaks a socket or lets two
\* fields share one, however many descriptors there are.
THEOREM SocketsAccounted == Spec => []NoSocketLeak
<1>1. SocketInv => NoSocketLeak
  BY FieldsCounted DEF SocketInv, Distinct, NoSocketLeak
<1> QED
  BY <1>1, SessionInvariance, PTL

\* A download starts where its own REST said.
THEOREM DownloadUsesItsRest == Spec => []RetrUsesItsRest
<1>1. FileInv => RetrUsesItsRest
  BY DEF FileInv
<1> QED
  BY <1>1, SessionInvariance, PTL

-----------------------------------------------------------------------------
(* The client's paths, for every set of arguments and every PATH_MAX. *)

\* Texts of a path.  (That "/" is a string is nothing the provers know.)
Characters == STRING \cup {"/"}
PathTexts == Seq(Characters)

\* cur_path is a text that starts with a slash and has another one unless it is /.
PathForm ==
    /\ cur_path \in PathTexts /\ Len(cur_path) \in 1..PATH_MAX - 1
    /\ cur_path[1] = "/"
    /\ cur_path = Root \/ \E i \in 2..Len(cur_path) : cur_path[i] = "/"

\* Where the client can know its directory, cur_path spells it.
PathSpelled == track = "exact" => Names(cur_path) = cwd

\* The file of a rename is still the one that RNFR named.
RenameKept ==
    /\ rename_path \in PathTexts
    /\ source.sure => Names(rename_path) = source.names

NavInv == PathForm /\ PathSpelled /\ RenameKept /\ FileCommandTarget

\* What comes behind a slash brings its own components.
LEMMA NamesBehindSlash ==
    ASSUME NEW a \in PathTexts, NEW b \in PathTexts, a = <<>> \/ Last(a) = "/"
    PROVE  Names(a \o b) = Names(a) \o Names(b)
<1>1. ~InToken(a, {"/"}, Len(a))
  <2>1. CASE a = <<>>
    BY <2>1 DEF InToken
  <2>2. CASE Last(a) = "/"
    BY <2>2 DEF InToken, Last
  <2> QED
    BY <2>1, <2>2
<1> QED
  BY <1>1, TokensConcat DEF Names, PathTexts

\* A slash at the end changes no component.
LEMMA NamesSlash ==
    ASSUME NEW a \in PathTexts
    PROVE  /\ a \o <<"/">> \in PathTexts /\ Names(a \o <<"/">>) = Names(a)
           /\ Len(a \o <<"/">>) = Len(a) + 1 /\ (a \o <<"/">>)[Len(a) + 1] = "/"
           /\ \A i \in 1..Len(a) : (a \o <<"/">>)[i] = a[i]
<1>1. Append(a, "/") = a \o <<"/">>
  BY AppendIsConcat DEF PathTexts, Characters
<1>2. "/" \in {"/"} /\ "/" \in Characters
  BY DEF Characters
<1>3. Tokens(Append(a, "/"), {"/"}) = Tokens(a, {"/"})
  BY <1>2, TokensAppend DEF PathTexts
<1>4. /\ Append(a, "/") \in PathTexts
      /\ Len(Append(a, "/")) = Len(a) + 1 /\ Append(a, "/")[Len(a) + 1] = "/"
      /\ \A i \in 1..Len(a) : Append(a, "/")[i] = a[i]
  BY <1>2, AppendProperties DEF PathTexts
<1> QED
  BY <1>1, <1>3, <1>4 DEF Names

\* The components of two texts joined with a slash.
LEMMA NamesJoined ==
    ASSUME NEW a \in PathTexts, NEW b \in PathTexts
    PROVE  Names(a \o <<"/">> \o b) = Names(a) \o Names(b)
<1> DEFINE d == a \o <<"/">>
<1>1. d \in PathTexts /\ Names(d) = Names(a) /\ Len(d) = Len(a) + 1 /\ d[Len(a) + 1] = "/"
  BY NamesSlash
<1>2. Last(d) = "/"
  BY <1>1 DEF Last
<1> HIDE DEF d
<1>3. Names(d \o b) = Names(d) \o Names(b)
  BY <1>1, <1>2, NamesBehindSlash
<1> QED
  BY <1>1, <1>3 DEF d

\* Components are texts; there are none in an empty text.
LEMMA NamesType ==
    ASSUME NEW a \in PathTexts
    PROVE  Names(a) \in Seq(PathTexts) /\ Names(<<>>) = <<>> /\ Names(<<"/">>) = <<>>
<1>1. Names(a) \in Seq(PathTexts)
  BY TokensType DEF Names, PathTexts
<1>2. Names(<<>>) = <<>>
  <2>1. <<>> \in PathTexts /\ \A i \in 1..Len(<<>>) : <<>>[i] \notin {"/"}
    BY DEF PathTexts
  <2> QED
    BY <2>1, TokensAlone DEF Names, PathTexts
<1>3. <<>> \o <<"/">> = <<"/">> /\ <<>> \in PathTexts
  BY DEF PathTexts
<1>4. Names(<<>> \o <<"/">>) = Names(<<>>)
  BY <1>3, NamesSlash
<1> QED
  BY <1>1, <1>2, <1>3, <1>4

\* get_vita_path leaves the components as they are.
LEMMA NamesTail ==
    ASSUME NEW a \in PathTexts, a # <<>>, a[1] = "/"
    PROVE  Tail(a) \in PathTexts /\ Names(Tail(a)) = Names(a)
<1>1. /\ Tail(a) \in PathTexts /\ Len(Tail(a)) = Len(a) - 1 /\ Len(a) \in Nat
      /\ \A i \in 1..Len(Tail(a)) : Tail(a)[i] = a[i + 1]
  BY HeadTailProperties, LenProperties DEF PathTexts
<1>2. <<"/">> \in PathTexts /\ Last(<<"/">>) = "/"
  BY DEF PathTexts, Characters, Last
<1> DEFINE r == Tail(a)
<1> HIDE DEF r
<1>3. /\ <<"/">> \o r \in PathTexts /\ Len(<<"/">> \o r) = Len(a)
      /\ \A i \in 1..Len(a) : (<<"/">> \o r)[i] = IF i <= 1 THEN <<"/">>[i] ELSE r[i - 1]
  <2>1. /\ <<"/">> \o r \in PathTexts /\ Len(<<"/">> \o r) = 1 + Len(r)
        /\ \A i \in 1..1 + Len(r) : (<<"/">> \o r)[i] = IF i <= 1 THEN <<"/">>[i] ELSE r[i - 1]
    BY <1>1, <1>2, ConcatProperties DEF PathTexts, r
  <2>2. 1 + Len(r) = Len(a)
    BY <1>1 DEF r
  <2> QED
    BY <2>1, <2>2
<1>4. ASSUME NEW i \in 1..Len(a) PROVE (<<"/">> \o r)[i] = a[i]
  <2>1. CASE i = 1
    BY <1>3, <2>1
  <2>2. CASE i # 1
    <3>1. i - 1 \in 1..Len(Tail(a)) /\ (i - 1) + 1 = i /\ ~(i <= 1)
      BY <1>1, <2>2
    <3> QED
      BY <1>1, <1>3, <3>1 DEF r
  <2> QED
    BY <2>1, <2>2
<1>5. <<"/">> \o r = a
  BY <1>3, <1>4, SeqEqual DEF PathTexts
<1>6. Names(a) = Names(<<"/">>) \o Names(r)
  BY <1>1, <1>2, <1>5, NamesBehindSlash DEF r
<1>7. Names(a) = <<>> \o Names(r) /\ Names(r) \in Seq(PathTexts)
  BY <1>1, <1>6, NamesType DEF r
<1>8. Names(a) = Names(r)
  BY <1>7, ConcatEmptySeq
<1> QED
  BY <1>1, <1>8 DEF r

\* A path that only starts with a slash has at most one component.
LEMMA OneSlash ==
    ASSUME NEW a \in PathTexts, a # <<>>, a[1] = "/"
    PROVE  /\ Slashes(a) = {1} <=> \A i \in 2..Len(a) : a[i] # "/"
           /\ Slashes(a) = {1} => Len(Names(a)) <= 1
<1>1. Len(a) \in Nat /\ DOMAIN a = 1..Len(a) /\ Len(a) >= 1
  BY LenProperties, EmptySeq DEF PathTexts
<1>2. Slashes(a) = {1} <=> \A i \in 2..Len(a) : a[i] # "/"
  <2>1. ASSUME Slashes(a) = {1}, NEW i \in 2..Len(a) PROVE a[i] # "/"
    <3>1. i \in DOMAIN a /\ i # 1
      BY <1>1
    <3> QED
      BY <2>1, <3>1 DEF Slashes
  <2>2. ASSUME \A i \in 2..Len(a) : a[i] # "/" PROVE Slashes(a) = {1}
    <3>1. \A i \in DOMAIN a : i = 1 \/ i \in 2..Len(a)
      BY <1>1
    <3>2. 1 \in DOMAIN a
      BY <1>1
    <3> QED
      BY <2>2, <3>1, <3>2 DEF Slashes
  <2> QED
    BY <2>1, <2>2
<1>3. ASSUME Slashes(a) = {1} PROVE Len(Names(a)) <= 1
  <2> DEFINE r == Tail(a)
  <2>1. r \in PathTexts /\ Names(r) = Names(a)
    BY NamesTail
  <2>2. Len(r) = Len(a) - 1 /\ \A i \in 1..Len(r) : r[i] = a[i + 1]
    BY HeadTailProperties DEF PathTexts
  <2> HIDE DEF r
  <2>3. ASSUME NEW i \in 1..Len(r) PROVE r[i] \notin {"/"}
    <3>1. i + 1 \in 2..Len(a)
      BY <1>1, <2>2
    <3> QED
      BY <1>2, <1>3, <2>2, <3>1
  <2>4. Names(r) = IF r = <<>> THEN <<>> ELSE <<r>>
    BY <2>1, <2>3, TokensAlone DEF Names, PathTexts
  <2>5. Len(<<>>) <= 1 /\ Len(<<r>>) <= 1
    OBVIOUS
  <2> QED
    BY <2>1, <2>4, <2>5
<1> QED
  BY <1>2, <1>3

\* A path with its slash added: it names the same place and has two slashes.
LEMMA AddSlashSame ==
    ASSUME NEW a \in PathTexts, a # <<>>, a[1] = "/"
    PROVE  LET b == AddSlash(a)
           IN /\ b \in PathTexts /\ b # <<>> /\ b[1] = "/" /\ Names(b) = Names(a)
              /\ \E i \in 2..Len(b) : b[i] = "/"
              /\ Len(b) = IF Slashes(a) = {1} THEN Len(a) + 1 ELSE Len(a)
<1> DEFINE c == a \o <<"/">>
<1>1. Len(a) \in Nat /\ Len(a) >= 1
  BY LenProperties, EmptySeq DEF PathTexts
<1>2. CASE Slashes(a) # {1}
  <2>1. AddSlash(a) = a
    BY <1>2 DEF AddSlash
  <2>2. \E i \in 2..Len(a) : a[i] = "/"
    BY <1>2, OneSlash
  <2> QED
    BY <1>2, <2>1, <2>2
<1>3. CASE Slashes(a) = {1}
  <2>1. AddSlash(a) = c
    BY <1>3 DEF AddSlash
  <2>2. /\ c \in PathTexts /\ Names(c) = Names(a) /\ Len(c) = Len(a) + 1 /\ c[Len(a) + 1] = "/"
        /\ \A i \in 1..Len(a) : c[i] = a[i]
    BY NamesSlash
  <2> HIDE DEF c
  <2>4. c # <<>> /\ c[1] = "/"
    BY <1>1, <2>2
  <2>5. Len(a) + 1 \in 2..Len(c)
    BY <1>1, <2>2
  <2> QED
    BY <1>3, <2>1, <2>2, <2>4, <2>5
<1> QED
  BY <1>2, <1>3

\* snprintf: the path itself if it fits, otherwise what fits of it.
LEMMA CutIs ==
    ASSUME NEW a \in PathTexts
    PROVE  /\ Len(a) < PATH_MAX => Cut(a) = a
           /\ Len(a) >= PATH_MAX => Len(Cut(a)) = PATH_MAX - 1
           /\ Cut(a) \in PathTexts
           /\ \A i \in 1..Len(Cut(a)) : Cut(a)[i] = a[i]
<1>1. PATH_MAX \in Nat /\ PATH_MAX > 2
  BY NavAssumption
<1>2. Len(a) \in Nat /\ \A i \in 1..Len(a) : a[i] \in Characters
  BY LenProperties, ElementOfSeq DEF PathTexts
<1>3. CASE Len(a) < PATH_MAX
  <2>1. Min({Len(a), PATH_MAX - 1}) = Len(a)
    <3> DEFINE M == {Len(a), PATH_MAX - 1}
    <3>1. M \subseteq Int /\ Len(a) \in M /\ \A i \in M : Len(a) <= i
      BY <1>1, <1>2, <1>3
    <3> HIDE DEF M
    <3>2. Min(M) = Len(a)
      BY <3>1, MinIs
    <3> QED
      BY <3>2 DEF M
  <2>2. Cut(a) = a
    BY <2>1, SubSeqFull DEF Cut, PathTexts
  <2> QED
    BY <1>3, <1>1, <1>2, <2>2
<1>4. CASE Len(a) >= PATH_MAX
  <2>1. Min({Len(a), PATH_MAX - 1}) = PATH_MAX - 1
    <3> DEFINE M == {Len(a), PATH_MAX - 1}
    <3>1. M \subseteq Int /\ PATH_MAX - 1 \in M /\ \A i \in M : PATH_MAX - 1 <= i
      BY <1>1, <1>2, <1>4
    <3> HIDE DEF M
    <3>2. Min(M) = PATH_MAX - 1
      BY <3>1, MinIs
    <3> QED
      BY <3>2 DEF M
  <2>2. Cut(a) = SubSeq(a, 1, PATH_MAX - 1)
    BY <2>1 DEF Cut
  <2> DEFINE n == PATH_MAX - 1
  <2>3. n \in Int /\ n >= 1 /\ n <= Len(a)
    BY <1>1, <1>2, <1>4
  <2> HIDE DEF n
  <2>4. \A i \in 1..n : a[i] \in Characters
    BY <1>2, <2>3
  <2>5. /\ SubSeq(a, 1, n) \in Seq(Characters) /\ Len(SubSeq(a, 1, n)) = n
        /\ \A i \in 1..n : SubSeq(a, 1, n)[i] = a[i]
    <3>1. /\ SubSeq(a, 1, n) \in Seq(Characters)
          /\ Len(SubSeq(a, 1, n)) = IF 1 <= n THEN n - 1 + 1 ELSE 0
          /\ \A i \in 1..n - 1 + 1 : SubSeq(a, 1, n)[i] = a[1 + i - 1]
      BY <2>3, <2>4, SubSeqProperties
    <3>2. n - 1 + 1 = n /\ \A i \in 1..n : 1 + i - 1 = i
      BY <2>3
    <3> QED
      BY <2>3, <3>1, <3>2
  <2> QED
    BY <1>1, <1>2, <1>4, <2>2, <2>5 DEF n, PathTexts
<1> QED
  BY <1>1, <1>2, <1>3, <1>4

\* A path that was cut before a text that fits still starts with it.
LEMMA CutKeeps ==
    ASSUME NEW a \in PathTexts, NEW b \in PathTexts, Len(a) \in 1..PATH_MAX - 1
    PROVE  /\ Cut(a \o b) \in PathTexts /\ Len(Cut(a \o b)) \in 1..PATH_MAX - 1
           /\ Len(Cut(a \o b)) >= Len(a)
           /\ \A i \in 1..Len(a) : Cut(a \o b)[i] = a[i]
           /\ Len(a) + Len(b) < PATH_MAX => Cut(a \o b) = a \o b
<1>1. PATH_MAX \in Nat /\ PATH_MAX > 2
  BY NavAssumption
<1>2. /\ a \o b \in PathTexts /\ Len(a \o b) = Len(a) + Len(b)
      /\ \A i \in 1..Len(a) + Len(b) : (a \o b)[i] = IF i <= Len(a) THEN a[i] ELSE b[i - Len(a)]
  BY ConcatProperties DEF PathTexts
<1>3. Len(a) \in Nat /\ Len(b) \in Nat
  BY LenProperties DEF PathTexts
<1> DEFINE c == Cut(a \o b)
<1>4. /\ c \in PathTexts /\ \A i \in 1..Len(c) : c[i] = (a \o b)[i]
      /\ Len(a \o b) < PATH_MAX => c = a \o b
      /\ Len(a \o b) >= PATH_MAX => Len(c) = PATH_MAX - 1
  BY <1>2, CutIs
<1> HIDE DEF c
<1>5. Len(c) \in 1..PATH_MAX - 1 /\ Len(c) >= Len(a) /\ Len(c) <= Len(a) + Len(b)
  BY <1>1, <1>2, <1>3, <1>4
<1>6. ASSUME NEW i \in 1..Len(a) PROVE c[i] = a[i]
  <2>1. i \in 1..Len(c) /\ i \in 1..Len(a) + Len(b) /\ i <= Len(a)
    BY <1>3, <1>5
  <2> QED
    BY <1>2, <1>4, <2>1
<1> QED
  BY <1>2, <1>4, <1>5, <1>6 DEF c

\* A path below a device that does not end in a slash.
HasParent(a) ==
    /\ a \in PathTexts /\ a[1] = "/" /\ a[Len(a)] # "/"
    /\ \E i \in 2..Len(a) : a[i] = "/"

\* Behind its last slash such a path has its last component.
LEMMA LastSlash ==
    ASSUME NEW a, HasParent(a)
    PROVE  LET m == Max(Slashes(a))
               b == SubSeq(a, 1, m - 1)
           IN /\ m \in 2..Len(a) - 1 /\ a[m] = "/"
              /\ b \in PathTexts /\ Len(b) = m - 1 /\ \A i \in 1..m - 1 : b[i] = a[i]
              /\ Names(a) # <<>> /\ Names(b) = Front(Names(a))
<1> DEFINE m == Max(Slashes(a))
           b == SubSeq(a, 1, m - 1)
           q == SubSeq(a, m + 1, Len(a))
<1>0. a \in PathTexts /\ a[Len(a)] # "/"
  BY DEF HasParent
<1>1. Len(a) \in Nat /\ DOMAIN a = 1..Len(a) /\ \A i \in 1..Len(a) : a[i] \in Characters
  BY <1>0, LenProperties, ElementOfSeq DEF PathTexts
<1>2. PICK k \in 2..Len(a) : a[k] = "/"
  BY DEF HasParent
<1>3. Slashes(a) \subseteq 1..Len(a) /\ k \in Slashes(a)
  BY <1>1, <1>2 DEF Slashes
<1>4. m \in Slashes(a) /\ \A i \in Slashes(a) : i <= m
  <2>1. Slashes(a) # {}
    BY <1>3
  <2> QED
    BY <1>1, <1>3, <2>1, MaxOfPositions
<1> HIDE DEF m
<1>5. m \in 2..Len(a) - 1 /\ a[m] = "/"
  <2>1. m \in 1..Len(a) /\ a[m] = "/" /\ k <= m
    BY <1>1, <1>3, <1>4 DEF Slashes
  <2>2. m # Len(a)
    BY <1>0, <2>1
  <2>3. k \in 2..Len(a) /\ m \in 1..Len(a) /\ k <= m
    BY <2>1
  <2>4. m \in 2..Len(a) - 1
    <3>1. m \in Nat /\ Len(a) \in Nat /\ m <= Len(a) /\ k \in Nat /\ k >= 2
      BY <1>1, <2>3
    <3>2. m >= 2
      BY <2>3, <3>1
    <3>3. m <= Len(a) - 1
      BY <2>2, <3>1
    <3> QED
      BY <3>1, <3>2, <3>3
  <2> QED
    BY <2>1, <2>4
<1>6. /\ b \in PathTexts /\ Len(b) = m - 1 /\ \A i \in 1..m - 1 : b[i] = a[i]
  <2>1. m - 1 \in Int /\ 1 <= m - 1 /\ \A i \in 1..m - 1 : a[i] \in Characters
    BY <1>1, <1>5
  <2>2. /\ b \in Seq(Characters) /\ Len(b) = IF 1 <= m - 1 THEN (m - 1) - 1 + 1 ELSE 0
        /\ \A i \in 1..(m - 1) - 1 + 1 : b[i] = a[1 + i - 1]
    BY <2>1, SubSeqProperties
  <2>3. (m - 1) - 1 + 1 = m - 1 /\ \A i \in 1..m - 1 : 1 + i - 1 = i
    BY <1>5
  <2> HIDE DEF b
  <2> QED
    BY <2>1, <2>2, <2>3 DEF PathTexts
<1>7. /\ q \in PathTexts /\ Len(q) = Len(a) - m
      /\ \A i \in 1..Len(a) - m : q[i] = a[m + i]
  <2>1. /\ m + 1 \in Int /\ Len(a) \in Int /\ m + 1 <= Len(a)
        /\ \A i \in m + 1..Len(a) : a[i] \in Characters
    BY <1>1, <1>5
  <2>2. /\ q \in Seq(Characters) /\ Len(q) = IF m + 1 <= Len(a) THEN Len(a) - (m + 1) + 1 ELSE 0
        /\ \A i \in 1..Len(a) - (m + 1) + 1 : q[i] = a[(m + 1) + i - 1]
    BY <2>1, SubSeqProperties
  <2>3. Len(a) - (m + 1) + 1 = Len(a) - m /\ \A i \in 1..Len(a) - m : (m + 1) + i - 1 = m + i
    BY <1>1, <1>5
  <2> HIDE DEF q
  <2> QED
    BY <2>1, <2>2, <2>3 DEF PathTexts
<1> HIDE DEF b, q
<1>8. a = b \o <<"/">> \o q
  <2> DEFINE d == b \o <<"/">>
  <2>1. d \in PathTexts /\ Len(d) = m /\ d[m] = "/" /\ \A i \in 1..m - 1 : d[i] = b[i]
    <3>1. Len(b) + 1 = m /\ Len(b) = m - 1
      BY <1>5, <1>6
    <3>2. d \in PathTexts /\ Len(d) = Len(b) + 1 /\ d[Len(b) + 1] = "/"
          /\ \A i \in 1..Len(b) : d[i] = b[i]
      BY <1>6, NamesSlash
    <3> QED
      BY <3>1, <3>2
  <2> HIDE DEF d
  <2>2. /\ d \o q \in PathTexts /\ Len(d \o q) = Len(a)
        /\ \A i \in 1..Len(a) : (d \o q)[i] = IF i <= m THEN d[i] ELSE q[i - m]
    <3>1. /\ d \o q \in PathTexts /\ Len(d \o q) = m + Len(q)
          /\ \A i \in 1..m + Len(q) : (d \o q)[i] = IF i <= m THEN d[i] ELSE q[i - m]
      <4>1. /\ d \o q \in PathTexts /\ Len(d \o q) = Len(d) + Len(q)
            /\ \A i \in 1..Len(d) + Len(q) : (d \o q)[i] = IF i <= Len(d) THEN d[i] ELSE q[i - Len(d)]
        BY <1>7, <2>1, ConcatProperties DEF PathTexts
      <4> QED
        BY <2>1, <4>1
    <3>2. m + Len(q) = Len(a)
      BY <1>1, <1>5, <1>7
    <3> QED
      BY <3>1, <3>2
  <2>3. ASSUME NEW i \in 1..Len(a) PROVE (d \o q)[i] = a[i]
    <3>1. CASE i < m
      <4>1. i \in 1..m - 1 /\ i <= m
        BY <1>5, <3>1
      <4> QED
        BY <1>6, <2>1, <2>2, <4>1
    <3>2. CASE i = m
      BY <1>5, <2>1, <2>2, <3>2
    <3>3. CASE i > m
      <4>1. i - m \in 1..Len(a) - m /\ m + (i - m) = i /\ ~(i <= m)
        BY <1>1, <1>5, <3>3
      <4> QED
        BY <1>7, <2>2, <4>1
    <3>4. i < m \/ i = m \/ i > m
      BY <1>5
    <3> QED
      BY <3>1, <3>2, <3>3, <3>4
  <2>4. a = d \o q
    BY <1>0, <2>2, <2>3, SeqEqual DEF PathTexts
  <2> QED
    BY <2>4 DEF d
<1>9. Names(q) = <<q>>
  <2>1. ASSUME NEW i \in 1..Len(q) PROVE q[i] \notin {"/"}
    <3>1. i \in 1..Len(a) - m /\ m + i \in DOMAIN a /\ ~(m + i <= m)
      BY <1>1, <1>5, <1>7
    <3>2. m + i \notin Slashes(a)
      BY <1>4, <3>1
    <3> QED
      BY <1>7, <3>1, <3>2 DEF Slashes
  <2>2. q # <<>>
    BY <1>1, <1>5, <1>7
  <2> QED
    BY <1>7, <2>1, <2>2, TokensAlone DEF Names, PathTexts
<1>10. Names(a) = Append(Names(b), q) /\ Names(b) \in Seq(PathTexts)
  <2>1. Names(a) = Names(b) \o <<q>> /\ Names(b) \in Seq(PathTexts)
    BY <1>6, <1>7, <1>8, <1>9, NamesJoined, NamesType
  <2> QED
    BY <1>7, <2>1, AppendIsConcat
<1>11. Names(a) # <<>> /\ Names(b) = Front(Names(a))
  <2> DEFINE w == Names(b)
             u == Append(w, q)
  <2>1. /\ u # <<>> /\ Len(u) = Len(w) + 1 /\ Len(w) \in Nat
        /\ \A i \in 1..Len(w) : u[i] = w[i]
    BY <1>7, <1>10, AppendProperties, LenProperties
  <2>2. w \in Seq(PathTexts) /\ \A i \in 1..Len(w) : u[i] \in PathTexts
    BY <1>10, <2>1, ElementOfSeq
  <2> HIDE DEF u, w
  <2>3. Len(u) - 1 = Len(w) /\ Len(w) \in Int
    BY <2>1
  <2>4. /\ SubSeq(u, 1, Len(w)) \in Seq(PathTexts)
        /\ Len(SubSeq(u, 1, Len(w))) = Len(w)
        /\ \A i \in 1..Len(w) : SubSeq(u, 1, Len(w))[i] = u[i]
    <3>1. /\ SubSeq(u, 1, Len(w)) \in Seq(PathTexts)
          /\ Len(SubSeq(u, 1, Len(w))) = IF 1 <= Len(w) THEN Len(w) - 1 + 1 ELSE 0
          /\ \A i \in 1..Len(w) - 1 + 1 : SubSeq(u, 1, Len(w))[i] = u[1 + i - 1]
      BY <2>2, <2>3, SubSeqProperties
    <3>2. Len(w) - 1 + 1 = Len(w) /\ \A i \in 1..Len(w) : 1 + i - 1 = i
      BY <2>3
    <3> QED
      BY <2>1, <3>1, <3>2
  <2>5. SubSeq(u, 1, Len(w)) = w
    BY <2>1, <2>2, <2>4, SeqEqual
  <2>6. Front(u) = w
    BY <2>3, <2>5 DEF Front
  <2> QED
    BY <1>10, <2>1, <2>6 DEF u, w
<1> QED
  BY <1>5, <1>6, <1>11 DEF m, b

\* An argument is a path text that fits its buffer with two slashes.
LEMMA ArgumentType ==
    ASSUME NEW arg \in Arguments
    PROVE  /\ arg \in PathTexts /\ arg # <<>> /\ Len(arg) \in 1..PATH_MAX - 1
           /\ Len(arg) \in Nat /\ Len(arg) + 2 < PATH_MAX
           /\ Root \in PathTexts /\ Root # <<>> /\ Len(Root) = 1 /\ Root[1] = "/" /\ Last(Root) = "/"
<1>0. arg \in Seq(STRING) /\ Len(arg) >= 1 /\ Len(arg) + 2 < PATH_MAX /\ PATH_MAX \in Nat
  BY NavAssumption
<1>1. Len(arg) \in Nat /\ Len(arg) \in 1..PATH_MAX - 1 /\ arg \in Seq(STRING)
  <2>1. Len(arg) \in Nat
    BY <1>0, LenProperties
  <2> QED
    BY <1>0, <2>1
<1>2. Seq(STRING) \subseteq Seq(Characters)
  BY SeqMonotonic DEF Characters
<1>3. arg # <<>>
  <2>1. Len(arg) # 0
    BY <1>1
  <2> QED
    BY <1>1, <2>1, EmptySeq
<1>4. Root \in PathTexts /\ Root # <<>> /\ Len(Root) = 1 /\ Root[1] = "/" /\ Last(Root) = "/"
  BY DEF Root, PathTexts, Characters, Last
<1> QED
  BY <1>0, <1>1, <1>2, <1>3, <1>4 DEF PathTexts

\* A text, a slash and a text, joined.
LEMMA JoinedPath ==
    ASSUME NEW a \in PathTexts, NEW b \in PathTexts
    PROVE  /\ <<"/">> \o b \in PathTexts /\ Len(<<"/">> \o b) = 1 + Len(b)
           /\ a \o <<"/">> \o b = a \o (<<"/">> \o b)
<1>1. <<"/">> \in PathTexts
  BY DEF PathTexts, Characters
<1>2. <<"/">> \o b \in PathTexts /\ Len(<<"/">> \o b) = Len(<<"/">>) + Len(b)
  BY <1>1, ConcatProperties DEF PathTexts
<1>3. Len(<<"/">>) = 1
  OBVIOUS
<1>4. a \o <<"/">> \o b = a \o (<<"/">> \o b)
  BY <1>1, ConcatAssociative DEF PathTexts
<1> QED
  BY <1>2, <1>3, <1>4

\* The path of a file command starts with a slash and, where the client can know
\* it, names the file its argument names.
LEMMA FullPath ==
    ASSUME PathForm, PathSpelled, NEW arg \in Arguments
    PROVE  LET f == gen_ftp_fullpath(arg)
           IN /\ f \in PathTexts /\ f # <<>> /\ f[1] = "/"
              /\ Reliable(arg) => Names(f) = Wanted(arg)
<1> DEFINE f == gen_ftp_fullpath(arg)
           dev == arg[1] \in ShortDevices /\ Len(arg) > 1 /\ arg[2] = "/"
           x == <<"/">> \o arg
<1>1. arg \in PathTexts /\ arg # <<>> /\ Len(arg) \in Nat /\ Len(arg) + 2 < PATH_MAX
  BY ArgumentType
<1>2. PATH_MAX \in Nat /\ PATH_MAX > 2
  BY NavAssumption
<1>3. /\ cur_path \in PathTexts /\ Len(cur_path) \in 1..PATH_MAX - 1 /\ Len(cur_path) \in Nat
      /\ cur_path[1] = "/"
  BY <1>2 DEF PathForm
<1>4. x \in PathTexts /\ Len(x) = 1 + Len(arg) /\ cur_path \o <<"/">> \o arg = cur_path \o x
  BY <1>1, <1>3, JoinedPath
<1>5. CASE arg[1] = "/"
  <2>1. f = arg
    BY <1>5 DEF gen_ftp_fullpath
  <2>2. Wanted(arg) = Names(arg)
    BY <1>5 DEF Wanted, NamesAll
  <2> QED
    BY <1>1, <1>5, <2>1, <2>2
<1>6. CASE arg[1] # "/" /\ dev
  <2>1. f = Cut(x)
    BY <1>6 DEF gen_ftp_fullpath
  <2>2. Wanted(arg) = Names(arg)
    BY <1>6 DEF Wanted, NamesAll
  <2>3. <<"/">> \in PathTexts /\ Len(<<"/">>) = 1 /\ Len(<<"/">>) \in 1..PATH_MAX - 1
        /\ Last(<<"/">>) = "/" /\ <<"/">>[1] = "/"
    BY <1>2 DEF PathTexts, Characters, Last
  <2>4. /\ f \in PathTexts /\ Len(f) >= 1 /\ f[1] = <<"/">>[1]
        /\ 1 + Len(arg) < PATH_MAX => f = x
    <3> DEFINE y == <<"/">>
    <3>1. y \in PathTexts /\ Len(y) = 1 /\ Len(y) \in 1..PATH_MAX - 1 /\ 1 \in 1..Len(y)
      BY <2>3
    <3> HIDE DEF y
    <3>2. /\ Cut(y \o arg) \in PathTexts /\ Len(Cut(y \o arg)) >= Len(y)
          /\ Cut(y \o arg)[1] = y[1]
          /\ Len(y) + Len(arg) < PATH_MAX => Cut(y \o arg) = y \o arg
      BY <1>1, <3>1, CutKeeps
    <3> QED
      BY <2>1, <3>1, <3>2 DEF y
  <2>5. Names(x) = Names(arg)
    <3>1. Names(x) = Names(<<"/">>) \o Names(arg)
      BY <1>1, <2>3, NamesBehindSlash
    <3>2. Names(<<"/">>) = <<>> /\ Names(arg) \in Seq(PathTexts)
      BY <1>1, NamesType
    <3> QED
      BY <3>1, <3>2, ConcatEmptySeq
  <2>6. 1 + Len(arg) < PATH_MAX
    BY <1>1, <1>2
  <2>7. f # <<>>
    BY <2>4
  <2> QED
    BY <2>2, <2>3, <2>4, <2>5, <2>6, <2>7
<1>7. CASE arg[1] # "/" /\ ~dev
  <2>1. f = Cut(cur_path \o x)
    BY <1>4, <1>7 DEF gen_ftp_fullpath
  <2>2. Wanted(arg) = cwd \o Names(arg)
    BY <1>7 DEF Wanted, NamesAll
  <2> HIDE DEF x
  <2>3. /\ f \in PathTexts /\ Len(f) >= Len(cur_path) /\ f[1] = cur_path[1]
        /\ Len(cur_path) + Len(x) < PATH_MAX => f = cur_path \o x
    <3>1. 1 \in 1..Len(cur_path)
      BY <1>3
    <3> QED
      BY <1>3, <1>4, <2>1, <3>1, CutKeeps
  <2>4. f # <<>>
    BY <1>3, <2>3
  <2>5. ASSUME Reliable(arg) PROVE Names(f) = cwd \o Names(arg)
    <3>0. track = "exact" /\ Len(cur_path) + 1 + Len(arg) < PATH_MAX
      BY <1>7, <2>5 DEF Reliable, NamesAll
    <3>1. Len(cur_path) + Len(x) < PATH_MAX
      BY <1>1, <1>2, <1>3, <1>4, <3>0
    <3>2. Names(cur_path) = cwd
      BY <3>0 DEF PathSpelled
    <3>3. Names(cur_path \o <<"/">> \o arg) = Names(cur_path) \o Names(arg)
      BY <1>1, <1>3, NamesJoined
    <3> QED
      BY <1>4, <2>3, <3>1, <3>2, <3>3
  <2> QED
    BY <1>3, <2>2, <2>3, <2>4, <2>5
<1> QED
  BY <1>5, <1>6, <1>7

\* What CWD puts behind cur_path for a relative argument.
Added(arg) == IF path_is_at_root(cur_path) THEN arg ELSE <<"/">> \o arg

\* It brings the components of the argument.
LEMMA CwdRelative ==
    ASSUME PathForm, NEW arg \in Arguments, arg[1] # "/"
    PROVE  /\ Added(arg) \in PathTexts /\ CwdText(arg) = cur_path \o Added(arg)
           /\ cur_path = Root => Added(arg) = arg
           /\ Names(cur_path \o Added(arg)) = Names(cur_path) \o Names(arg)
<1>1. arg \in PathTexts /\ cur_path \in PathTexts
  BY ArgumentType DEF PathForm
<1>2. CASE path_is_at_root(cur_path)
  <2>1. CwdText(arg) = cur_path \o arg /\ Added(arg) = arg
    BY <1>2 DEF CwdText, Added
  <2>2. Names(cur_path \o arg) = Names(cur_path) \o Names(arg)
    BY <1>1, <1>2, NamesBehindSlash DEF path_is_at_root
  <2> QED
    BY <1>1, <2>1, <2>2
<1>3. CASE ~path_is_at_root(cur_path)
  <2> DEFINE x == <<"/">> \o arg
  <2>1. x \in PathTexts /\ cur_path \o <<"/">> \o arg = cur_path \o x
    BY <1>1, JoinedPath
  <2>2. Names(cur_path \o <<"/">> \o arg) = Names(cur_path) \o Names(arg)
    BY <1>1, NamesJoined
  <2>3. CwdText(arg) = cur_path \o <<"/">> \o arg /\ Added(arg) = x
    BY <1>3 DEF CwdText, Added
  <2>4. cur_path # Root
    BY <1>3, ArgumentType DEF path_is_at_root
  <2> HIDE DEF x
  <2> QED
    BY <2>1, <2>2, <2>3, <2>4
<1> QED
  BY <1>2, <1>3

\* The target of CWD is a path that leaves room for the slash it may get.
LEMMA CwdTargetForm ==
    ASSUME PathForm, NEW arg \in Arguments
    PROVE  LET t == CwdTarget(arg)
           IN /\ t \in PathTexts /\ Len(t) \in 1..PATH_MAX - 1 /\ t[1] = "/"
              /\ Slashes(t) = {1} => Len(t) + 1 \in 1..PATH_MAX - 1
<1> DEFINE t == CwdTarget(arg)
<1>1. arg \in PathTexts /\ Len(arg) \in 1..PATH_MAX - 1 /\ Len(arg) \in Nat
      /\ Len(arg) + 2 < PATH_MAX
  BY ArgumentType
<1>2. PATH_MAX \in Nat /\ PATH_MAX > 2
  BY NavAssumption
<1>3. /\ cur_path \in PathTexts /\ Len(cur_path) \in 1..PATH_MAX - 1 /\ Len(cur_path) \in Nat
      /\ cur_path[1] = "/"
  BY <1>2 DEF PathForm
<1>4. CASE arg[1] = "/"
  <2>1. CwdText(arg) = arg
    BY <1>4 DEF CwdText
  <2>2. Len(arg) < PATH_MAX /\ Len(arg) + 1 \in 1..PATH_MAX - 1
    BY <1>1, <1>2
  <2>3. t = arg
    BY <1>1, <2>1, <2>2, CutIs DEF CwdTarget
  <2> QED
    BY <1>1, <1>4, <2>2, <2>3
<1>5. CASE arg[1] # "/"
  <2> DEFINE y == Added(arg)
  <2>1. y \in PathTexts /\ CwdText(arg) = cur_path \o y /\ (cur_path = Root => y = arg)
    BY <1>5, CwdRelative
  <2> HIDE DEF y
  <2>2. t = Cut(cur_path \o y)
    BY <2>1 DEF CwdTarget
  <2>3. /\ t \in PathTexts /\ Len(t) \in 1..PATH_MAX - 1 /\ Len(t) >= Len(cur_path)
        /\ \A i \in 1..Len(cur_path) : t[i] = cur_path[i]
        /\ Len(cur_path) + Len(y) < PATH_MAX => t = cur_path \o y
    BY <1>3, <2>1, <2>2, CutKeeps
  <2> HIDE DEF t
  <2>4. t[1] = "/" /\ Len(t) \in Nat /\ t # <<>>
    <3>1. 1 \in 1..Len(cur_path) /\ Len(t) \in Nat /\ Len(t) # 0
      BY <1>2, <1>3, <2>3
    <3>2. t # <<>>
      BY <2>3, <3>1, EmptySeq DEF PathTexts
    <3> QED
      BY <1>3, <2>3, <3>1, <3>2
  <2>5. CASE cur_path = Root
    <3>1. Len(cur_path) = 1 /\ y = arg
      BY <2>1, <2>5, ArgumentType
    <3>2. Len(cur_path) + Len(y) < PATH_MAX
      BY <1>1, <1>2, <3>1
    <3>3. Len(t) = Len(cur_path) + Len(y)
      BY <1>3, <2>1, <2>3, <3>2, ConcatProperties DEF PathTexts
    <3>4. Len(t) + 1 \in 1..PATH_MAX - 1
      BY <1>1, <1>2, <3>1, <3>3
    <3> QED
      BY <2>3, <2>4, <3>4 DEF t
  <2>6. CASE cur_path # Root
    <3>1. PICK i \in 2..Len(cur_path) : cur_path[i] = "/"
      BY <2>6 DEF PathForm
    <3>2. i \in 1..Len(cur_path) /\ i \in 2..Len(t)
      BY <1>3, <2>3, <2>4
    <3>3. t[i] = "/"
      BY <2>3, <3>1, <3>2
    <3>4. Slashes(t) # {1}
      BY <2>3, <2>4, <3>2, <3>3, OneSlash
    <3> QED
      BY <2>3, <2>4, <3>4 DEF t
  <2> QED
    BY <2>5, <2>6
<1> QED
  BY <1>4, <1>5

\* CWD keeps the form of cur_path, with the slash that strcat adds.
LEMMA CwdForm ==
    ASSUME PathForm, NEW arg \in Arguments, CWD(arg)
    PROVE  PathForm' /\ Names(cur_path') = Names(IF arg = Root THEN Root ELSE CwdTarget(arg))
<1> DEFINE t == CwdTarget(arg)
<1>1. PATH_MAX \in Nat /\ PATH_MAX > 2
  BY NavAssumption
<1>2. CASE arg = Root
  <2>1. cur_path' = Root
    BY <1>2 DEF CWD
  <2>2. Root \in PathTexts /\ Len(Root) = 1 /\ Root[1] = "/"
    BY ArgumentType
  <2>3. Len(Root) \in 1..PATH_MAX - 1
    BY <1>1, <2>2
  <2> QED
    BY <1>2, <2>1, <2>2, <2>3 DEF PathForm
<1>3. CASE arg # Root
  <2>1. /\ t \in PathTexts /\ Len(t) \in 1..PATH_MAX - 1 /\ t[1] = "/"
        /\ Slashes(t) = {1} => Len(t) + 1 \in 1..PATH_MAX - 1
    BY CwdTargetForm
  <2>2. cur_path' = AddSlash(t)
    BY <1>3 DEF CWD
  <2> HIDE DEF t
  <2>3. t # <<>>
    <3>1. Len(t) # 0
      BY <1>1, <2>1
    <3> QED
      BY <2>1, <3>1, EmptySeq DEF PathTexts
  <2> DEFINE u == AddSlash(t)
  <2>4. /\ u \in PathTexts /\ u[1] = "/" /\ \E i \in 2..Len(u) : u[i] = "/"
        /\ Len(u) = IF Slashes(t) = {1} THEN Len(t) + 1 ELSE Len(t)
        /\ Names(u) = Names(t)
    BY <2>1, <2>3, AddSlashSame
  <2> HIDE DEF u
  <2>5. Len(u) \in 1..PATH_MAX - 1
    <3>1. CASE Slashes(t) = {1}
      BY <2>1, <2>4, <3>1
    <3>2. CASE Slashes(t) # {1}
      BY <2>1, <2>4, <3>2
    <3> QED
      BY <3>1, <3>2
  <2>6. cur_path' = u
    BY <2>2 DEF u
  <2> QED
    BY <1>3, <2>4, <2>5, <2>6 DEF PathForm, t
<1> QED
  BY <1>2, <1>3

\* ... and its spelling.
LEMMA CwdSpelled ==
    ASSUME PathForm, PathSpelled, NEW arg \in Arguments, CWD(arg)
    PROVE  PathSpelled'
<1> SUFFICES ASSUME track' = "exact" PROVE Names(cur_path') = cwd'
    BY DEF PathSpelled
<1>1. arg \in PathTexts /\ Len(arg) \in Nat /\ Len(arg) + 2 < PATH_MAX /\ PATH_MAX \in Nat
  BY ArgumentType, NavAssumption
<1>2. Names(cur_path') = Names(IF arg = Root THEN Root ELSE CwdTarget(arg))
  BY CwdForm
<1>3. CASE arg[1] = "/"
  <2>1. cwd' = Names(arg)
    BY <1>3 DEF CWD
  <2>2. Len(arg) < PATH_MAX
    BY <1>1
  <2>3. CwdTarget(arg) = arg
    BY <1>1, <1>3, <2>2, CutIs DEF CwdTarget, CwdText
  <2> QED
    BY <1>2, <2>1, <2>3
<1>4. CASE arg[1] # "/"
  <2>1. cwd' = cwd \o Names(arg) /\ track = "exact" /\ Len(CwdText(arg)) < PATH_MAX
    BY <1>4 DEF CWD
  <2>2. arg # Root
    BY <1>4, ArgumentType
  <2> DEFINE y == Added(arg)
  <2>3. /\ y \in PathTexts /\ CwdText(arg) = cur_path \o y
        /\ Names(cur_path \o y) = Names(cur_path) \o Names(arg)
    BY <1>4, CwdRelative
  <2> HIDE DEF y
  <2>4. cur_path \o y \in PathTexts
    BY <2>3, ConcatProperties DEF PathForm, PathTexts
  <2>5. CwdTarget(arg) = cur_path \o y
    BY <2>1, <2>3, <2>4, CutIs DEF CwdTarget
  <2>6. Names(cur_path) = cwd
    BY <2>1 DEF PathSpelled
  <2> QED
    BY <1>2, <2>1, <2>2, <2>3, <2>5, <2>6
<1> QED
  BY <1>3, <1>4

\* The root has the form of a path and names no directory.
LEMMA RootPath ==
    /\ Root \in PathTexts /\ Root # <<>> /\ Len(Root) = 1 /\ Len(Root) \in 1..PATH_MAX - 1
    /\ Root[1] = "/" /\ Last(Root) = "/" /\ Names(Root) = <<>>
<1>1. Root \in PathTexts /\ Root # <<>> /\ Len(Root) = 1 /\ Root[1] = "/" /\ Last(Root) = "/"
  BY DEF Root, PathTexts, Characters, Last
<1>2. Len(Root) \in 1..PATH_MAX - 1
  BY <1>1, NavAssumption
<1>3. Names(Root) = <<>>
  BY <1>1, NamesType DEF Root
<1> QED
  BY <1>1, <1>2, <1>3

\* CDUP leads to the parent, except from below a device by a path that ends in
\* a slash.
LEMMA CdupStep ==
    ASSUME PathForm, PathSpelled, CDUP
    PROVE  PathForm' /\ PathSpelled'
<1>0. PATH_MAX \in Nat
  BY NavAssumption
<1>1. /\ cur_path \in PathTexts /\ Len(cur_path) \in 1..PATH_MAX - 1 /\ Len(cur_path) \in Nat
      /\ cur_path[1] = "/"
  BY <1>0 DEF PathForm
<1>2. /\ cur_path' = dir_up(cur_path)
      /\ cwd' = IF cwd = <<>> THEN <<>> ELSE Front(cwd)
      /\ track' = "exact" => track = "exact" /\ ~(Last(cur_path) = "/" /\ Len(cwd) > 1)
  BY DEF CDUP
<1>3. ASSUME track' = "exact" PROVE Names(cur_path) = cwd /\ cwd \in Seq(PathTexts)
  BY <1>1, <1>2, <1>3, NamesType DEF PathSpelled
<1>4. CASE path_is_at_root(cur_path)
  <2>1. cur_path' = Root /\ Last(cur_path) = "/"
    BY <1>2, <1>4 DEF dir_up, path_is_at_root
  <2>2. PathForm'
    BY <2>1, RootPath DEF PathForm
  <2>3. ASSUME track' = "exact" PROVE cwd' = <<>>
    <3>1. CASE cwd = <<>>
      BY <1>2, <3>1
    <3>2. CASE cwd # <<>>
      <4>1. Len(cwd) \in Nat /\ ~(Len(cwd) > 1)
        BY <1>2, <1>3, <2>1, <2>3, LenProperties
      <4>2. Len(cwd) - 1 \in Int /\ Len(cwd) - 1 < 1
        BY <4>1
      <4>3. Front(cwd) = <<>>
        BY <4>2, SubSeqEmpty DEF Front
      <4> QED
        BY <1>2, <3>2, <4>3
    <3> QED
      BY <3>1, <3>2
  <2>4. PathSpelled'
    BY <2>1, <2>3, RootPath DEF PathSpelled
  <2> QED
    BY <2>2, <2>4
<1>5. CASE ~path_is_at_root(cur_path)
  <2> DEFINE m == Max(Slashes(cur_path))
             b == SubSeq(cur_path, 1, m - 1)
             u == AddSlash(b)
  <2>1. cur_path' = u
    BY <1>2, <1>5 DEF dir_up
  <2>2. HasParent(cur_path)
    <3>1. cur_path[Len(cur_path)] # "/"
      BY <1>5 DEF path_is_at_root, Last
    <3>2. cur_path # Root
      BY <1>5, RootPath DEF path_is_at_root
    <3> QED
      BY <1>1, <3>1, <3>2 DEF HasParent, PathForm
  <2>3. /\ m \in 2..Len(cur_path) - 1 /\ cur_path[m] = "/"
        /\ b \in PathTexts /\ Len(b) = m - 1 /\ \A i \in 1..m - 1 : b[i] = cur_path[i]
        /\ Names(cur_path) # <<>> /\ Names(b) = Front(Names(cur_path))
    BY <2>2, LastSlash
  <2> HIDE DEF m, b
  <2>4. m \in Nat /\ m >= 2 /\ m <= Len(cur_path) - 1
    BY <1>1, <2>3
  <2>5. b # <<>> /\ b[1] = "/"
    <3>1. 1 \in 1..m - 1 /\ Len(b) # 0
      BY <2>3, <2>4
    <3> QED
      BY <1>1, <2>3, <3>1, EmptySeq DEF PathTexts
  <2>6. /\ u \in PathTexts /\ u[1] = "/" /\ Names(u) = Names(b)
        /\ \E i \in 2..Len(u) : u[i] = "/"
        /\ Len(u) = IF Slashes(b) = {1} THEN Len(b) + 1 ELSE Len(b)
    BY <2>3, <2>5, AddSlashSame
  <2> HIDE DEF u
  <2>7. Len(u) \in 1..PATH_MAX - 1
    <3>1. Len(u) = m \/ Len(u) = m - 1
      BY <2>3, <2>4, <2>6
    <3> QED
      BY <1>0, <1>1, <2>4, <3>1
  <2>8. PathForm'
    BY <2>1, <2>6, <2>7 DEF PathForm
  <2>9. ASSUME track' = "exact" PROVE Names(u) = cwd'
    BY <1>2, <1>3, <2>3, <2>6, <2>9
  <2>10. PathSpelled'
    BY <2>1, <2>9 DEF PathSpelled
  <2> QED
    BY <2>8, <2>10
<1> QED
  BY <1>4, <1>5

\* A client starts with NavInv ...
LEMMA NavInitInv == NavInit => NavInv
<1> SUFFICES ASSUME NavInit PROVE NavInv
    OBVIOUS
<1>1. PathForm
  BY RootPath DEF NavInit, PathForm
<1>2. PathSpelled
  BY RootPath DEF NavInit, PathSpelled
<1>3. RenameKept
  <2>1. <<>> \in PathTexts
    BY DEF PathTexts
  <2> QED
    BY <2>1, NamesType DEF NavInit, NoSource, RenameKept
<1>4. FileCommandTarget
  BY DEF NavInit, NoCommand, FileCommandTarget
<1> QED
  BY <1>1, <1>2, <1>3, <1>4 DEF NavInv

\* ... and every command keeps it.
LEMMA NavStepInv == NavInv /\ [NavNext]_navVars => NavInv'
<1> SUFFICES ASSUME NavInv, [NavNext]_navVars PROVE NavInv'
    OBVIOUS
<1>0. PathForm /\ PathSpelled /\ RenameKept /\ FileCommandTarget
  BY DEF NavInv
<1>1. CASE NavConnect
  <2>1. PathForm'
    BY <1>1, RootPath DEF NavConnect, PathForm
  <2>2. PathSpelled'
    BY <1>1, RootPath DEF NavConnect, PathSpelled
  <2>3. RenameKept'
    <3>1. <<>> \in PathTexts
      BY DEF PathTexts
    <3> QED
      BY <1>1, <3>1, NamesType DEF NavConnect, NoSource, RenameKept
  <2>4. FileCommandTarget'
    BY <1>1 DEF NavConnect, NoCommand, FileCommandTarget
  <2> QED
    BY <2>1, <2>2, <2>3, <2>4 DEF NavInv
<1>2. CASE NavDisconnect
  <2>1. PathForm' /\ PathSpelled'
    BY <1>0, <1>2 DEF NavDisconnect, where, PathForm, PathSpelled
  <2>2. RenameKept'
    BY <1>0, <1>2 DEF NavDisconnect, RenameKept
  <2>3. FileCommandTarget'
    BY <1>2 DEF NavDisconnect, NoCommand, FileCommandTarget
  <2> QED
    BY <2>1, <2>2, <2>3 DEF NavInv
<1>3. CASE CDUP
  <2>1. PathForm' /\ PathSpelled'
    BY <1>0, <1>3, CdupStep
  <2>2. RenameKept'
    BY <1>0, <1>3 DEF CDUP, RenameKept
  <2>3. FileCommandTarget'
    BY <1>3 DEF CDUP, NoCommand, FileCommandTarget
  <2> QED
    BY <2>1, <2>2, <2>3 DEF NavInv
<1>4. ASSUME NEW arg \in Arguments, CWD(arg) PROVE NavInv'
  <2>1. PathForm' /\ PathSpelled'
    BY <1>0, <1>4, CwdForm, CwdSpelled
  <2>2. RenameKept'
    BY <1>0, <1>4 DEF CWD, RenameKept
  <2>3. FileCommandTarget'
    BY <1>4 DEF CWD, NoCommand, FileCommandTarget
  <2> QED
    BY <2>1, <2>2, <2>3 DEF NavInv
<1>5. ASSUME NEW arg \in Arguments PROVE
        LET f == gen_ftp_fullpath(arg)
        IN /\ f \in PathTexts /\ Tail(f) \in PathTexts /\ Names(Tail(f)) = Names(f)
           /\ Reliable(arg) => Names(Tail(f)) = Wanted(arg)
  <2> DEFINE f == gen_ftp_fullpath(arg)
  <2>1. f \in PathTexts /\ f # <<>> /\ f[1] = "/" /\ (Reliable(arg) => Names(f) = Wanted(arg))
    BY <1>0, FullPath
  <2> HIDE DEF f
  <2>2. Tail(f) \in PathTexts /\ Names(Tail(f)) = Names(f)
    BY <2>1, NamesTail
  <2> QED
    BY <2>1, <2>2 DEF f
<1>6. ASSUME NEW arg \in Arguments, FileCommand(arg) PROVE NavInv'
  <2>1. PathForm' /\ PathSpelled' /\ RenameKept'
    BY <1>0, <1>6 DEF FileCommand, where, PathForm, PathSpelled, RenameKept
  <2> DEFINE p == Names(get_vita_path(gen_ftp_fullpath(arg)))
             w == Wanted(arg)
  <2>2. Reliable(arg) => p = w
    BY <1>5 DEF get_vita_path
  <2> HIDE DEF p, w
  <2>3. /\ acted'.cmd = "file" /\ acted'.path = p /\ acted'.wanted = w
        /\ acted'.sure = Reliable(arg)
    BY <1>6 DEF FileCommand, NoCommand, p, w
  <2>4. FileCommandTarget'
    BY <2>2, <2>3 DEF FileCommandTarget
  <2> QED
    BY <2>1, <2>4 DEF NavInv
<1>7. ASSUME NEW arg \in Arguments, RNFR(arg) PROVE NavInv'
  <2>1. PathForm' /\ PathSpelled'
    BY <1>0, <1>7 DEF RNFR, where, PathForm, PathSpelled
  <2>2. RenameKept'
    BY <1>5, <1>7 DEF RNFR, get_vita_path, RenameKept
  <2>3. FileCommandTarget'
    BY <1>7 DEF RNFR, NoCommand, FileCommandTarget
  <2> QED
    BY <2>1, <2>2, <2>3 DEF NavInv
<1>8. ASSUME NEW arg \in Arguments, RNTO(arg) PROVE NavInv'
  <2>1. PathForm' /\ PathSpelled' /\ RenameKept'
    BY <1>0, <1>8 DEF RNTO, where, PathForm, PathSpelled, RenameKept
  <2> DEFINE p == Names(get_vita_path(gen_ftp_fullpath(arg)))
             w == Wanted(arg)
  <2>2. Reliable(arg) => p = w
    BY <1>5 DEF get_vita_path
  <2> HIDE DEF p, w
  <2>3. /\ acted'.cmd = "rename" /\ acted'.path = p /\ acted'.wanted = w
        /\ acted'.sure = Reliable(arg)
        /\ acted'.from = Names(rename_path) /\ acted'.source = source
    BY <1>8 DEF RNTO, p, w
  <2>4. FileCommandTarget'
    BY <1>0, <2>2, <2>3 DEF FileCommandTarget, RenameKept
  <2> QED
    BY <2>1, <2>4 DEF NavInv
<1>9. CASE UNCHANGED navVars
  BY <1>0, <1>9 DEF navVars, where, NavInv, PathForm, PathSpelled, RenameKept, FileCommandTarget
<1> QED
  BY <1>1, <1>2, <1>3, <1>4, <1>6, <1>7, <1>8, <1>9 DEF NavNext, NavStep

\* The inductive invariant of a client's paths.
THEOREM NavInvariance == NavSpec => []NavInv
  BY NavInitInv, NavStepInv, PTL DEF NavSpec

\* What NavInv says of the directory.
LEMMA NavInvTracked == NavInv => CwdTracked
<1> SUFFICES ASSUME NavInv PROVE CwdTracked
    OBVIOUS
<1>0. PathForm /\ PathSpelled /\ PATH_MAX \in Nat
  BY NavAssumption DEF NavInv
<1>1. cur_path[1] = "/" /\ Len(cur_path) \in 1..PATH_MAX - 1 /\ cur_path \in PathTexts
  BY <1>0 DEF PathForm
<1>2. Len(cur_path) < PATH_MAX
  BY <1>0, <1>1
<1>3. ASSUME cur_path # Root PROVE Cardinality(Slashes(cur_path)) > 1
  <2>1. PICK i \in 2..Len(cur_path) : cur_path[i] = "/"
    BY <1>0, <1>3 DEF PathForm
  <2>2. Len(cur_path) \in Nat /\ DOMAIN cur_path = 1..Len(cur_path)
    BY <1>1, LenProperties DEF PathTexts
  <2>3. 1 \in Slashes(cur_path) /\ i \in Slashes(cur_path) /\ i # 1
        /\ Slashes(cur_path) \subseteq 1..Len(cur_path)
    BY <1>1, <2>1, <2>2 DEF Slashes
  <2>4. IsFiniteSet(Slashes(cur_path)) /\ Cardinality(Slashes(cur_path)) \in Nat
    BY <2>2, <2>3, NthInSet
  <2>5. Cardinality(Slashes(cur_path)) # 0
    BY <2>3, <2>4, FS_EmptySet
  <2>6. Cardinality(Slashes(cur_path)) # 1
    <3>1. ASSUME Cardinality(Slashes(cur_path)) = 1 PROVE FALSE
      <4>1. PICK x : Slashes(cur_path) = {x}
        BY <2>4, <3>1, FS_Singleton
      <4> QED
        BY <2>3, <4>1
    <3> QED
      BY <3>1
  <2> QED
    BY <2>4, <2>5, <2>6
<1> QED
  BY <1>0, <1>1, <1>2, <1>3 DEF CwdTracked, PathSpelled

\* The current directory of a client (CWD, CDUP) is the one it should be in, for
\* every set of arguments and every PATH_MAX: cur_path always fits its buffer and
\* is / or holds a device with its slash; it names the components the client went
\* down and up, from every full path on until dir_up misreads a trailing slash or
\* a joined path is cut.
THEOREM DirectoryIsTracked == NavSpec => []CwdTracked
  BY NavInvariance, NavInvTracked, PTL

\* Every file command of a client and both names of a rename (gen_ftp_fullpath,
\* RNFR, RNTO) reach the device as the file the client named, seen from the
\* directory it should be in when it sent the name, if the name stands by itself
\* or that directory is tracked and the joined path fits.
THEOREM FileIsTarget == NavSpec => []FileCommandTarget
<1>1. NavInv => FileCommandTarget
  BY DEF NavInv
<1> QED
  BY <1>1, NavInvariance, PTL
=============================================================================
