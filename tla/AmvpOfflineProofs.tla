-------------------------- MODULE AmvpOfflineProofs --------------------------
(***************************************************************************)
(* Proofs about AmvpOffline, for any number of sets in a session, any      *)
(* number of sessions, and crashes and failures at any step.               *)
(***************************************************************************)
EXTENDS AmvpOffline, TLAPS

(* The lists that a process can work on.                                   *)
Whole == UNION {{FirstSets(s, n) : n \in {readable[s], NumSets} \ {0}} : s \in 1..sessions}

FileNames == {"req", "rsp", "saved"}
FileSet == [state : {"none", "open", "closed"}, key : Keys, urls : Seq(AllSets), body : Seq(AllSets)]

(* The types, in groups: the server and the bounds, the process, the disk. *)
ServerTypes ==
    /\ sessions \in 0..MaxSessions /\ validated \subseteq 1..sessions /\ infos \subseteq 1..sessions
    /\ readable \in [1..MaxSessions -> 0..NumSets]
    /\ submitted \in [AllSets -> AllSets \cup {NoAnswer, EmptyAnswer}]
    /\ crashes \in 0..MaxCrashes /\ faults \in 0..MaxFaults

Places == {"stopped", "register", "info", "retrieve", "read", "fetch", "dispatch", "header", "append", "close",
           "submit", "check", "validate"}

ProcessTypes ==
    /\ cmd \in Commands \cup {"none", "fill_in"}
    /\ pc \in Places
    /\ rv \in Errors \cup {"none", "AMVP_SUCCESS", "AMVP_MALFORMED_JSON", "AMVP_UNSUPPORTED_OP", "AMVP_INVALID_ARG",
                           "AMVP_MISSING_ARG", "AMVP_CRYPTO_MODULE_FAIL"}

FlagTypes == sample \in BOOLEAN /\ fips \in BOOLEAN /\ passed \in BOOLEAN

ListTypes ==
    /\ session \in 0..sessions /\ urls \in Seq(AllSets) /\ input \in Seq(AllSets)
    /\ next \in 1..(NumSets + 1)

FileTypes == files \in [FileNames -> FileSet]

Types == ServerTypes /\ ProcessTypes /\ FlagTypes /\ ListTypes /\ FileTypes

(* Which command is where, and how far it has counted.                     *)
Transfers == Downloads \cup {"expected", "print_expected"}
Writers == Downloads \cup {"process", "expected"}
FlowInv ==
    /\ pc = "register" => cmd \in {"download", "cert_req"} /\ sessions < MaxSessions
    /\ pc = "info" => cmd = "download"
    /\ pc = "retrieve" => cmd \in {"resume", "expected", "print_expected"}
    /\ pc = "read" => cmd \in {"process", "load_kat", "upload"}
    /\ pc = "fetch" => cmd \in Transfers
    /\ pc = "dispatch" => cmd = "process"
    /\ pc \in {"header", "append", "close"} => cmd \in Writers
    /\ pc \in {"submit", "check", "validate"} => cmd = "upload"
    /\ pc \in {"register", "info", "retrieve", "read", "header"} => next = 1
    /\ pc \in {"fetch", "dispatch", "append", "submit"} => next <= Len(urls)
    /\ pc = "close" => next = Len(urls) + 1

(* A process works on a list of one session; a process that answers works  *)
(* on the request file that is on the disk, an upload on the response file.*)
(* Only the session info file is written for an empty list, too.           *)
Working == pc \in Places \ {"stopped", "register", "info", "retrieve", "read"}
Known == IF cmd = "download" THEN readable[session] ELSE NumSets
ListOK ==
    /\ urls \in Whole
    /\ cmd # "process" => session \in 1..sessions
    /\ cmd \in Transfers /\ cmd # "cert_req" => urls = FirstSets(session, Known)
    /\ cmd = "process" =>
         /\ input = urls
         /\ files["req"].state = "closed" /\ files["req"].key = "vectorSetUrls" /\ files["req"].body = urls
    /\ cmd = "upload" => urls = files["rsp"].urls /\ input = files["rsp"].body /\ files["rsp"].state = "closed"
ListInv ==
    /\ Working => ListOK
    /\ pc = "info" => /\ session \in 1..sessions /\ urls = FirstSets(session, readable[session])
                      /\ urls = <<>> \/ urls \in Whole

(* The file that is being written is its header with the elements so far.  *)
Writing ==
    \/ pc \in {"append", "close"}
    \/ pc \in {"fetch", "dispatch"} /\ next > 1 /\ cmd # "print_expected"
    \/ pc = "fetch" /\ cmd = "expected"
ProgressInv ==
    Writing => files[OutFile] = [Header EXCEPT !.body = SubSeq(urls, 1, next - 1)]

(* What the files that parse contain.  The user's response file has the    *)
(* header of a request file, and some of its elements.                     *)
FileInv ==
    /\ files["req"].state = "closed" => files["req"].urls \in Whole /\ files["req"].body = files["req"].urls
    /\ files["rsp"].state = "closed" =>
         /\ files["rsp"].urls \in Whole
         /\ files["rsp"].key = "vectorSetUrls" => files["rsp"].body = files["rsp"].urls
         /\ \A i \in 1..Len(files["rsp"].body) : \E j \in 1..Len(files["rsp"].urls) :
              files["rsp"].body[i] = files["rsp"].urls[j]
    /\ files["saved"].state = "closed" => \E s \in 1..sessions : files["saved"].body = SetsOf(s)

(* The verdict of an upload.                                               *)
PassInv ==
    /\ pc \in {"read", "submit", "check"} => ~passed
    /\ pc = "validate" /\ passed => MayPass(session)

IInv == Types /\ FlowInv /\ ListInv /\ ProgressInv /\ FileInv /\ PassInv /\ SuccessMeansSaved

(* A list of sets of a session.                                            *)
LEMMA FirstSetsFacts ==
    ASSUME NEW s \in 1..MaxSessions, NEW n \in 0..NumSets
    PROVE  /\ FirstSets(s, n) \in Seq(AllSets) /\ Len(FirstSets(s, n)) = n
           /\ \A i \in 1..n : FirstSets(s, n)[i] = <<s, i>>
  BY OfflineConstants DEF FirstSets, AllSets

(* A list that a process works on, element by element.                     *)
LEMMA WholeFacts ==
    ASSUME ServerTypes, NEW u \in Whole
    PROVE  /\ u \in Seq(AllSets) /\ Len(u) \in 1..NumSets /\ u # <<>>
           /\ SubSeq(u, 1, 0) = <<>> /\ SubSeq(u, 1, Len(u)) = u
           /\ \A n \in 1..Len(u) : SubSeq(u, 1, n) = Append(SubSeq(u, 1, n - 1), u[n])
           /\ \A n \in 1..Len(u) : u[n] \in AllSets
           /\ \E s \in 1..sessions : \A n \in 1..Len(u) : u[n] = <<s, n>>
<1>1. PICK s \in 1..sessions : \E n \in {readable[s], NumSets} \ {0} : u = FirstSets(s, n)
  BY DEF Whole
<1>2. PICK m \in 1..NumSets : u = FirstSets(s, m)
  BY <1>1, OfflineConstants DEF ServerTypes
<1>6. s \in 1..MaxSessions /\ m \in 0..NumSets /\ m \in Nat
  BY <1>1, <1>2, OfflineConstants DEF ServerTypes
<1>3. u \in Seq(AllSets) /\ Len(u) = m /\ \A i \in 1..m : u[i] = <<s, i>>
  BY <1>2, <1>6, FirstSetsFacts
<1>4. u # <<>> /\ SubSeq(u, 1, 0) = <<>> /\ SubSeq(u, 1, Len(u)) = u
  BY <1>3, OfflineConstants
<1>5. ASSUME NEW n \in 1..Len(u) PROVE SubSeq(u, 1, n) = Append(SubSeq(u, 1, n - 1), u[n])
  BY <1>3, OfflineConstants
<1> QED BY <1>3, <1>4, <1>5, OfflineConstants

(* Sessions are never forgotten.                                           *)
LEMMA WholeGrows == ASSUME ServerTypes, [Next]_vars PROVE Whole \subseteq Whole' /\ 1..sessions \subseteq 1..sessions'
<1>1. sessions' \in {sessions, sessions + 1}
  BY DEF Next, Step, vars, Start, Register, RegisterFails, WriteSessionInfo, Retrieve, Fetch,
         PrintExpected, ReadRequest, DispatchVectorSet, LoadKat, WriteHeader, AppendItem,
         AppendFails, CloseFile, ReadResponse, SubmitVectorResponses, CheckTestResults,
         ValidateTestSession, FillIn, Crash, server
<1>2. \A s \in 1..sessions : readable'[s] = readable[s]
  <2>1. CASE Register
    <3>1. PICK n \in 0..NumSets : readable' = [readable EXCEPT ![sessions + 1] = n]
      BY <2>1 DEF Register
    <3>2. sessions \in Nat /\ DOMAIN readable = 1..MaxSessions /\ 1..sessions \subseteq 1..MaxSessions
      BY OfflineConstants DEF ServerTypes
    <3> QED BY <3>1, <3>2
  <2>2. CASE ~Register
    <3>1. readable' = readable
      BY <2>2
         DEF Next, Step, vars, Start, RegisterFails, WriteSessionInfo, Retrieve, Fetch,
             PrintExpected, ReadRequest, DispatchVectorSet, LoadKat, WriteHeader, AppendItem,
             AppendFails, CloseFile, ReadResponse, SubmitVectorResponses, CheckTestResults,
             ValidateTestSession, FillIn, Crash, server
    <3> QED BY <3>1
  <2> QED BY <2>1, <2>2
<1>3. 1..sessions \subseteq 1..sessions'
  BY <1>1, OfflineConstants DEF ServerTypes
<1> QED BY <1>2, <1>3, Zenon DEF Whole

(* What a process that works on a list knows of it.                        *)
LEMMA WorkFacts ==
    ASSUME IInv, Working
    PROVE  /\ urls \in Whole /\ urls \in Seq(AllSets) /\ Len(urls) \in 1..NumSets /\ urls # <<>>
           /\ SubSeq(urls, 1, 0) = <<>> /\ SubSeq(urls, 1, Len(urls)) = urls
           /\ \A n \in 1..Len(urls) : SubSeq(urls, 1, n) = Append(SubSeq(urls, 1, n - 1), urls[n])
           /\ \A n \in 1..Len(urls) : urls[n] \in AllSets
           /\ cmd # "process" => session \in 1..sessions
<1>1. ServerTypes /\ urls \in Whole /\ (cmd # "process" => session \in 1..sessions)
  BY DEF IInv, Types, ListInv, ListOK
<1> QED BY <1>1, WholeFacts

(* The file that a writer writes, and the elements it writes there.        *)
LEMMA OutFacts ==
    ASSUME IInv, pc \in {"header", "append", "close"}
    PROVE  /\ OutFile \in FileNames /\ Header \in FileSet
           /\ Header.state = "open" /\ Header.body = <<>> /\ Header = [Header EXCEPT !.body = <<>>]
           /\ cmd # "expected" => Header.urls = urls
           /\ OutFile = "req" <=> cmd \in Downloads
           /\ OutFile = "rsp" <=> cmd = "process"
           /\ OutFile = "saved" <=> cmd = "expected"
           /\ cmd = "process" => Header.key = "vectorSetUrls"
           /\ Items = Len(urls)
           /\ pc = "append" => next \in 1..Len(urls) /\ Item = urls[next] /\ Item \in AllSets
<1>2. Working
  BY DEF Working, Places
<1>3. urls \in Seq(AllSets) /\ Len(urls) \in 1..NumSets /\ \A n \in 1..Len(urls) : urls[n] \in AllSets
  BY <1>2, WorkFacts
<1>1. cmd \in Writers /\ next \in 1..(NumSets + 1) /\ (pc = "append" => next \in 1..Len(urls))
  BY <1>3, OfflineConstants DEF IInv, Types, FlowInv, ListTypes
<1>4. cmd = "process" => input = urls
  BY <1>2 DEF IInv, ListInv, ListOK
<1>5. /\ OutFile \in FileNames
      /\ OutFile = "req" <=> cmd \in Downloads
      /\ OutFile = "rsp" <=> cmd = "process"
      /\ OutFile = "saved" <=> cmd = "expected"
  BY <1>1 DEF OutFile, Writers, Downloads, FileNames
<1>6. <<>> \in Seq(AllSets)
  OBVIOUS
<1>7. Header \in FileSet /\ Header.state = "open" /\ Header.body = <<>>
  BY <1>1, <1>3, <1>6 DEF Header, File, FileSet, Keys, Writers, Downloads
<1>8. /\ cmd # "expected" => Header.urls = urls
      /\ cmd = "process" => Header.key = "vectorSetUrls"
  BY <1>1 DEF Header, File, Writers, Downloads
<1>9. Header = [Header EXCEPT !.body = <<>>]
  BY <1>7 DEF FileSet
<1>10. Items = Len(urls) /\ (pc = "append" => Item = urls[next])
  BY <1>3, <1>4 DEF Items, Item
<1> QED BY <1>1, <1>3, <1>5, <1>7, <1>8, <1>9, <1>10

(* What the header leaves: a file that does not parse, or the old one.     *)
LEMMA WriteHeaderEffect ==
    ASSUME IInv, WriteHeader
    PROVE  /\ files' \in [FileNames -> FileSet]
           /\ \A g \in FileNames \ {OutFile} : files'[g] = files[g]
           /\ files' = files \/ files'[OutFile].state = "open"
           /\ pc' # "stopped" => files'[OutFile] = Header /\ pc' = IF cmd = "expected" THEN "fetch" ELSE "append"
<1>1. OutFile \in FileNames /\ Header \in FileSet /\ Header.state = "open"
  BY OutFacts DEF WriteHeader
<1>2. files \in [FileNames -> FileSet]
  BY DEF IInv, Types, FileTypes
<1>3. File("open", "none", <<>>, <<>>) \in FileSet /\ File("open", "none", <<>>, <<>>).state = "open"
  BY DEF File, FileSet, Keys
<1>4. CASE files' = [files EXCEPT ![OutFile] = Header] /\ Goto(IF cmd = "expected" THEN "fetch" ELSE "append")
  BY <1>1, <1>2, <1>4 DEF Goto
<1>5. CASE files' = files /\ pc' = "stopped"
  BY <1>2, <1>5
<1>6. CASE files' = [files EXCEPT ![OutFile] = File("open", "none", <<>>, <<>>)] /\ pc' = "stopped"
  BY <1>1, <1>2, <1>3, <1>6
<1> QED BY <1>4, <1>5, <1>6 DEF WriteHeader, Fail, EndDownload, Stop

(* An element that was written extends the elements so far.                *)
LEMMA AppendItemEffect ==
    ASSUME IInv, AppendItem
    PROVE  /\ files' \in [FileNames -> FileSet]
           /\ \A g \in FileNames \ {OutFile} : files'[g] = files[g]
           /\ files'[OutFile] = [Header EXCEPT !.body = SubSeq(urls, 1, next)]
           /\ files'[OutFile].state = "open"
<1>1. pc = "append" /\ Working /\ Writing
  BY DEF AppendItem, Working, Places, Writing
<1>2. /\ OutFile \in FileNames /\ Header \in FileSet /\ Header.state = "open"
      /\ next \in 1..Len(urls) /\ Item = urls[next] /\ Item \in AllSets
  BY <1>1, OutFacts
<1>3. files \in [FileNames -> FileSet] /\ files[OutFile] = [Header EXCEPT !.body = SubSeq(urls, 1, next - 1)]
  BY <1>1 DEF IInv, Types, FileTypes, ProgressInv
<1>4. files' = [files EXCEPT ![OutFile] = [files[OutFile] EXCEPT !.body = Append(files[OutFile].body, Item)]]
  BY DEF AppendItem
<1>5. /\ files[OutFile] \in FileSet /\ files[OutFile].body = SubSeq(urls, 1, next - 1)
      /\ files[OutFile].body \in Seq(AllSets)
  BY <1>2, <1>3 DEF FileSet
<1>6. Append(files[OutFile].body, Item) = SubSeq(urls, 1, next) /\ Append(files[OutFile].body, Item) \in Seq(AllSets)
  BY <1>1, <1>2, <1>5, WorkFacts
<1>7. [files[OutFile] EXCEPT !.body = Append(files[OutFile].body, Item)]
        = [Header EXCEPT !.body = SubSeq(urls, 1, next)]
  BY <1>2, <1>3, <1>6 DEF FileSet
<1>8. [Header EXCEPT !.body = SubSeq(urls, 1, next)] \in FileSet
      /\ [Header EXCEPT !.body = SubSeq(urls, 1, next)].state = "open"
  BY <1>2, <1>6 DEF FileSet
<1> QED BY <1>2, <1>3, <1>4, <1>7, <1>8

(* A file that was closed has every element.                               *)
LEMMA CloseFileEffect ==
    ASSUME IInv, CloseFile
    PROVE  /\ files' \in [FileNames -> FileSet]
           /\ \A g \in FileNames \ {OutFile} : files'[g] = files[g]
           /\ \/ files' = files /\ rv' # "AMVP_SUCCESS"
              \/ files' = files /\ cmd = "cert_req"
              \/ /\ files'[OutFile].state = "closed" /\ files'[OutFile].body = urls
                 /\ files'[OutFile].key = Header.key /\ files'[OutFile].urls = Header.urls
<1>1. pc = "close" /\ Working /\ Writing /\ next = Len(urls) + 1
  BY DEF CloseFile, Working, Places, Writing, IInv, FlowInv
<1>2. OutFile \in FileNames /\ Header \in FileSet
  BY <1>1, OutFacts
<1>3. next - 1 = Len(urls)
  BY <1>1, WorkFacts, OfflineConstants
<1>4. files \in [FileNames -> FileSet] /\ files[OutFile] = [Header EXCEPT !.body = urls]
  BY <1>1, <1>3, WorkFacts DEF IInv, Types, FileTypes, ProgressInv
<1>5. urls \in Seq(AllSets)
  BY <1>1, WorkFacts
<1>6. CASE files' = [files EXCEPT ![OutFile].state = "closed"]
  <2>1. files' = [files EXCEPT ![OutFile] = [files[OutFile] EXCEPT !.state = "closed"]]
    BY <1>6
  <2>2. /\ [files[OutFile] EXCEPT !.state = "closed"] \in FileSet
        /\ [files[OutFile] EXCEPT !.state = "closed"].state = "closed"
        /\ [files[OutFile] EXCEPT !.state = "closed"].body = urls
        /\ [files[OutFile] EXCEPT !.state = "closed"].key = Header.key
        /\ [files[OutFile] EXCEPT !.state = "closed"].urls = Header.urls
    BY <1>2, <1>4, <1>5 DEF FileSet
  <2> QED BY <1>2, <1>4, <2>1, <2>2
<1>7. CASE files' = files /\ Fail("AMVP_JSON_ERR")
  BY <1>4, <1>7 DEF Fail, EndDownload, Stop
<1> QED BY <1>6, <1>7 DEF CloseFile

(* The user's response file.                                               *)
LEMMA FillInEffect ==
    ASSUME IInv, FillIn
    PROVE  /\ files' \in [FileNames -> FileSet]
           /\ files'["req"] = files["req"] /\ files'["saved"] = files["saved"]
           /\ files["req"].urls \in Whole /\ files'["rsp"].urls = files["req"].urls
           /\ files'["rsp"].key = "ieSetsId" /\ files["req"].state = "closed"
           /\ \A i \in 1..Len(files'["rsp"].body) : \E j \in 1..Len(files["req"].urls) :
                files'["rsp"].body[i] = files["req"].urls[j]
<1>1. files \in [FileNames -> FileSet] /\ files["req"].state = "closed" /\ files["req"].key = "ieSetsId"
  BY DEF IInv, Types, FileTypes, FillIn
<1>2. files["req"].urls \in Whole /\ files["req"].body = files["req"].urls /\ files["req"] \in FileSet
  BY <1>1 DEF IInv, FileInv, FileNames
<1> DEFINE u == files["req"].body
<1>3. u \in Seq(AllSets) /\ Len(u) \in 1..NumSets /\ \A m \in 1..Len(u) : u[m] \in AllSets
  BY <1>2, WholeFacts DEF IInv, Types
<1>10. PICK n \in 1..Len(u) : \E kept \in [1..n -> 1..Len(u)] :
        files' = [files EXCEPT !["rsp"] = [files["req"] EXCEPT !.body = [i \in 1..n |-> u[kept[i]]]]]
  BY Zenon DEF FillIn
<1>4. PICK kept \in [1..n -> 1..Len(u)] :
        files' = [files EXCEPT !["rsp"] = [files["req"] EXCEPT !.body = [i \in 1..n |-> u[kept[i]]]]]
  BY <1>10
<1> DEFINE b == [i \in 1..n |-> u[kept[i]]]
<1>5. b \in Seq(AllSets) /\ Len(b) = n /\ \A i \in 1..n : \E j \in 1..Len(u) : b[i] = u[j]
  <2> HIDE DEF u
  <2>1. n \in Nat /\ \A i \in 1..n : kept[i] \in 1..Len(u)
    BY <1>3, <1>10, <1>4
  <2> QED BY <1>3, <2>1
<1> HIDE DEF b
<1>6. [files["req"] EXCEPT !.body = b] \in FileSet
  BY <1>2, <1>5 DEF FileSet
<1>7. files'["rsp"] = [files["req"] EXCEPT !.body = b]
  BY <1>1, <1>4 DEF FileNames, b
<1>8. files' \in [FileNames -> FileSet] /\ files'["req"] = files["req"] /\ files'["saved"] = files["saved"]
  BY <1>1, <1>4, <1>6 DEF FileNames, b
<1>9. files'["rsp"].urls = files["req"].urls /\ files'["rsp"].key = files["req"].key /\ files'["rsp"].body = b
  BY <1>2, <1>7 DEF FileSet
<1>11. \A i \in 1..Len(b) : \E j \in 1..Len(files["req"].urls) : b[i] = files["req"].urls[j]
  BY <1>2, <1>5
<1> QED BY <1>1, <1>2, <1>8, <1>9, <1>11

(* Every step keeps the types of the server and the bounds.                *)
LEMMA ServerTypesStep == IInv /\ [Next]_vars => ServerTypes'
<1> SUFFICES ASSUME IInv, [Next]_vars PROVE ServerTypes'
  OBVIOUS
<1> USE OfflineConstants DEF IInv, Types
<1>1. ASSUME NEW c \in Commands, Start(c) PROVE ServerTypes'
  BY <1>1 DEF Start, server, disk, ServerTypes
<1>2. CASE Register
  <2>1. PICK n \in 0..NumSets : /\ IF n = NumSets THEN NoFault ELSE Fault
                                /\ readable' = [readable EXCEPT ![sessions + 1] = n]
    BY <1>2 DEF Register
  <2>2. sessions' = sessions + 1 /\ sessions' \in 1..MaxSessions /\ UNCHANGED <<validated, infos, submitted, crashes>>
    BY <1>2 DEF Register, disk, ServerTypes, FlowInv
  <2>3. readable' \in [1..MaxSessions -> 0..NumSets]
    BY <2>1, <2>2 DEF ServerTypes
  <2>4. faults' \in 0..MaxFaults
    BY <2>1 DEF NoFault, Fault, ServerTypes
  <2> QED BY <2>2, <2>3, <2>4 DEF ServerTypes
<1>3. CASE RegisterFails
  BY <1>3 DEF RegisterFails, Fault, server, disk, ServerTypes
<1>4. CASE WriteSessionInfo
  <2>2. session \in 1..sessions
    BY <1>4 DEF WriteSessionInfo, ListInv
  <2>3. faults' = faults \/ (faults < MaxFaults /\ faults' = faults + 1)
    BY <1>4 DEF WriteSessionInfo, NoFault, Fault
  <2>4. infos' \in {infos, infos \cup {session}} /\ UNCHANGED <<sessions, readable, validated, submitted, crashes>>
    BY <1>4 DEF WriteSessionInfo, server
  <2> QED BY <2>2, <2>3, <2>4 DEF ServerTypes
<1>5. CASE Retrieve
  BY <1>5 DEF Retrieve, NoFault, Fault, server, disk, ServerTypes
<1>6. CASE Fetch
  BY <1>6 DEF Fetch, NoFault, Fault, server, disk, ServerTypes
<1>7. CASE PrintExpected
  BY <1>7 DEF PrintExpected, NoFault, Fault, server, disk, ServerTypes
<1>8. CASE ReadRequest
  BY <1>8 DEF ReadRequest, server, disk, ServerTypes
<1>9. CASE DispatchVectorSet
  BY <1>9 DEF DispatchVectorSet, NoFault, Fault, server, disk, ServerTypes
<1>10. CASE LoadKat
  BY <1>10 DEF LoadKat, NoFault, Fault, server, disk, ServerTypes
<1>11. CASE WriteHeader
  BY <1>11 DEF WriteHeader, NoFault, Fault, server, ServerTypes
<1>12. CASE AppendItem
  BY <1>12 DEF AppendItem, NoFault, server, ServerTypes
<1>13. CASE AppendFails
  BY <1>13 DEF AppendFails, Fault, server, disk, ServerTypes
<1>14. CASE CloseFile
  BY <1>14 DEF CloseFile, NoFault, Fault, server, ServerTypes
<1>15. CASE ReadResponse
  BY <1>15 DEF ReadResponse, NoFault, Fault, server, disk, ServerTypes
<1>16. CASE SubmitVectorResponses
  <2>1. Working
    BY <1>16 DEF SubmitVectorResponses, Working, Places
  <2>6. Len(urls) \in 1..NumSets
    BY <2>1, WorkFacts
  <2>2. next \in 1..Len(urls) /\ input \in Seq(AllSets)
    BY <1>16, <2>6 DEF SubmitVectorResponses, FlowInv, ListTypes
  <2>3. urls[next] \in AllSets
    BY <2>1, <2>2, WorkFacts
  <2>4. ElementFor(next) \in AllSets \cup {NoAnswer, EmptyAnswer}
    BY <2>2 DEF ElementFor
  <2>5. submitted' \in [AllSets -> AllSets \cup {NoAnswer, EmptyAnswer}]
    BY <1>16, <2>3, <2>4 DEF SubmitVectorResponses, ServerTypes
  <2> QED BY <1>16, <2>5 DEF SubmitVectorResponses, NoFault, Fault, disk, ServerTypes
<1>17. CASE CheckTestResults
  <2>1. faults' = faults \/ (faults < MaxFaults /\ faults' = faults + 1)
    BY <1>17 DEF CheckTestResults, NoFault, Fault
  <2>2. UNCHANGED <<sessions, readable, submitted, validated, infos, crashes>>
    BY <1>17 DEF CheckTestResults, server, disk
  <2> QED BY <2>1, <2>2 DEF ServerTypes
<1>18. CASE ValidateTestSession
  <2>1. Working
    BY <1>18 DEF ValidateTestSession, Working, Places
  <2>2. session \in 1..sessions
    BY <1>18, <2>1, WorkFacts DEF ValidateTestSession, FlowInv
  <2>3. faults' = faults \/ (faults < MaxFaults /\ faults' = faults + 1)
    BY <1>18 DEF ValidateTestSession, NoFault, Fault
  <2>4. validated' \in {validated, validated \cup {session}} /\ UNCHANGED <<sessions, readable, infos, submitted, crashes>>
    BY <1>18 DEF ValidateTestSession, disk
  <2> QED BY <2>2, <2>3, <2>4 DEF ServerTypes
<1>19. CASE FillIn
  BY <1>19 DEF FillIn, server, ServerTypes
<1>20. CASE Crash
  BY <1>20 DEF Crash, server, disk, ServerTypes
<1>21. CASE UNCHANGED vars
  BY <1>21 DEF vars, server, disk, ServerTypes
<1> QED
  BY <1>1, <1>2, <1>3, <1>4, <1>5, <1>6, <1>7, <1>8, <1>9, <1>10, <1>11, <1>12, <1>13, <1>14,
     <1>15, <1>16, <1>17, <1>18, <1>19, <1>20, <1>21
     DEF Next, Step

(* Every step keeps the types of the process.                              *)
LEMMA ProcessTypesStep == IInv /\ [Next]_vars => ProcessTypes'
<1> SUFFICES ASSUME IInv, [Next]_vars PROVE ProcessTypes'
  OBVIOUS
<1> USE OfflineConstants DEF IInv, Types
<1>1. ASSUME NEW c \in Commands, Start(c) PROVE ProcessTypes'
  BY <1>1 DEF Start, ProcessTypes, Commands, Downloads, Errors, Places
<1>2. CASE Register
  BY <1>2 DEF Register, Goto, WorkOff, Fail, EndDownload, Stop, ProcessTypes, Commands, Downloads, Errors, Places
<1>3. CASE RegisterFails
  BY <1>3 DEF RegisterFails, Stop, EndDownload, ProcessTypes, Commands, Downloads, Errors, Places
<1>4. CASE WriteSessionInfo
  BY <1>4 DEF WriteSessionInfo, Goto, WorkOff, Fail, EndDownload, Stop, ProcessTypes, Commands, Downloads, Errors, Places
<1>5. CASE Retrieve
  BY <1>5 DEF Retrieve, Goto, Stop, ProcessTypes, Commands, Downloads, Errors, Places
<1>6. CASE Fetch
  BY <1>6
     DEF Fetch, Goto, Fail, EndDownload, Stop, ProcessTypes, Commands, Downloads, Errors,
         Places
<1>7. CASE PrintExpected
  BY <1>7 DEF PrintExpected, Goto, Stop, ProcessTypes, Commands, Downloads, Errors, Places
<1>8. CASE ReadRequest
  BY <1>8 DEF ReadRequest, Goto, Stop, ProcessTypes, Commands, Downloads, Errors, Places
<1>9. CASE DispatchVectorSet
  BY <1>9 DEF DispatchVectorSet, Goto, Stop, ProcessTypes, Commands, Downloads, Errors, Places
<1>10. CASE LoadKat
  BY <1>10 DEF LoadKat, Stop, ProcessTypes, Commands, Downloads, Errors, Places
<1>11. CASE WriteHeader
  BY <1>11
     DEF WriteHeader, Goto, Fail, EndDownload, Stop, ProcessTypes, Commands, Downloads,
         Errors, Places
<1>12. CASE AppendItem
  BY <1>12 DEF AppendItem, Goto, Items, ProcessTypes, Commands, Downloads, Errors, Places
<1>13. CASE AppendFails
  BY <1>13
     DEF AppendFails, Fail, EndDownload, Stop, ProcessTypes, Commands, Downloads, Errors,
         Places
<1>14. CASE CloseFile
  BY <1>14 DEF CloseFile, Fail, EndDownload, Stop, ProcessTypes, Commands, Downloads, Errors, Places
<1>15. CASE ReadResponse
  BY <1>15 DEF ReadResponse, Goto, Stop, ProcessTypes, Commands, Downloads, Errors, Places
<1>16. CASE SubmitVectorResponses
  BY <1>16 DEF SubmitVectorResponses, Goto, ProcessTypes, Commands, Downloads, Errors, Places
<1>17. CASE CheckTestResults
  BY <1>17 DEF CheckTestResults, Goto, Stop, ProcessTypes, Commands, Downloads, Errors, Places
<1>18. CASE ValidateTestSession
  BY <1>18 DEF ValidateTestSession, Stop, ProcessTypes, Commands, Downloads, Errors, Places
<1>19. CASE FillIn
  BY <1>19 DEF FillIn, ProcessTypes, Commands, Downloads, Errors, Places
<1>20. CASE Crash
  BY <1>20 DEF Crash, Stop, ProcessTypes, Commands, Downloads, Errors, Places
<1>21. CASE UNCHANGED vars
  BY <1>21 DEF vars, ProcessTypes, Commands, Downloads, Errors, Places
<1> QED
  BY <1>1, <1>2, <1>3, <1>4, <1>5, <1>6, <1>7, <1>8, <1>9, <1>10, <1>11, <1>12, <1>13, <1>14,
     <1>15, <1>16, <1>17, <1>18, <1>19, <1>20, <1>21
     DEF Next, Step

(* Every step keeps the flags Boolean.                                     *)
LEMMA FlagTypesStep == IInv /\ [Next]_vars => FlagTypes'
<1> SUFFICES ASSUME IInv, [Next]_vars PROVE FlagTypes'
  OBVIOUS
<1> USE OfflineConstants DEF IInv, Types
<1>1. ASSUME NEW c \in Commands, Start(c) PROVE FlagTypes'
  BY <1>1 DEF Start, flags, FlagTypes
<1>2. CASE Register
  BY <1>2 DEF Register, flags, FlagTypes
<1>3. CASE RegisterFails
  BY <1>3 DEF RegisterFails, flags, FlagTypes
<1>4. CASE WriteSessionInfo
  BY <1>4 DEF WriteSessionInfo, flags, FlagTypes
<1>5. CASE Retrieve
  BY <1>5 DEF Retrieve, flags, FlagTypes
<1>6. CASE Fetch
  BY <1>6 DEF Fetch, flags, FlagTypes
<1>7. CASE PrintExpected
  BY <1>7 DEF PrintExpected, flags, FlagTypes
<1>8. CASE ReadRequest
  BY <1>8 DEF ReadRequest, flags, FlagTypes
<1>9. CASE DispatchVectorSet
  BY <1>9 DEF DispatchVectorSet, flags, FlagTypes
<1>10. CASE LoadKat
  BY <1>10 DEF LoadKat, flags, FlagTypes
<1>11. CASE WriteHeader
  BY <1>11 DEF WriteHeader, flags, FlagTypes
<1>12. CASE AppendItem
  BY <1>12 DEF AppendItem, flags, FlagTypes
<1>13. CASE AppendFails
  BY <1>13 DEF AppendFails, flags, FlagTypes
<1>14. CASE CloseFile
  BY <1>14 DEF CloseFile, flags, FlagTypes
<1>15. CASE ReadResponse
  BY <1>15 DEF ReadResponse, flags, FlagTypes
<1>16. CASE SubmitVectorResponses
  BY <1>16 DEF SubmitVectorResponses, flags, FlagTypes
<1>17. CASE CheckTestResults
  BY <1>17 DEF CheckTestResults, MayPass, flags, FlagTypes
<1>18. CASE ValidateTestSession
  BY <1>18 DEF ValidateTestSession, flags, FlagTypes
<1>19. CASE FillIn
  BY <1>19 DEF FillIn, flags, FlagTypes
<1>20. CASE Crash
  BY <1>20 DEF Crash, flags, FlagTypes
<1>21. CASE UNCHANGED vars
  BY <1>21 DEF vars, flags, FlagTypes
<1> QED
  BY <1>1, <1>2, <1>3, <1>4, <1>5, <1>6, <1>7, <1>8, <1>9, <1>10, <1>11, <1>12, <1>13, <1>14,
     <1>15, <1>16, <1>17, <1>18, <1>19, <1>20, <1>21
     DEF Next, Step

(* Every step keeps the types of the lists.                                *)
LEMMA ListTypesStep == IInv /\ [Next]_vars => ListTypes'
<1> SUFFICES ASSUME IInv, [Next]_vars PROVE ListTypes'
  OBVIOUS
<1> USE OfflineConstants DEF IInv, Types
<1>1. ASSUME NEW c \in Commands, Start(c) PROVE ListTypes'
  BY <1>1 DEF Start, server, disk, ListTypes, ServerTypes, FlowInv
<1>2. CASE Register
  <2>1. sessions' \in 1..MaxSessions /\ sessions' = sessions + 1
    BY <1>2 DEF Register, FlowInv, ServerTypes
  <2>2. PICK n \in 0..NumSets : urls' = FirstSets(sessions + 1, n)
    BY <1>2 DEF Register
  <2>3. urls' \in Seq(AllSets)
    BY <2>1, <2>2, FirstSetsFacts
  <2> QED BY <1>2, <2>1, <2>3 DEF Register, ListTypes
<1>3. CASE RegisterFails
  BY <1>3 DEF RegisterFails, Fault, Stop, EndDownload, server, disk, ListTypes, ServerTypes, FlowInv
<1>4. CASE WriteSessionInfo
  BY <1>4 DEF WriteSessionInfo, NoFault, Fault, Goto, server, ListTypes, ServerTypes, FlowInv
<1>5. CASE Retrieve
  <2>1. PICK s \in infos : session' = s /\ urls' \in {urls, SetsOf(s)}
    BY <1>5 DEF Retrieve
  <2>2. s \in 1..sessions /\ s \in 1..MaxSessions
    BY <2>1 DEF ServerTypes
  <2>3. urls' \in Seq(AllSets)
    BY <2>1, <2>2, FirstSetsFacts DEF ListTypes, SetsOf
  <2> QED BY <1>5, <2>1, <2>2, <2>3 DEF Retrieve, server, ListTypes
<1>6. CASE Fetch
  BY <1>6
     DEF Fetch, NoFault, Fault, Goto, Fail, EndDownload, Stop, server, disk, ListTypes,
         ServerTypes, FlowInv
<1>7. CASE PrintExpected
  <2>1. Working
    BY <1>7 DEF PrintExpected, Working, Places
  <2>2. Len(urls) \in 1..NumSets
    BY <2>1, WorkFacts
  <2> QED BY <1>7, <2>2 DEF PrintExpected, server, ListTypes, FlowInv
<1>8. CASE ReadRequest
  <2>1. files["req"] \in FileSet
    BY DEF FileTypes, FileNames
  <2>2. urls' \in Seq(AllSets) /\ input' \in Seq(AllSets)
    BY <1>8, <2>1 DEF ReadRequest, FileSet
  <2> QED BY <1>8, <2>2 DEF ReadRequest, server, ListTypes
<1>9. CASE DispatchVectorSet
  BY <1>9
     DEF DispatchVectorSet, NoFault, Fault, Goto, Stop, server, disk, ListTypes, ServerTypes,
         FlowInv
<1>10. CASE LoadKat
  BY <1>10 DEF LoadKat, NoFault, Fault, Stop, server, disk, ListTypes, ServerTypes, FlowInv
<1>11. CASE WriteHeader
  BY <1>11
     DEF WriteHeader, NoFault, Fault, Goto, Fail, EndDownload, Stop, server, ListTypes,
         ServerTypes, FlowInv
<1>12. CASE AppendItem
  <2>1. Working
    BY <1>12 DEF AppendItem, Working, Places
  <2>2. Len(urls) \in 1..NumSets
    BY <2>1, WorkFacts
  <2> QED BY <1>12, <2>2 DEF AppendItem, server, ListTypes, FlowInv
<1>13. CASE AppendFails
  BY <1>13
     DEF AppendFails, Fault, Fail, EndDownload, Stop, server, disk, ListTypes, ServerTypes,
         FlowInv
<1>14. CASE CloseFile
  BY <1>14
     DEF CloseFile, NoFault, Fault, Fail, EndDownload, Stop, server, ListTypes, ServerTypes,
         FlowInv
<1>15. CASE ReadResponse
  <2>1. files["rsp"] \in FileSet
    BY DEF FileTypes, FileNames
  <2>2. urls' \in Seq(AllSets) /\ input' \in Seq(AllSets)
    BY <1>15, <2>1 DEF ReadResponse, FileSet
  <2>3. CASE files["rsp"].state = "closed"
    <3>1. files["rsp"].urls \in Whole
      BY <2>3 DEF FileInv
    <3>2. PICK s \in 1..sessions : files["rsp"].urls[1] = <<s, 1>>
      BY <3>1, WholeFacts
    <3>3. files["rsp"].urls[1][1] = s
      BY <3>2
    <3>4. session' \in {0, s}
      BY <1>15, <3>3 DEF ReadResponse
    <3> QED BY <1>15, <2>2, <3>2, <3>4 DEF ReadResponse, server, ListTypes, ServerTypes
  <2>4. CASE files["rsp"].state # "closed"
    <3>1. session' = 0
      BY <1>15, <2>4 DEF ReadResponse
    <3> QED BY <1>15, <2>2, <3>1 DEF ReadResponse, server, ListTypes, ServerTypes
  <2> QED BY <2>3, <2>4
<1>16. CASE SubmitVectorResponses
  <2>1. Working
    BY <1>16 DEF SubmitVectorResponses, Working, Places
  <2>2. Len(urls) \in 1..NumSets
    BY <2>1, WorkFacts
  <2> QED BY <1>16, <2>2 DEF SubmitVectorResponses, ListTypes, FlowInv
<1>17. CASE CheckTestResults
  BY <1>17
     DEF CheckTestResults, NoFault, Fault, Goto, Stop, server, disk, ListTypes, ServerTypes,
         FlowInv
<1>18. CASE ValidateTestSession
  BY <1>18 DEF ValidateTestSession, NoFault, Fault, Stop, disk, ListTypes, ServerTypes, FlowInv
<1>19. CASE FillIn
  BY <1>19 DEF FillIn, server, ListTypes, ServerTypes, FlowInv
<1>20. CASE Crash
  BY <1>20 DEF Crash, Stop, server, disk, ListTypes, ServerTypes, FlowInv
<1>21. CASE UNCHANGED vars
  BY <1>21 DEF vars, server, disk, ListTypes, ServerTypes, FlowInv
<1> QED
  BY <1>1, <1>2, <1>3, <1>4, <1>5, <1>6, <1>7, <1>8, <1>9, <1>10, <1>11, <1>12, <1>13, <1>14,
     <1>15, <1>16, <1>17, <1>18, <1>19, <1>20, <1>21
     DEF Next, Step

(* Only four steps write a file.                                           *)
LEMMA FilesChange == [Next]_vars => files' = files \/ WriteHeader \/ AppendItem \/ CloseFile \/ FillIn
  BY DEF Next, Step, vars, disk, Start, Register, RegisterFails, WriteSessionInfo, Retrieve,
     Fetch, PrintExpected, ReadRequest, DispatchVectorSet, LoadKat, AppendFails, ReadResponse,
     SubmitVectorResponses, CheckTestResults, ValidateTestSession, Crash

(* Every step keeps the types of the files.                                *)
LEMMA FileTypesStep == IInv /\ [Next]_vars => FileTypes'
  BY FilesChange, WriteHeaderEffect, AppendItemEffect, CloseFileEffect, FillInEffect DEF IInv, Types, FileTypes

(* Every step keeps every command in its places, and the count right.      *)
LEMMA FlowInvStep == IInv /\ [Next]_vars => FlowInv'
<1> SUFFICES ASSUME IInv, [Next]_vars PROVE FlowInv'
  OBVIOUS
<1> USE OfflineConstants DEF IInv, Types
<1>1. ASSUME NEW c \in Commands, Start(c) PROVE FlowInv'
  BY <1>1 DEF Start, server, FlowInv, Commands, Transfers, Writers, Downloads
<1>2. CASE Register
  <2>1. PICK n \in 0..NumSets : urls' = FirstSets(sessions + 1, n)
    BY <1>2 DEF Register
  <2>2. sessions + 1 \in 1..MaxSessions
    BY <1>2 DEF Register, FlowInv, ServerTypes
  <2>3. urls' # <<>> => 1 <= Len(urls')
    BY <2>1, <2>2, FirstSetsFacts
  <2> QED BY <1>2, <2>3 DEF Register, Goto, WorkOff, Fail, EndDownload, Stop, FlowInv, Transfers, Writers, Downloads
<1>3. CASE RegisterFails
  BY <1>3 DEF RegisterFails, Stop, EndDownload, server, FlowInv, Transfers, Writers, Downloads
<1>4. CASE WriteSessionInfo
  <2>1. urls # <<>> => 1 <= Len(urls)
    BY <1>4, WholeFacts DEF WriteSessionInfo, ListInv
  <2> QED BY <1>4, <2>1
          DEF WriteSessionInfo, Goto, WorkOff, Fail, EndDownload, Stop, server, FlowInv, Transfers, Writers, Downloads
<1>5. CASE Retrieve
  <2>1. PICK s \in infos : pc' = "stopped" \/ urls' = SetsOf(s)
    BY <1>5 DEF Retrieve, Stop
  <2>2. s \in 1..MaxSessions /\ NumSets \in 0..NumSets
    BY <2>1 DEF ServerTypes
  <2>3. Len(FirstSets(s, NumSets)) = NumSets
    BY <2>2, FirstSetsFacts
  <2>4. 1 <= NumSets
    OBVIOUS
  <2>5. ASSUME urls' = SetsOf(s) PROVE 1 <= Len(urls')
    <3>1. Len(urls') = NumSets
      BY <2>3, <2>5, Zenon DEF SetsOf
    <3> QED BY <2>4, <3>1
  <2>6. pc' = "stopped" \/ 1 <= Len(urls')
    BY <2>1, <2>5, Zenon
  <2> QED BY <1>5, <2>6 DEF Retrieve, Goto, Stop, server, FlowInv, Transfers, Writers, Downloads
<1>6. CASE Fetch
  BY <1>6 DEF Fetch, Goto, Fail, EndDownload, Stop, server, FlowInv, ListTypes, Transfers, Writers, Downloads
<1>7. CASE PrintExpected
  <2>1. Working
    BY <1>7 DEF PrintExpected, Working, Places
  <2>2. Len(urls) \in 1..NumSets /\ next \in 1..(NumSets + 1)
    BY <2>1, WorkFacts DEF ListTypes
  <2> QED BY <1>7, <2>2 DEF PrintExpected, Goto, Stop, server, FlowInv, Transfers
<1>8. CASE ReadRequest
  <2>1. pc' = "stopped" \/ (files["req"].state = "closed" /\ urls' = files["req"].urls)
    BY <1>8 DEF ReadRequest, Stop
  <2>2. pc' = "stopped" \/ 1 <= Len(urls')
    BY <2>1, WholeFacts DEF FileInv
  <2> QED BY <1>8, <2>2 DEF ReadRequest, Goto, Stop, server, FlowInv, Transfers, Writers, Downloads
<1>9. CASE DispatchVectorSet
  BY <1>9 DEF DispatchVectorSet, Goto, Stop, server, FlowInv, Transfers, Writers, Downloads
<1>10. CASE LoadKat
  BY <1>10 DEF LoadKat, Stop, server, FlowInv, Transfers, Writers, Downloads
<1>11. CASE WriteHeader
  <2>1. Working
    BY <1>11 DEF WriteHeader, Working, Places
  <2>2. 1 <= Len(urls)
    BY <2>1, WorkFacts
  <2> QED BY <1>11, <2>2 DEF WriteHeader, Fail, EndDownload, Goto, Stop, server, FlowInv, Transfers, Writers, Downloads
<1>12. CASE AppendItem
  <2>1. Items = Len(urls) /\ next \in 1..Len(urls)
    BY <1>12, OutFacts DEF AppendItem
  <2> QED BY <1>12, <2>1 DEF AppendItem, Goto, server, FlowInv, Transfers, Writers, Downloads
<1>13. CASE AppendFails
  BY <1>13 DEF AppendFails, Fail, EndDownload, Stop, server, FlowInv, Transfers, Writers, Downloads
<1>14. CASE CloseFile
  BY <1>14 DEF CloseFile, Fail, EndDownload, Stop, server, FlowInv, Transfers, Writers, Downloads
<1>15. CASE ReadResponse
  <2>1. pc' = "stopped" \/ (files["rsp"].state = "closed" /\ urls' = files["rsp"].urls)
    BY <1>15 DEF ReadResponse, Stop
  <2>2. pc' = "stopped" \/ 1 <= Len(urls')
    BY <2>1, WholeFacts DEF FileInv
  <2> QED BY <1>15, <2>2 DEF ReadResponse, Goto, Stop, server, FlowInv, Transfers, Writers, Downloads
<1>16. CASE SubmitVectorResponses
  <2>1. Working
    BY <1>16 DEF SubmitVectorResponses, Working, Places
  <2>2. Len(urls) \in 1..NumSets /\ next \in 1..(NumSets + 1)
    BY <2>1, WorkFacts DEF ListTypes
  <2> QED BY <1>16, <2>2 DEF SubmitVectorResponses, Goto, FlowInv
<1>17. CASE CheckTestResults
  BY <1>17 DEF CheckTestResults, Goto, Stop, server, FlowInv, Transfers, Writers, Downloads
<1>18. CASE ValidateTestSession
  BY <1>18 DEF ValidateTestSession, Stop, FlowInv, Transfers, Writers, Downloads
<1>19. CASE FillIn
  BY <1>19 DEF FillIn, server, FlowInv, Transfers, Writers, Downloads
<1>20. CASE Crash
  BY <1>20 DEF Crash, Stop, server, FlowInv, Transfers, Writers, Downloads
<1>21. CASE UNCHANGED vars
  BY <1>21 DEF vars, server, FlowInv, Transfers, Writers, Downloads
<1> QED
  BY <1>1, <1>2, <1>3, <1>4, <1>5, <1>6, <1>7, <1>8, <1>9, <1>10, <1>11, <1>12, <1>13, <1>14,
     <1>15, <1>16, <1>17, <1>18, <1>19, <1>20, <1>21
     DEF Next, Step

(* A step that keeps the process's list and what it was read from.         *)
LEMMA SameList ==
    ASSUME IInv, [Next]_vars, UNCHANGED <<cmd, session, urls, input, sessions, readable>>,
           pc \in Places, pc' \in Places, Working, pc' # "info",
           cmd = "process" => files'["req"] = files["req"], cmd = "upload" => files'["rsp"] = files["rsp"]
    PROVE  ListInv'
<1>1. Whole \subseteq Whole'
  BY WholeGrows DEF IInv, Types
<1>2. FirstSets(session, Known)' = FirstSets(session, Known)
  BY DEF FirstSets, Known
<1>3. ListOK
  BY DEF IInv, ListInv
<1>4. ListOK'
  BY <1>1, <1>2, <1>3 DEF ListOK
<1> QED BY <1>4 DEF ListInv

(* Every step keeps a process on the list of one session.                  *)
LEMMA ListInvStep == IInv /\ [Next]_vars => ListInv'
<1> SUFFICES ASSUME IInv, [Next]_vars PROVE ListInv'
  OBVIOUS
<1> USE OfflineConstants DEF IInv, Types
<1>1. ASSUME NEW c \in Commands, Start(c) PROVE ListInv'
  BY <1>1 DEF Start, Commands, Downloads, ListInv, Working
<1>2. CASE Register
  <2>1. PICK n \in 0..NumSets : urls' = FirstSets(sessions + 1, n) /\ readable' = [readable EXCEPT ![sessions + 1] = n]
    BY <1>2 DEF Register
  <2>2. /\ session' = sessions' /\ sessions' = sessions + 1 /\ sessions' \in 1..sessions'
        /\ cmd' = cmd /\ cmd \in {"download", "cert_req"} /\ sessions' \in 1..MaxSessions
    BY <1>2 DEF Register, FlowInv, ServerTypes
  <2>3. readable'[sessions'] = n /\ urls' = FirstSets(session', readable'[session'])
    BY <2>1, <2>2 DEF ServerTypes
  <2>4. CASE n = 0
    <3>1. urls' = <<>>
      BY <2>1, <2>2, <2>4, FirstSetsFacts
    <3>2. pc' \in {"stopped", "info"}
      BY <1>2, <3>1 DEF Register, Goto, WorkOff, Fail, EndDownload, Stop
    <3> QED BY <2>2, <2>3, <3>1, <3>2 DEF ListInv, Working
  <2>5. CASE n # 0
    <3>1. urls' \in Whole'
      BY <2>1, <2>2, <2>3, <2>5 DEF Whole
    <3>2. pc' = "info" => cmd = "download"
      BY <1>2 DEF Register, Goto, WorkOff, Fail, EndDownload, Stop
    <3>3. cmd' = "download" => FirstSets(session, Known)' = urls'
      BY <2>3 DEF Known, FirstSets
    <3> QED BY <2>2, <2>3, <3>1, <3>2, <3>3 DEF ListInv, ListOK
  <2> QED BY <2>4, <2>5
<1>3. CASE RegisterFails
  BY <1>3 DEF RegisterFails, EndDownload, Stop, ListInv, Working
<1>4. CASE WriteSessionInfo
  <2>1. UNCHANGED <<cmd, session, urls, sessions, readable>> /\ cmd = "download" /\ pc' \in {"stopped", "fetch"}
    BY <1>4 DEF WriteSessionInfo, WorkOff, Fail, EndDownload, Stop, Goto, server, FlowInv
  <2>2. pc' = "fetch" => urls \in Whole
    BY <1>4 DEF WriteSessionInfo, WorkOff, Fail, EndDownload, Stop, Goto, ListInv
  <2>3. session \in 1..sessions /\ urls = FirstSets(session, readable[session])
    BY <1>4 DEF WriteSessionInfo, ListInv
  <2>4. FirstSets(session, Known)' = urls'
    BY <2>1, <2>3 DEF Known, FirstSets
  <2> QED BY <2>1, <2>2, <2>3, <2>4, WholeGrows DEF ListInv, ListOK, Working
<1>5. CASE Retrieve
  <2>1. PICK s \in infos : session' = s /\ (pc' = "stopped" \/ urls' = SetsOf(s))
    BY <1>5 DEF Retrieve, Stop
  <2>2. /\ s \in 1..sessions' /\ cmd' = cmd /\ cmd \in {"resume", "expected", "print_expected"}
        /\ sessions' = sessions /\ readable' = readable /\ pc' # "info"
    BY <1>5, <2>1 DEF Retrieve, Goto, Stop, server, ServerTypes, FlowInv
  <2>3. SetsOf(s) \in Whole'
    BY <2>2 DEF Whole, SetsOf
  <2>4. FirstSets(session, Known)' = SetsOf(s)
    BY <2>1, <2>2 DEF Known, FirstSets, SetsOf
  <2> QED BY <2>1, <2>2, <2>3, <2>4 DEF ListInv, ListOK, Working
<1>6. CASE Fetch
  <2>1. UNCHANGED <<cmd, session, urls, input, sessions, readable, files>> /\ pc' \in Places \ {"info"} /\ Working
    BY <1>6 DEF Fetch, Goto, Fail, EndDownload, Stop, server, disk, Working, Places
  <2> QED BY <2>1, SameList DEF ProcessTypes
<1>7. CASE PrintExpected
  <2>1. UNCHANGED <<cmd, session, urls, input, sessions, readable, files>> /\ pc' \in Places \ {"info"} /\ Working
    BY <1>7 DEF PrintExpected, Goto, Stop, server, disk, Working, Places
  <2> QED BY <2>1, SameList DEF ProcessTypes
<1>8. CASE ReadRequest
  <2>1. CASE pc' = "stopped"
    BY <2>1 DEF ListInv, Working
  <2>2. CASE pc' # "stopped"
    <3>1. /\ files["req"].state = "closed" /\ files["req"].key = "vectorSetUrls"
          /\ urls' = files["req"].urls /\ input' = files["req"].body /\ files' = files /\ cmd' = "process"
      BY <1>8, <2>2 DEF ReadRequest, Stop, disk
    <3>2. urls' \in Whole /\ files["req"].body = files["req"].urls
      BY <3>1 DEF FileInv
    <3>3. urls' \in Whole'
      BY <3>2, WholeGrows
    <3>4. pc' = "dispatch"
      BY <1>8, <2>2 DEF ReadRequest, Stop, Goto
    <3> QED BY <3>1, <3>2, <3>3, <3>4 DEF ListInv, ListOK, Transfers, Downloads
  <2> QED BY <2>1, <2>2
<1>9. CASE DispatchVectorSet
  <2>1. UNCHANGED <<cmd, session, urls, input, sessions, readable, files>> /\ pc' \in Places \ {"info"} /\ Working
    BY <1>9 DEF DispatchVectorSet, Goto, Stop, server, disk, Working, Places
  <2> QED BY <2>1, SameList DEF ProcessTypes
<1>10. CASE LoadKat
  BY <1>10 DEF LoadKat, Stop, ListInv, Working
<1>11. CASE WriteHeader
  <2>1. UNCHANGED <<cmd, session, urls, input, sessions, readable>> /\ pc' \in Places \ {"info"} /\ Working
    BY <1>11 DEF WriteHeader, Goto, Fail, EndDownload, Stop, server, Working, Places
  <2>2. /\ cmd = "process" => files'["req"] = files["req"]
        /\ cmd # "upload"
    BY <1>11, OutFacts, WriteHeaderEffect DEF WriteHeader, FileNames, FlowInv, Writers, Downloads
  <2> QED BY <2>1, <2>2, SameList DEF ProcessTypes
<1>12. CASE AppendItem
  <2>1. UNCHANGED <<cmd, session, urls, input, sessions, readable>> /\ pc' \in Places \ {"info"} /\ Working
    BY <1>12 DEF AppendItem, Goto, server, Working, Places
  <2>2. /\ cmd = "process" => files'["req"] = files["req"]
        /\ cmd # "upload"
    BY <1>12, OutFacts, AppendItemEffect DEF AppendItem, FileNames, FlowInv, Writers, Downloads
  <2> QED BY <2>1, <2>2, SameList DEF ProcessTypes
<1>13. CASE AppendFails
  <2>1. UNCHANGED <<cmd, session, urls, input, sessions, readable, files>> /\ pc' \in Places \ {"info"} /\ Working
    BY <1>13 DEF AppendFails, Fail, EndDownload, Stop, server, disk, Working, Places
  <2> QED BY <2>1, SameList DEF ProcessTypes
<1>14. CASE CloseFile
  <2>1. UNCHANGED <<cmd, session, urls, input, sessions, readable>> /\ pc' \in Places \ {"info"} /\ Working
    BY <1>14 DEF CloseFile, Fail, EndDownload, Stop, server, Working, Places
  <2>2. /\ cmd = "process" => files'["req"] = files["req"]
        /\ cmd # "upload"
    BY <1>14, OutFacts, CloseFileEffect DEF CloseFile, FileNames, FlowInv, Writers, Downloads
  <2> QED BY <2>1, <2>2, SameList DEF ProcessTypes
<1>15. CASE ReadResponse
  <2>1. CASE pc' = "stopped"
    BY <2>1 DEF ListInv, Working
  <2>2. CASE pc' # "stopped"
    <3>1. /\ files["rsp"].state = "closed" /\ cmd' = "upload" /\ sessions' = sessions /\ files' = files
          /\ urls' = files["rsp"].urls /\ input' = files["rsp"].body /\ session' = files["rsp"].urls[1][1]
          /\ pc' = "submit"
      BY <1>15, <2>2 DEF ReadResponse, Stop, Goto, server, disk
    <3>2. urls' \in Whole
      BY <3>1 DEF FileInv
    <3>3. PICK s \in 1..sessions : urls'[1] = <<s, 1>>
      BY <3>2, WholeFacts
    <3>4. session' = s
      BY <3>1, <3>3
    <3>5. urls' \in Whole'
      BY <3>2, WholeGrows
    <3> QED BY <3>1, <3>3, <3>4, <3>5 DEF ListInv, ListOK, Transfers, Downloads
  <2> QED BY <2>1, <2>2
<1>16. CASE SubmitVectorResponses
  <2>1. UNCHANGED <<cmd, session, urls, input, sessions, readable, files>> /\ pc' \in Places \ {"info"} /\ Working
    BY <1>16 DEF SubmitVectorResponses, Goto, disk, Working, Places
  <2> QED BY <2>1, SameList DEF ProcessTypes
<1>17. CASE CheckTestResults
  <2>1. UNCHANGED <<cmd, session, urls, input, sessions, readable, files>> /\ pc' \in Places \ {"info"} /\ Working
    BY <1>17 DEF CheckTestResults, Goto, Stop, server, disk, Working, Places
  <2> QED BY <2>1, SameList DEF ProcessTypes
<1>18. CASE ValidateTestSession
  <2>1. UNCHANGED <<cmd, session, urls, input, sessions, readable, files>> /\ pc' \in Places \ {"info"} /\ Working
    BY <1>18 DEF ValidateTestSession, Stop, disk, Working, Places
  <2> QED BY <2>1, SameList DEF ProcessTypes
<1>19. CASE FillIn
  BY <1>19 DEF FillIn, ListInv, Working
<1>20. CASE Crash
  BY <1>20 DEF Crash, Stop, ListInv, Working
<1>21. CASE UNCHANGED vars
  <2>1. UNCHANGED <<cmd, session, urls, input, sessions, readable, files, pc>>
    BY <1>21 DEF vars, server, disk
  <2>2. UNCHANGED <<Whole, Working>> /\ FirstSets(session, Known)' = FirstSets(session, Known)
    BY <2>1 DEF Whole, Working, FirstSets, Known
  <2>3. FirstSets(session, readable[session])' = FirstSets(session, readable[session])
    BY <2>1 DEF FirstSets
  <2> QED BY <2>1, <2>2, <2>3 DEF ListInv, ListOK
<1> QED
  BY <1>1, <1>2, <1>3, <1>4, <1>5, <1>6, <1>7, <1>8, <1>9, <1>10, <1>11, <1>12, <1>13, <1>14,
     <1>15, <1>16, <1>17, <1>18, <1>19, <1>20, <1>21
     DEF Next, Step

(* A step that writes nothing.                                             *)
LEMMA SameProgress ==
    ASSUME IInv, UNCHANGED <<cmd, urls, next, files>>, Writing' => Writing
    PROVE  ProgressInv'
<1>1. OutFile' = OutFile /\ Header' = Header
  BY DEF OutFile, Header
<1> QED BY <1>1 DEF IInv, ProgressInv

(* Every step keeps the file that is being written a prefix of what it will be.*)
LEMMA ProgressInvStep == IInv /\ [Next]_vars => ProgressInv'
<1> SUFFICES ASSUME IInv, [Next]_vars PROVE ProgressInv'
  OBVIOUS
<1> USE OfflineConstants DEF IInv, Types
<1>1. ASSUME NEW c \in Commands, Start(c) PROVE ProgressInv'
  <2>1. next' = 1 /\ pc' \in {"register", "retrieve", "read"}
    BY <1>1 DEF Start, Commands, Downloads
  <2> QED BY <2>1 DEF ProgressInv, Writing
<1>2. CASE Register
  BY <1>2 DEF Register, Goto, WorkOff, Fail, EndDownload, Stop, FlowInv, ProgressInv, Writing
<1>3. CASE RegisterFails
  BY <1>3 DEF RegisterFails, EndDownload, Stop, ProgressInv, Writing
<1>4. CASE WriteSessionInfo
  BY <1>4 DEF WriteSessionInfo, Goto, WorkOff, Fail, EndDownload, Stop, FlowInv, ProgressInv, Writing
<1>5. CASE Retrieve
  BY <1>5 DEF Retrieve, Goto, Stop, FlowInv, ProgressInv, Writing
<1>6. CASE Fetch
  <2>1. UNCHANGED <<cmd, urls, next, files>> /\ (pc' \in {"stopped", "header"} \/ (pc' = "append" /\ Writing))
    BY <1>6 DEF Fetch, Goto, Fail, EndDownload, Stop, disk, Writing, Downloads, FlowInv, Transfers, ListTypes
  <2> QED BY <2>1, SameProgress DEF Writing
<1>7. CASE PrintExpected
  BY <1>7 DEF PrintExpected, Goto, Stop, ProgressInv, Writing
<1>8. CASE ReadRequest
  BY <1>8 DEF ReadRequest, Goto, Stop, FlowInv, ProgressInv, Writing
<1>9. CASE DispatchVectorSet
  <2>1. UNCHANGED <<cmd, urls, next, files>> /\ (pc' \in {"stopped", "header"} \/ (pc' = "append" /\ Writing))
    BY <1>9 DEF DispatchVectorSet, Goto, Stop, disk, Writing, FlowInv, ListTypes
  <2> QED BY <2>1, SameProgress DEF Writing
<1>10. CASE LoadKat
  BY <1>10 DEF LoadKat, Stop, ProgressInv, Writing
<1>11. CASE WriteHeader
  <2>1. CASE pc' = "stopped"
    BY <2>1 DEF ProgressInv, Writing
  <2>2. CASE pc' # "stopped"
    <3>1. next' = 1 /\ cmd' = cmd /\ urls' = urls /\ Working
      BY <1>11 DEF WriteHeader, FlowInv, Working, Places
    <3>2. OutFile' = OutFile /\ Header' = Header
      BY <3>1 DEF OutFile, Header
    <3>3. SubSeq(urls', 1, next' - 1) = <<>>
      BY <3>1, WorkFacts
    <3>4. files'[OutFile] = Header /\ Header = [Header EXCEPT !.body = <<>>]
      BY <1>11, <2>2, WriteHeaderEffect, OutFacts DEF WriteHeader
    <3> QED BY <3>2, <3>3, <3>4 DEF ProgressInv
  <2> QED BY <2>1, <2>2
<1>12. CASE AppendItem
  <2>1. next' - 1 = next /\ cmd' = cmd /\ urls' = urls
    BY <1>12 DEF AppendItem, ListTypes
  <2>2. OutFile' = OutFile /\ Header' = Header
    BY <2>1 DEF OutFile, Header
  <2> QED BY <1>12, <2>1, <2>2, AppendItemEffect DEF ProgressInv
<1>13. CASE AppendFails
  BY <1>13 DEF AppendFails, Fail, EndDownload, Stop, ProgressInv, Writing
<1>14. CASE CloseFile
  BY <1>14 DEF CloseFile, Fail, EndDownload, Stop, ProgressInv, Writing
<1>15. CASE ReadResponse
  BY <1>15 DEF ReadResponse, Goto, Stop, ProgressInv, Writing
<1>16. CASE SubmitVectorResponses
  BY <1>16 DEF SubmitVectorResponses, Goto, ProgressInv, Writing
<1>17. CASE CheckTestResults
  BY <1>17 DEF CheckTestResults, Goto, Stop, ProgressInv, Writing
<1>18. CASE ValidateTestSession
  BY <1>18 DEF ValidateTestSession, Stop, ProgressInv, Writing
<1>19. CASE FillIn
  BY <1>19 DEF FillIn, ProgressInv, Writing
<1>20. CASE Crash
  BY <1>20 DEF Crash, Stop, ProgressInv, Writing
<1>21. CASE UNCHANGED vars
  <2>1. UNCHANGED <<cmd, urls, next, files, pc>>
    BY <1>21 DEF vars, disk
  <2> QED BY <2>1, SameProgress DEF Writing
<1> QED
  BY <1>1, <1>2, <1>3, <1>4, <1>5, <1>6, <1>7, <1>8, <1>9, <1>10, <1>11, <1>12, <1>13, <1>14,
     <1>15, <1>16, <1>17, <1>18, <1>19, <1>20, <1>21
     DEF Next, Step

(* Every step keeps the files that parse whole.                            *)
LEMMA FileInvStep == IInv /\ [Next]_vars => FileInv'
<1> SUFFICES ASSUME IInv, [Next]_vars PROVE FileInv'
  OBVIOUS
<1> USE OfflineConstants DEF IInv, Types
<1>1. Whole \subseteq Whole' /\ 1..sessions \subseteq 1..sessions'
  BY WholeGrows
<1>2. CASE files' = files
  BY <1>1, <1>2 DEF FileInv
<1>3. CASE WriteHeader
  <2>1. /\ OutFile \in FileNames /\ \A g \in FileNames \ {OutFile} : files'[g] = files[g]
        /\ files' = files \/ files'[OutFile].state = "open"
    BY <1>3, WriteHeaderEffect, OutFacts DEF WriteHeader
  <2> QED BY <1>1, <1>2, <2>1 DEF FileInv, FileNames
<1>4. CASE AppendItem
  <2>1. /\ OutFile \in FileNames /\ \A g \in FileNames \ {OutFile} : files'[g] = files[g]
        /\ files'[OutFile].state = "open"
    BY <1>4, AppendItemEffect, OutFacts DEF AppendItem
  <2> QED BY <1>1, <2>1 DEF FileInv, FileNames
<1>5. CASE CloseFile
  <2>1. /\ OutFile \in FileNames /\ \A g \in FileNames \ {OutFile} : files'[g] = files[g]
        /\ \/ files' = files
           \/ /\ files'[OutFile].state = "closed" /\ files'[OutFile].body = urls
              /\ OutFile # "saved" => files'[OutFile].urls = urls
    BY <1>5, CloseFileEffect, OutFacts DEF CloseFile
  <2>2. Working
    BY <1>5 DEF CloseFile, Working, Places
  <2>3. urls \in Whole'
    BY <1>1, <2>2, WorkFacts
  <2>4. CASE OutFile = "req"
    <3>1. files'["rsp"] = files["rsp"] /\ files'["saved"] = files["saved"]
      BY <2>1, <2>4 DEF FileNames
    <3>2. files' = files \/ (files'["req"].body = urls /\ files'["req"].urls = urls)
      BY <2>1, <2>4
    <3> QED BY <1>1, <1>2, <2>3, <3>1, <3>2 DEF FileInv
  <2>5. CASE OutFile = "rsp"
    BY <1>1, <1>2, <2>1, <2>3, <2>5 DEF FileInv, FileNames
  <2>6. CASE OutFile = "saved"
    <3>1. cmd = "expected" /\ sessions' = sessions
      BY <1>5, <2>6, OutFacts DEF CloseFile, server
    <3>2. session \in 1..sessions /\ urls = SetsOf(session)
      BY <2>2, <3>1 DEF ListInv, ListOK, Transfers, Known, SetsOf
    <3>3. \E s \in 1..sessions' : urls = SetsOf(s)
      BY <3>1, <3>2
    <3>4. files'["rsp"] = files["rsp"] /\ files'["req"] = files["req"]
      BY <2>1, <2>6 DEF FileNames
    <3>5. files' = files \/ files'["saved"].body = urls
      BY <2>1, <2>6
    <3> QED BY <1>1, <1>2, <3>3, <3>4, <3>5 DEF FileInv
  <2> QED BY <2>1, <2>4, <2>5, <2>6 DEF FileNames
<1>6. CASE FillIn
  BY <1>1, <1>6, FillInEffect DEF FileInv
<1> QED BY <1>2, <1>3, <1>4, <1>5, <1>6, FilesChange

(* Every step keeps the verdict of an upload backed by the server's answers.*)
LEMMA PassInvStep == IInv /\ [Next]_vars => PassInv'
<1> SUFFICES ASSUME IInv, [Next]_vars PROVE PassInv'
  OBVIOUS
<1> USE OfflineConstants DEF IInv, Types
<1>1. ASSUME NEW c \in Commands, Start(c) PROVE PassInv'
  BY <1>1 DEF Start, server, PassInv, FlowInv, MayPass
<1>2. CASE Register
  BY <1>2 DEF Register, Goto, WorkOff, Fail, EndDownload, Stop, PassInv, FlowInv, MayPass
<1>3. CASE RegisterFails
  BY <1>3 DEF RegisterFails, Stop, EndDownload, server, PassInv, FlowInv, MayPass
<1>4. CASE WriteSessionInfo
  BY <1>4 DEF WriteSessionInfo, Goto, WorkOff, Fail, EndDownload, Stop, server, PassInv, FlowInv, MayPass
<1>5. CASE Retrieve
  BY <1>5 DEF Retrieve, Goto, Stop, server, PassInv, FlowInv, MayPass
<1>6. CASE Fetch
  BY <1>6 DEF Fetch, Goto, Fail, EndDownload, Stop, server, PassInv, FlowInv, MayPass
<1>7. CASE PrintExpected
  BY <1>7 DEF PrintExpected, Goto, Stop, server, PassInv, FlowInv, MayPass
<1>8. CASE ReadRequest
  BY <1>8 DEF ReadRequest, Goto, Stop, server, PassInv, FlowInv, MayPass
<1>9. CASE DispatchVectorSet
  BY <1>9 DEF DispatchVectorSet, Goto, Stop, server, PassInv, FlowInv, MayPass
<1>10. CASE LoadKat
  BY <1>10 DEF LoadKat, Stop, server, PassInv, FlowInv, MayPass
<1>11. CASE WriteHeader
  BY <1>11 DEF WriteHeader, Goto, Fail, EndDownload, Stop, server, PassInv, FlowInv, MayPass
<1>12. CASE AppendItem
  BY <1>12 DEF AppendItem, Goto, Items, server, PassInv, FlowInv, MayPass
<1>13. CASE AppendFails
  BY <1>13 DEF AppendFails, Fail, EndDownload, Stop, server, PassInv, FlowInv, MayPass
<1>14. CASE CloseFile
  BY <1>14 DEF CloseFile, Fail, EndDownload, Stop, server, PassInv, FlowInv, MayPass
<1>15. CASE ReadResponse
  BY <1>15 DEF ReadResponse, Goto, Stop, server, PassInv, FlowInv, MayPass
<1>16. CASE SubmitVectorResponses
  BY <1>16 DEF SubmitVectorResponses, Goto, ElementFor, PassInv, FlowInv, MayPass
<1>17. CASE CheckTestResults
  <2>1. UNCHANGED <<submitted, session>> /\ ~passed
    BY <1>17 DEF CheckTestResults, server, PassInv
  <2>2. MayPass(session)' <=> MayPass(session)
    BY <2>1 DEF MayPass
  <2>3. pc' \in {"validate", "stopped"}
    BY <1>17 DEF CheckTestResults, Goto, Stop
  <2>4. passed' => MayPass(session)
    BY <1>17, <2>1, Zenon DEF CheckTestResults
  <2> QED BY <2>2, <2>3, <2>4 DEF PassInv
<1>18. CASE ValidateTestSession
  BY <1>18 DEF ValidateTestSession, Stop, PassInv, FlowInv, MayPass
<1>19. CASE FillIn
  BY <1>19 DEF FillIn, server, PassInv, FlowInv, MayPass
<1>20. CASE Crash
  BY <1>20 DEF Crash, Stop, server, PassInv, FlowInv, MayPass
<1>21. CASE UNCHANGED vars
  BY <1>21 DEF vars, server, PassInv, FlowInv, MayPass
<1> QED
  BY <1>1, <1>2, <1>3, <1>4, <1>5, <1>6, <1>7, <1>8, <1>9, <1>10, <1>11, <1>12, <1>13, <1>14,
     <1>15, <1>16, <1>17, <1>18, <1>19, <1>20, <1>21
     DEF Next, Step

(* Every step keeps the reports of success true.                           *)
LEMMA SavedStep == IInv /\ [Next]_vars => SuccessMeansSaved'
<1> SUFFICES ASSUME IInv, [Next]_vars PROVE SuccessMeansSaved'
  OBVIOUS
<1> USE OfflineConstants DEF IInv, Types
<1>1. ASSUME NEW c \in Commands, Start(c) PROVE SuccessMeansSaved'
  BY <1>1
     DEF Start, server, disk, SuccessMeansSaved, DownloadSuccessMeansSaved,
         ProcessSuccessMeansAnswered, FlowInv
<1>2. CASE Register
  BY <1>2
     DEF Register, Goto, WorkOff, Fail, EndDownload, Stop, disk, SuccessMeansSaved, DownloadSuccessMeansSaved,
         ProcessSuccessMeansAnswered, FlowInv
<1>3. CASE RegisterFails
  BY <1>3
     DEF RegisterFails, Stop, EndDownload, server, disk, SuccessMeansSaved,
         DownloadSuccessMeansSaved, ProcessSuccessMeansAnswered, FlowInv
<1>4. CASE WriteSessionInfo
  BY <1>4
     DEF WriteSessionInfo, Goto, WorkOff, Fail, EndDownload, Stop, server, SuccessMeansSaved, DownloadSuccessMeansSaved,
         ProcessSuccessMeansAnswered, FlowInv
<1>5. CASE Retrieve
  BY <1>5
     DEF Retrieve, Goto, Stop, server, disk, SuccessMeansSaved, DownloadSuccessMeansSaved,
         ProcessSuccessMeansAnswered, FlowInv
<1>6. CASE Fetch
  BY <1>6
     DEF Fetch, Goto, Fail, EndDownload, Stop, server, disk, SuccessMeansSaved,
         DownloadSuccessMeansSaved, ProcessSuccessMeansAnswered, FlowInv
<1>7. CASE PrintExpected
  BY <1>7
     DEF PrintExpected, Goto, Stop, server, disk, SuccessMeansSaved,
         DownloadSuccessMeansSaved, ProcessSuccessMeansAnswered, FlowInv
<1>8. CASE ReadRequest
  <2>1. cmd' = "process" /\ files' = files
    BY <1>8 DEF ReadRequest, disk
  <2>2. CASE files["req"].state = "closed" /\ files["req"].key = "vectorSetUrls"
    <3>1. files["req"].urls # <<>> /\ files["req"].body # <<>>
      BY <2>2, WholeFacts DEF FileInv
    <3>2. pc' = "dispatch"
      BY <1>8, <2>2, <3>1 DEF ReadRequest, Goto
    <3> QED BY <3>2 DEF SuccessMeansSaved, DownloadSuccessMeansSaved, ProcessSuccessMeansAnswered
  <2> QED BY <2>1, <2>2 DEF SuccessMeansSaved, DownloadSuccessMeansSaved, ProcessSuccessMeansAnswered
<1>9. CASE DispatchVectorSet
  <2>1. Working
    BY <1>9 DEF DispatchVectorSet, Working, Places
  <2>2. next <= Len(urls)
    BY <1>9, <2>1, WorkFacts DEF DispatchVectorSet, FlowInv
  <2>3. ~(pc' = "stopped" /\ rv' = "AMVP_SUCCESS")
    BY <1>9, <2>2 DEF DispatchVectorSet, Goto, Stop, ListTypes
  <2> QED BY <2>3 DEF SuccessMeansSaved, DownloadSuccessMeansSaved, ProcessSuccessMeansAnswered
<1>10. CASE LoadKat
  BY <1>10
     DEF LoadKat, Stop, server, disk, SuccessMeansSaved, DownloadSuccessMeansSaved,
         ProcessSuccessMeansAnswered, FlowInv
<1>11. CASE WriteHeader
  BY <1>11
     DEF WriteHeader, Goto, Fail, EndDownload, Stop, OutFile, Header, server,
         SuccessMeansSaved, DownloadSuccessMeansSaved, ProcessSuccessMeansAnswered, FlowInv
<1>12. CASE AppendItem
  BY <1>12
     DEF AppendItem, Goto, OutFile, Item, Items, server, SuccessMeansSaved,
         DownloadSuccessMeansSaved, ProcessSuccessMeansAnswered, FlowInv
<1>13. CASE AppendFails
  BY <1>13
     DEF AppendFails, Fail, EndDownload, Stop, server, disk, SuccessMeansSaved,
         DownloadSuccessMeansSaved, ProcessSuccessMeansAnswered, FlowInv
<1>14. CASE CloseFile
  <2>1. Working
    BY <1>14 DEF CloseFile, Working, Places
  <2>2. cmd' = cmd /\ session' = session /\ readable' = readable
    BY <1>14 DEF CloseFile, server
  <2>3. ASSUME rv' = "AMVP_SUCCESS", cmd \in {"download", "resume"}
        PROVE  files'["req"].state = "closed" /\ files'["req"].body = FirstSets(session, Known)
    <3>1. urls = FirstSets(session, Known)
      BY <2>1, <2>3 DEF ListInv, ListOK, Transfers, Downloads
    <3> QED BY <1>14, <2>3, <3>1, CloseFileEffect, OutFacts DEF CloseFile, Downloads
  <2>4. ASSUME rv' = "AMVP_SUCCESS", cmd = "process"
        PROVE  files'["rsp"].state = "closed" /\ files'["rsp"].body = files'["req"].body
    <3>1. files["req"].body = urls
      BY <2>1, <2>4 DEF ListInv, ListOK
    <3>2. OutFile = "rsp"
      BY <1>14, <2>4, OutFacts DEF CloseFile
    <3>3. files'["req"] = files["req"]
      BY <1>14, <3>2, CloseFileEffect DEF FileNames
    <3> QED BY <1>14, <2>4, <3>1, <3>2, <3>3, CloseFileEffect
  <2>5. cmd \in {"download", "resume"} =>
          FirstSets(session, Known) = FirstSets(session', IF cmd' = "resume" THEN NumSets ELSE readable'[session'])
    BY <2>2 DEF Known
  <2> QED BY <2>2, <2>3, <2>4, <2>5 DEF SuccessMeansSaved, DownloadSuccessMeansSaved, ProcessSuccessMeansAnswered
<1>15. CASE ReadResponse
  BY <1>15
     DEF ReadResponse, Goto, Stop, server, disk, SuccessMeansSaved, DownloadSuccessMeansSaved,
         ProcessSuccessMeansAnswered, FlowInv
<1>16. CASE SubmitVectorResponses
  BY <1>16
     DEF SubmitVectorResponses, Goto, disk, SuccessMeansSaved, DownloadSuccessMeansSaved,
         ProcessSuccessMeansAnswered, FlowInv
<1>17. CASE CheckTestResults
  BY <1>17
     DEF CheckTestResults, Goto, Stop, server, disk, SuccessMeansSaved,
         DownloadSuccessMeansSaved, ProcessSuccessMeansAnswered, FlowInv
<1>18. CASE ValidateTestSession
  BY <1>18
     DEF ValidateTestSession, Stop, disk, SuccessMeansSaved, DownloadSuccessMeansSaved,
         ProcessSuccessMeansAnswered, FlowInv
<1>19. CASE FillIn
  BY <1>19
     DEF FillIn, server, SuccessMeansSaved, DownloadSuccessMeansSaved,
         ProcessSuccessMeansAnswered, FlowInv
<1>20. CASE Crash
  BY <1>20
     DEF Crash, Stop, server, disk, SuccessMeansSaved, DownloadSuccessMeansSaved,
         ProcessSuccessMeansAnswered, FlowInv
<1>21. CASE UNCHANGED vars
  BY <1>21
     DEF vars, server, disk, SuccessMeansSaved, DownloadSuccessMeansSaved,
         ProcessSuccessMeansAnswered, FlowInv
<1> QED
  BY <1>1, <1>2, <1>3, <1>4, <1>5, <1>6, <1>7, <1>8, <1>9, <1>10, <1>11, <1>12, <1>13, <1>14,
     <1>15, <1>16, <1>17, <1>18, <1>19, <1>20, <1>21
     DEF Next, Step

-----------------------------------------------------------------------------
LEMMA InitIInv == Init => IInv
<1> SUFFICES ASSUME Init PROVE IInv
  OBVIOUS
<1> USE OfflineConstants DEF Init
<1>1. ServerTypes
  BY DEF ServerTypes
<1>2. ProcessTypes /\ ListTypes
  BY DEF ProcessTypes, ListTypes, Places
<1>7. FlagTypes
  BY Zenon DEF FlagTypes
<1>3. FileTypes
  BY DEF FileTypes, FileNames, FileSet, NoFile, File, Keys
<1>4. FlowInv /\ ListInv /\ ProgressInv /\ PassInv
  BY DEF FlowInv, ListInv, Working, ProgressInv, Writing, PassInv
<1>5. FileInv
  BY DEF FileInv, NoFile, File
<1>6. SuccessMeansSaved
  BY DEF SuccessMeansSaved, DownloadSuccessMeansSaved, ProcessSuccessMeansAnswered
<1> QED BY <1>1, <1>2, <1>3, <1>4, <1>5, <1>6, <1>7 DEF IInv, Types

LEMMA Invariance == Spec => []IInv
<1>1. IInv /\ [Next]_vars => IInv'
  BY ServerTypesStep, ProcessTypesStep, FlagTypesStep, ListTypesStep, FileTypesStep, FlowInvStep, ListInvStep,
     ProgressInvStep, FileInvStep, PassInvStep, SavedStep DEF IInv, Types
<1> QED BY <1>1, InitIInv, PTL DEF Spec

(* What the variables hold, in every reachable state.                      *)
THEOREM TypeCorrect == Spec => []TypeOK
<1>1. IInv => TypeOK
  <2> SUFFICES ASSUME IInv PROVE TypeOK
    OBVIOUS
  <2>1. DOMAIN files = {"req", "rsp", "saved"}
    BY DEF IInv, Types, FileTypes, FileNames
  <2>2. \A f \in DOMAIN files :
          /\ files[f].state \in {"none", "open", "closed"} /\ files[f].key \in Keys
          /\ files[f].urls \in Seq(AllSets) /\ files[f].body \in Seq(AllSets)
    BY DEF IInv, Types, FileTypes, FileSet
  <2>3. sample \in BOOLEAN /\ fips \in BOOLEAN /\ passed \in BOOLEAN
    BY Zenon DEF IInv, Types, FlagTypes
  <2>4. pc \in Places
    BY DEF IInv, Types, ProcessTypes
  <2> QED BY <2>1, <2>2, <2>3, <2>4 DEF IInv, Types, ServerTypes, ProcessTypes, ListTypes, TypeOK, Places
<1> QED BY <1>1, Invariance, PTL

(* A file that parses is whole, for any number of sets, sessions, crashes  *)
(* and failed writes: the header of amvp_json_serialize_to_file_pretty_w() *)
(* and the elements behind it are those of one session, in their order.    *)
THEOREM WholeFiles == Spec => []FilesAreWhole
<1>1. IInv => FilesAreWhole
  <2> SUFFICES ASSUME IInv PROVE FilesAreWhole
    OBVIOUS
  <2>1. FileInv
    BY DEF IInv
  <2>2. \A u \in Whole : \E s \in 1..sessions : u \in ListsOf(s)
    BY DEF Whole, ListsOf, SetsOf
  <2> QED BY <2>1, <2>2 DEF FileInv, FilesAreWhole
<1> QED BY <1>1, Invariance, PTL

(* amvp_submit_vector_responses() pairs URLs and elements by position only *)
(* and still gives no set the answers of another one, as long as the user  *)
(* leaves out none but the last; and never those of another session.       *)
THEOREM AnswersInPlace == Spec => AnswersReachTheirSets
<1> DEFINE InPlace ==
      \A u \in AllSets : submitted'[u] # submitted[u] =>
          \/ submitted'[u] \in {EmptyAnswer, u}
          \/ HasGap(files.rsp) /\ submitted'[u][1] = u[1]
<1>1. IInv /\ [Next]_vars => [InPlace]_vars
  <2> SUFFICES ASSUME IInv, Next PROVE InPlace
    OBVIOUS
  <2>1. CASE SubmitVectorResponses
    <3>1. Working /\ cmd = "upload"
      BY <2>1 DEF SubmitVectorResponses, Working, Places, IInv, FlowInv
    <3>2. urls = files["rsp"].urls /\ input = files["rsp"].body /\ files["rsp"].state = "closed" /\ urls \in Whole
      BY <3>1 DEF IInv, ListInv, ListOK
    <3>3. /\ next \in 1..Len(urls) /\ input \in Seq(AllSets)
          /\ submitted \in [AllSets -> AllSets \cup {NoAnswer, EmptyAnswer}]
      BY <2>1, <3>1, WorkFacts, OfflineConstants DEF SubmitVectorResponses, IInv, Types, FlowInv, ListTypes, ServerTypes
    <3>4. urls[next] \in AllSets
      BY <3>1, <3>3, WorkFacts
    <3>5. submitted' \in {submitted, [submitted EXCEPT ![urls[next]] = ElementFor(next)]}
      BY <2>1 DEF SubmitVectorResponses
    <3>6. CASE next > Len(input)
      <4>1. ElementFor(next) = EmptyAnswer
        BY <3>3, <3>6 DEF ElementFor
      <4> QED BY <3>3, <3>4, <3>5, <4>1
    <3>7. CASE next <= Len(input)
      <4>1. ElementFor(next) = input[next] /\ next \in 1..Len(input)
        BY <3>3, <3>7 DEF ElementFor
      <4>2. PICK s \in 1..sessions : \A n \in 1..Len(urls) : urls[n] = <<s, n>>
        BY <3>2, WholeFacts DEF IInv, Types
      <4>3. PICK j \in 1..Len(urls) : input[next] = urls[j]
        BY <3>2, <4>1 DEF IInv, FileInv
      <4>4. input[next][1] = urls[next][1]
        BY <3>3, <4>2, <4>3
      <4>5. input[next] = urls[next] \/ HasGap(files.rsp)
        BY <3>2, <4>1 DEF HasGap
      <4> QED BY <3>3, <3>4, <3>5, <4>1, <4>4, <4>5
    <3> QED BY <3>3, <3>6, <3>7
  <2>2. CASE ~SubmitVectorResponses
    <3>1. submitted' = submitted
      BY <2>2 DEF Next, Step, server, Start, Register, RegisterFails, WriteSessionInfo,
         Retrieve, Fetch, PrintExpected, ReadRequest, DispatchVectorSet, LoadKat, WriteHeader,
         AppendItem, AppendFails, CloseFile, ReadResponse, CheckTestResults, ValidateTestSession,
         FillIn, Crash
    <3> QED BY <3>1
  <2> QED BY <2>1, <2>2
<1> QED BY <1>1, Invariance, PTL DEF Spec, AnswersReachTheirSets

(* AMVP_SUCCESS of a download of a session, or of                          *)
(* amvp_run_vectors_from_file() on a request file it can use, means that   *)
(* the file it writes is whole and is the one of this very run.            *)
THEOREM SavedSuccess == Spec => []SuccessMeansSaved
<1>1. IInv => SuccessMeansSaved
  BY DEF IInv
<1> QED BY <1>1, Invariance, PTL

(* amvp_validate_test_session() is only asked for a session whose answers  *)
(* the server has for every set.                                           *)
THEOREM UploadValidation == Spec => UploadValidatesOnlyAnswered
<1>1. IInv /\ [Next]_vars => [\A s \in validated' \ validated : MayPass(s)]_vars
  <2> SUFFICES ASSUME IInv, Next PROVE \A s \in validated' \ validated : MayPass(s)
    OBVIOUS
  <2>1. CASE ValidateTestSession
    <3>1. validated' = validated \/ (passed /\ validated' \in {validated, validated \cup {session}})
      BY <2>1 DEF ValidateTestSession
    <3>2. passed => MayPass(session)
      BY <2>1 DEF ValidateTestSession, IInv, PassInv
    <3> QED BY <3>1, <3>2
  <2>2. CASE ~ValidateTestSession
    <3>1. validated' = validated
      BY <2>2 DEF Next, Step, server, Start, Register, RegisterFails, WriteSessionInfo,
         Retrieve, Fetch, PrintExpected, ReadRequest, DispatchVectorSet, LoadKat, WriteHeader,
         AppendItem, AppendFails, CloseFile, ReadResponse, SubmitVectorResponses,
         CheckTestResults, FillIn, Crash
    <3> QED BY <3>1
  <2> QED BY <2>1, <2>2
<1> QED BY <1>1, Invariance, PTL DEF Spec, UploadValidatesOnlyAnswered
=============================================================================
