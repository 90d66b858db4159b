--------------------------- MODULE AmvpSessionProofs ---------------------------
(***************************************************************************)
(* Proofs about AmvpSession for any number of sets in any order, any        *)
(* commands, and any number of crashes and faults.                          *)
(***************************************************************************)
EXTENDS AmvpSession, TLAPS

(* The server has no answer to a set with one of these statuses.            *)
Open == {"unreceived", "expired"}

(* The server counts one answer for each set it is not waiting for, and     *)
(* has none before there is a session.                                      *)
StatusInv ==
    /\ ~registered => \A v \in Sets : status[v] = "unreceived"
    /\ \A v \in Sets : /\ status[v] \in Open => submissions[v] = 0
                       /\ status[v] \notin Open => submissions[v] = 1

(* While a list is worked off, what is on it is unanswered ...              *)
Listing == {"write", "writeEnd", "process", "submit"}

ListInv == pc \in Listing => \A v \in vsid_url_list : status[v] \in Open

(* ... and, for a run or a resume, nothing else that it knows of is; once   *)
(* the list is worked off, nothing is left.                                 *)
WorkedOff == \/ pc \in {"check", "validate", "rewrite", "rewriteEnd"}
             \/ pc = "stopped" /\ rv = "AMVP_SUCCESS"

AnswerInv ==
    command \in {"run", "resume"} =>
        /\ pc \in Listing => \A v \in Due \ vsid_url_list : status[v] \notin Open
        /\ WorkedOff => \A v \in Due : status[v] \notin Open

(* The verdict of the ctx is the server's, and lasts; only a certification  *)
(* request gets to a validation without it.                                 *)
PassInv ==
    /\ session_passed => \A v \in Sets : status[v] = "pass"
    /\ command \in Commands \cup {"none"}
    /\ "mod_cert_req" \notin Commands => ValidatedOnlyIfPassed

(* Which command gets where; the file is first written by a run, and        *)
(* rewritten after the validation.                                          *)
FlowInv ==
    /\ pc = "parse" => command \in {"resume", "get_results", "cancel"}
    /\ pc \in {"verify", "write", "writeEnd"} => command = "run"
    /\ pc = "register" => command \in {"run", "mod_cert_req"}
    /\ pc = "retrieve" => command = "resume"
    /\ pc = "delete" => command = "cancel"
    /\ pc = "cert_req" => command = "mod_cert_req"
    /\ pc \in {"process", "submit"} => command # "get_results"
    /\ pc \in {"validate", "rewrite", "rewriteEnd"} => command \in {"run", "resume"}

FileInv ==
    /\ ~registered => file = "none"
    /\ command = "run" /\ pc \in {"login", "verify", "register", "write"} => file = "none"
    /\ command \in {"run", "mod_cert_req"} /\ pc \in {"login", "verify", "register"} => ~registered
    /\ pc \in {"write", "writeEnd"} => registered
    /\ pc = "writeEnd" => file = "torn"
    /\ pc \in {"rewrite", "rewriteEnd"} => validated /\ registered

(* The types, the flags apart from the rest.                                *)
Flags ==
    /\ registered \in BOOLEAN /\ validated \in BOOLEAN /\ deleted \in BOOLEAN
    /\ fips \in BOOLEAN
    /\ session_url \in BOOLEAN /\ session_passed \in BOOLEAN /\ session_file_path \in BOOLEAN

Values ==
    /\ status \in [Sets -> Statuses]
    /\ submissions \in [Sets -> Nat]
    /\ file \in {"none", "torn", "ok"}
    /\ pc \in {"stopped", "parse", "login", "verify", "register", "write", "writeEnd",
               "process", "submit", "check", "retrieve", "validate", "rewrite",
               "rewriteEnd", "cert_req", "delete"}
    /\ command \in AllCommands \cup {"none"}
    /\ vsid_url_list \in SUBSET Sets
    /\ failing \in SUBSET FailingSets /\ listed \in SUBSET Sets
    /\ crashes \in 0 .. MaxCrashes /\ faults \in 0 .. MaxFaults

IInv == TypeOK /\ StatusInv /\ ListInv /\ AnswerInv /\ PassInv /\ FlowInv /\ FileInv

(* Every step keeps the flags Boolean.                                       *)
LEMMA FlagsStep == IInv /\ [Next]_vars => Flags'
<1> SUFFICES ASSUME IInv, [Next]_vars PROVE Flags'
  OBVIOUS
<1> USE SessionConstants DEF IInv, TypeOK
<1>1. ASSUME NEW c \in Commands, Start(c) PROVE Flags'
  BY <1>1 DEF Start, Goto, server, ctx, Flags
<1>2. CASE ParseSessionInfoFile
  BY <1>2, ZenonT(60) DEF ParseSessionInfoFile, Stop, Goto, Fault, NoFault, server, ctx, Flags
<1>3. CASE Login
  BY <1>3, ZenonT(60) DEF Login, Stop, Goto, Fault, NoFault, server, ctx, Flags
<1>4. CASE VerifyMetadata
  BY <1>4, ZenonT(60) DEF VerifyMetadata, Stop, Goto, Fault, NoFault, server, ctx, Flags
<1>5. CASE Register
  BY <1>5, ZenonT(60) DEF Register, Stop, Goto, Fault, NoFault, server, ctx, Flags
<1>6. CASE WriteSessionInfo
  BY <1>6, ZenonT(60) DEF WriteSessionInfo, Stop, Goto, Fault, NoFault, server, ctx, Flags
<1>7. CASE EndSessionInfo
  BY <1>7, ZenonT(60) DEF EndSessionInfo, Stop, Goto, Fault, NoFault, server, ctx, Flags
<1>8. CASE ProcessSet
  BY <1>8, ZenonT(60)
     DEF ProcessSet, Stop, Goto, Fault, NoFault, ProcessFails, Known, server, ctx, Flags
<1>9. CASE SubmitAnswer
  BY <1>9, ZenonT(60)
     DEF SubmitAnswer, Stop, Goto, Fault, NoFault, ProcessFails, Known, Accept, Advance,
         server, ctx, Flags
<1>10. CASE CheckTestResults
  BY <1>10, ZenonT(60)
     DEF CheckTestResults, Stop, Goto, Fault, NoFault, AfterCheck, SomeSet, Known, server,
         ctx, Flags
<1>11. CASE Retrieve
  BY <1>11, ZenonT(60)
     DEF Retrieve, Stop, Goto, Fault, NoFault, Unanswered, SomeSet, Known, server, ctx, Flags
<1>12. CASE ValidateTestSession
  BY <1>12, ZenonT(60)
     DEF ValidateTestSession, Stop, Goto, Fault, NoFault, PutValidation, Known, server, ctx,
         Flags
<1>13. CASE RewriteSessionInfo
  BY <1>13, ZenonT(60) DEF RewriteSessionInfo, Stop, Goto, Fault, NoFault, server, ctx, Flags
<1>14. CASE EndRewrite
  BY <1>14, ZenonT(60) DEF EndRewrite, Stop, Goto, Fault, NoFault, server, ctx, Flags
<1>15. CASE CertReq
  BY <1>15, ZenonT(60)
     DEF CertReq, Stop, Goto, Fault, NoFault, PutValidation, Known, server, ctx, Flags
<1>16. CASE CancelTestSession
  BY <1>16, ZenonT(60)
     DEF CancelTestSession, Stop, Goto, Fault, NoFault, Known, server, ctx, Flags
<1>17. CASE Crash
  BY <1>17, ZenonT(60) DEF Crash, Stop, Goto, Fault, NoFault, server, ctx, Flags
<1>18. ASSUME NEW v \in Sets, Evaluate(v) PROVE Flags'
  BY <1>18 DEF Evaluate, ctx, Flags
<1>19. ASSUME NEW v \in Sets, Expire(v) PROVE Flags'
  BY <1>19 DEF Expire, ctx, Flags
<1>20. CASE UNCHANGED vars
  BY <1>20 DEF vars, server, ctx, Flags
<1> QED
  BY <1>1, <1>2, <1>3, <1>4, <1>5, <1>6, <1>7, <1>8, <1>9, <1>10, <1>11, <1>12, <1>13, <1>14,
     <1>15, <1>16, <1>17, <1>18, <1>19, <1>20
     DEF Next, ClientStep

(* Every step keeps the other types.                                         *)
LEMMA ValuesStep == IInv /\ [Next]_vars => Values'
<1> SUFFICES ASSUME IInv, [Next]_vars PROVE Values'
  OBVIOUS
<1> USE SessionConstants DEF IInv, TypeOK
<1>1. ASSUME NEW c \in Commands, Start(c) PROVE Values'
  BY <1>1 DEF Start, Goto, server, ctx, Values, AnyError, AllCommands, Statuses
<1>2. CASE ParseSessionInfoFile
  BY <1>2
     DEF ParseSessionInfoFile, Stop, Goto, Fault, NoFault, server, ctx, Values, AnyError,
         AllCommands, Statuses
<1>3. CASE Login
  BY <1>3
     DEF Login, Stop, Goto, Fault, NoFault, server, ctx, Values, AnyError, AllCommands,
         Statuses
<1>4. CASE VerifyMetadata
  BY <1>4
     DEF VerifyMetadata, Stop, Goto, Fault, NoFault, server, ctx, Values, AnyError,
         AllCommands, Statuses
<1>5. CASE Register
  <2>1. pc' \in {"write", "process", "stopped", "check"}
    BY <1>5, ZenonT(30) DEF Register, Stop, Goto
  <2>2. vsid_url_list' \in SUBSET Sets /\ listed' \in SUBSET Sets
    BY <1>5 DEF Register, Before
  <2>3. faults' = faults \/ Fault
    BY <1>5, Zenon DEF Register, NoFault
  <2>4. UNCHANGED <<status, submissions, file, command, failing, crashes>>
    BY <1>5 DEF Register
  <2> QED
    BY <2>1, <2>2, <2>3, <2>4 DEF Values, Statuses, Fault
<1>6. CASE WriteSessionInfo
  BY <1>6
     DEF WriteSessionInfo, Stop, Goto, Fault, NoFault, server, ctx, Values, AnyError,
         AllCommands, Statuses
<1>7. CASE EndSessionInfo
  BY <1>7
     DEF EndSessionInfo, Stop, Goto, Fault, NoFault, server, ctx, Values, AnyError,
         AllCommands, Statuses
<1>8. CASE ProcessSet
  BY <1>8
     DEF ProcessSet, Stop, Goto, Fault, NoFault, ProcessFails, Known, server, ctx, Values,
         AnyError, AllCommands, Statuses
<1>9. CASE SubmitAnswer
  BY <1>9
     DEF SubmitAnswer, Stop, Goto, Fault, NoFault, ProcessFails, Known, Accept, Advance,
         server, ctx, Values, AnyError, AllCommands, Statuses
<1>10. CASE CheckTestResults
  BY <1>10
     DEF CheckTestResults, Stop, Goto, Fault, NoFault, AfterCheck, SomeSet, Known, server,
         ctx, Values, AnyError, AllCommands, Statuses
<1>11. CASE Retrieve
  BY <1>11
     DEF Retrieve, Stop, Goto, Fault, NoFault, Unanswered, SomeSet, Known, server, ctx,
         Values, AnyError, AllCommands, Statuses
<1>12. CASE ValidateTestSession
  BY <1>12
     DEF ValidateTestSession, Stop, Goto, Fault, NoFault, PutValidation, Known, server, ctx,
         Values, AnyError, AllCommands, Statuses
<1>13. CASE RewriteSessionInfo
  BY <1>13
     DEF RewriteSessionInfo, Stop, Goto, Fault, NoFault, server, ctx, Values, AnyError,
         AllCommands, Statuses
<1>14. CASE EndRewrite
  BY <1>14
     DEF EndRewrite, Stop, Goto, Fault, NoFault, server, ctx, Values, AnyError, AllCommands,
         Statuses
<1>15. CASE CertReq
  BY <1>15
     DEF CertReq, Stop, Goto, Fault, NoFault, PutValidation, Known, server, ctx, Values,
         AnyError, AllCommands, Statuses
<1>16. CASE CancelTestSession
  BY <1>16
     DEF CancelTestSession, Stop, Goto, Fault, NoFault, Known, server, ctx, Values, AnyError,
         AllCommands, Statuses
<1>17. CASE Crash
  BY <1>17
     DEF Crash, Stop, Goto, Fault, NoFault, server, ctx, Values, AnyError, AllCommands,
         Statuses
<1>18. ASSUME NEW v \in Sets, Evaluate(v) PROVE Values'
  BY <1>18 DEF Evaluate, ctx, Values, AnyError, AllCommands, Statuses
<1>19. ASSUME NEW v \in Sets, Expire(v) PROVE Values'
  BY <1>19 DEF Expire, ctx, Values, AnyError, AllCommands, Statuses
<1>20. CASE UNCHANGED vars
  BY <1>20 DEF vars, server, ctx, Values, AnyError, AllCommands, Statuses
<1> QED
  BY <1>1, <1>2, <1>3, <1>4, <1>5, <1>6, <1>7, <1>8, <1>9, <1>10, <1>11, <1>12, <1>13, <1>14,
     <1>15, <1>16, <1>17, <1>18, <1>19, <1>20
     DEF Next, ClientStep

(* Every step keeps the count of answers.                                    *)
LEMMA StatusInvStep == IInv /\ [Next]_vars => StatusInv'
<1> SUFFICES ASSUME IInv, [Next]_vars PROVE StatusInv'
  OBVIOUS
<1> USE SessionConstants DEF IInv
<1>1. ASSUME NEW c \in Commands, Start(c) PROVE StatusInv'
  BY <1>1 DEF Start, Goto, server, ctx, StatusInv, Open, ListInv, Listing, TypeOK
<1>2. CASE ParseSessionInfoFile
  BY <1>2
     DEF ParseSessionInfoFile, Stop, Goto, Fault, NoFault, server, ctx, StatusInv, Open,
         ListInv, Listing, TypeOK
<1>3. CASE Login
  BY <1>3
     DEF Login, Stop, Goto, Fault, NoFault, server, ctx, StatusInv, Open, ListInv, Listing,
         TypeOK
<1>4. CASE VerifyMetadata
  BY <1>4
     DEF VerifyMetadata, Stop, Goto, Fault, NoFault, server, ctx, StatusInv, Open, ListInv,
         Listing, TypeOK
<1>5. CASE Register
  <2>1. UNCHANGED <<status, submissions>> /\ ~registered
    BY <1>5 DEF Register, FlowInv, FileInv
  <2> QED
    BY <2>1 DEF StatusInv
<1>6. CASE WriteSessionInfo
  BY <1>6
     DEF WriteSessionInfo, Stop, Goto, Fault, NoFault, server, ctx, StatusInv, Open, ListInv,
         Listing, TypeOK
<1>7. CASE EndSessionInfo
  BY <1>7
     DEF EndSessionInfo, Stop, Goto, Fault, NoFault, server, ctx, StatusInv, Open, ListInv,
         Listing, TypeOK
<1>8. CASE ProcessSet
  BY <1>8
     DEF ProcessSet, Stop, Goto, Fault, NoFault, ProcessFails, Known, server, ctx, StatusInv,
         Open, ListInv, Listing, TypeOK
<1>9. CASE SubmitAnswer
  BY <1>9
     DEF SubmitAnswer, Stop, Goto, Fault, NoFault, ProcessFails, Known, Accept, Advance,
         server, ctx, StatusInv, Open, ListInv, Listing, TypeOK
<1>10. CASE CheckTestResults
  BY <1>10
     DEF CheckTestResults, Stop, Goto, Fault, NoFault, AfterCheck, SomeSet, Known, server,
         ctx, StatusInv, Open, ListInv, Listing, TypeOK
<1>11. CASE Retrieve
  BY <1>11
     DEF Retrieve, Stop, Goto, Fault, NoFault, Unanswered, SomeSet, Known, server, ctx,
         StatusInv, Open, ListInv, Listing, TypeOK
<1>12. CASE ValidateTestSession
  BY <1>12
     DEF ValidateTestSession, Stop, Goto, Fault, NoFault, PutValidation, Known, server, ctx,
         StatusInv, Open, ListInv, Listing, TypeOK
<1>13. CASE RewriteSessionInfo
  BY <1>13
     DEF RewriteSessionInfo, Stop, Goto, Fault, NoFault, server, ctx, StatusInv, Open,
         ListInv, Listing, TypeOK
<1>14. CASE EndRewrite
  BY <1>14
     DEF EndRewrite, Stop, Goto, Fault, NoFault, server, ctx, StatusInv, Open, ListInv,
         Listing, TypeOK
<1>15. CASE CertReq
  BY <1>15
     DEF CertReq, Stop, Goto, Fault, NoFault, PutValidation, Known, server, ctx, StatusInv,
         Open, ListInv, Listing, TypeOK
<1>16. CASE CancelTestSession
  BY <1>16
     DEF CancelTestSession, Stop, Goto, Fault, NoFault, Known, server, ctx, StatusInv, Open,
         ListInv, Listing, TypeOK
<1>17. CASE Crash
  BY <1>17
     DEF Crash, Stop, Goto, Fault, NoFault, server, ctx, StatusInv, Open, ListInv, Listing,
         TypeOK
<1>18. ASSUME NEW v \in Sets, Evaluate(v) PROVE StatusInv'
  BY <1>18 DEF Evaluate, ctx, StatusInv, Open, ListInv, Listing, TypeOK
<1>19. ASSUME NEW v \in Sets, Expire(v) PROVE StatusInv'
  BY <1>19 DEF Expire, ctx, StatusInv, Open, ListInv, Listing, TypeOK
<1>20. CASE UNCHANGED vars
  BY <1>20 DEF vars, server, ctx, StatusInv, Open, ListInv, Listing, TypeOK
<1> QED
  BY <1>1, <1>2, <1>3, <1>4, <1>5, <1>6, <1>7, <1>8, <1>9, <1>10, <1>11, <1>12, <1>13, <1>14,
     <1>15, <1>16, <1>17, <1>18, <1>19, <1>20
     DEF Next, ClientStep

(* Every step keeps the list unanswered.                                     *)
LEMMA ListInvStep == IInv /\ [Next]_vars => ListInv'
<1> SUFFICES ASSUME IInv, [Next]_vars PROVE ListInv'
  OBVIOUS
<1> USE SessionConstants DEF IInv
<1>1. ASSUME NEW c \in Commands, Start(c) PROVE ListInv'
  BY <1>1
     DEF Start, Goto, server, ctx, ListInv, Listing, Open, StatusInv, FlowInv, FileInv, TypeOK
<1>2. CASE ParseSessionInfoFile
  BY <1>2
     DEF ParseSessionInfoFile, Stop, Goto, Fault, NoFault, server, ctx, ListInv, Listing,
         Open, StatusInv, FlowInv, FileInv, TypeOK
<1>3. CASE Login
  BY <1>3
     DEF Login, Stop, Goto, Fault, NoFault, server, ctx, ListInv, Listing, Open, StatusInv,
         FlowInv, FileInv, TypeOK
<1>4. CASE VerifyMetadata
  BY <1>4
     DEF VerifyMetadata, Stop, Goto, Fault, NoFault, server, ctx, ListInv, Listing, Open,
         StatusInv, FlowInv, FileInv, TypeOK
<1>5. CASE Register
  <2>1. status' = status /\ ~registered
    BY <1>5 DEF Register, FlowInv, FileInv
  <2>2. vsid_url_list' \in SUBSET Sets
    BY <1>5 DEF Register, Before, TypeOK
  <2> QED
    BY <2>1, <2>2 DEF ListInv, Open, StatusInv
<1>6. CASE WriteSessionInfo
  BY <1>6
     DEF WriteSessionInfo, Stop, Goto, Fault, NoFault, server, ctx, ListInv, Listing, Open,
         StatusInv, FlowInv, FileInv, TypeOK
<1>7. CASE EndSessionInfo
  BY <1>7
     DEF EndSessionInfo, Stop, Goto, Fault, NoFault, server, ctx, ListInv, Listing, Open,
         StatusInv, FlowInv, FileInv, TypeOK
<1>8. CASE ProcessSet
  BY <1>8
     DEF ProcessSet, Stop, Goto, Fault, NoFault, ProcessFails, Known, server, ctx, ListInv,
         Listing, Open, StatusInv, FlowInv, FileInv, TypeOK
<1>9. CASE SubmitAnswer
  BY <1>9
     DEF SubmitAnswer, Stop, Goto, Fault, NoFault, ProcessFails, Known, Accept, Advance,
         server, ctx, ListInv, Listing, Open, StatusInv, FlowInv, FileInv, TypeOK
<1>10. CASE CheckTestResults
  BY <1>10
     DEF CheckTestResults, Stop, Goto, Fault, NoFault, AfterCheck, SomeSet, Known, server,
         ctx, ListInv, Listing, Open, StatusInv, FlowInv, FileInv, TypeOK
<1>11. CASE Retrieve
  BY <1>11
     DEF Retrieve, Stop, Goto, Fault, NoFault, Unanswered, SomeSet, Known, server, ctx,
         ListInv, Listing, Open, StatusInv, FlowInv, FileInv, TypeOK
<1>12. CASE ValidateTestSession
  BY <1>12
     DEF ValidateTestSession, Stop, Goto, Fault, NoFault, PutValidation, Known, server, ctx,
         ListInv, Listing, Open, StatusInv, FlowInv, FileInv, TypeOK
<1>13. CASE RewriteSessionInfo
  BY <1>13
     DEF RewriteSessionInfo, Stop, Goto, Fault, NoFault, server, ctx, ListInv, Listing, Open,
         StatusInv, FlowInv, FileInv, TypeOK
<1>14. CASE EndRewrite
  BY <1>14
     DEF EndRewrite, Stop, Goto, Fault, NoFault, server, ctx, ListInv, Listing, Open,
         StatusInv, FlowInv, FileInv, TypeOK
<1>15. CASE CertReq
  BY <1>15
     DEF CertReq, Stop, Goto, Fault, NoFault, PutValidation, Known, server, ctx, ListInv,
         Listing, Open, StatusInv, FlowInv, FileInv, TypeOK
<1>16. CASE CancelTestSession
  BY <1>16
     DEF CancelTestSession, Stop, Goto, Fault, NoFault, Known, server, ctx, ListInv, Listing,
         Open, StatusInv, FlowInv, FileInv, TypeOK
<1>17. CASE Crash
  BY <1>17
     DEF Crash, Stop, Goto, Fault, NoFault, server, ctx, ListInv, Listing, Open, StatusInv,
         FlowInv, FileInv, TypeOK
<1>18. ASSUME NEW v \in Sets, Evaluate(v) PROVE ListInv'
  BY <1>18 DEF Evaluate, ctx, ListInv, Listing, Open, StatusInv, FlowInv, FileInv, TypeOK
<1>19. ASSUME NEW v \in Sets, Expire(v) PROVE ListInv'
  BY <1>19 DEF Expire, ctx, ListInv, Listing, Open, StatusInv, FlowInv, FileInv, TypeOK
<1>20. CASE UNCHANGED vars
  BY <1>20 DEF vars, server, ctx, ListInv, Listing, Open, StatusInv, FlowInv, FileInv, TypeOK
<1> QED
  BY <1>1, <1>2, <1>3, <1>4, <1>5, <1>6, <1>7, <1>8, <1>9, <1>10, <1>11, <1>12, <1>13, <1>14,
     <1>15, <1>16, <1>17, <1>18, <1>19, <1>20
     DEF Next, ClientStep

(* Every step keeps every other set answered.                                *)
LEMMA AnswerInvStep == IInv /\ [Next]_vars => AnswerInv'
<1> SUFFICES ASSUME IInv, [Next]_vars PROVE AnswerInv'
  OBVIOUS
<1> USE SessionConstants DEF IInv
<1>1. ASSUME NEW c \in Commands, Start(c) PROVE AnswerInv'
  BY <1>1
     DEF Start, Goto, server, ctx, AnswerInv, Due, Listing, WorkedOff, Open, AnyError, FlowInv,
         TypeOK
<1>2. CASE ParseSessionInfoFile
  BY <1>2
     DEF ParseSessionInfoFile, Stop, Goto, Fault, NoFault, server, ctx, AnswerInv, Due, Listing,
         WorkedOff, Open, AnyError, FlowInv, TypeOK
<1>3. CASE Login
  BY <1>3
     DEF Login, Stop, Goto, Fault, NoFault, server, ctx, AnswerInv, Due, Listing, WorkedOff, Open,
         AnyError, FlowInv, TypeOK
<1>4. CASE VerifyMetadata
  BY <1>4
     DEF VerifyMetadata, Stop, Goto, Fault, NoFault, server, ctx, AnswerInv, Due, Listing,
         WorkedOff, Open, AnyError, FlowInv, TypeOK
<1>5. CASE Register
  BY <1>5
     DEF Register, Stop, Goto, Fault, NoFault, server, ctx, AnswerInv, Due, Listing, WorkedOff,
         Open, AnyError, FlowInv, TypeOK
<1>6. CASE WriteSessionInfo
  BY <1>6
     DEF WriteSessionInfo, Stop, Goto, Fault, NoFault, server, ctx, AnswerInv, Due, Listing,
         WorkedOff, Open, AnyError, FlowInv, TypeOK
<1>7. CASE EndSessionInfo
  BY <1>7
     DEF EndSessionInfo, Stop, Goto, Fault, NoFault, server, ctx, AnswerInv, Due, Listing,
         WorkedOff, Open, AnyError, FlowInv, TypeOK
<1>8. CASE ProcessSet
  BY <1>8
     DEF ProcessSet, Stop, Goto, Fault, NoFault, ProcessFails, Known, server, ctx, AnswerInv, Due,
         Listing, WorkedOff, Open, AnyError, FlowInv, TypeOK
<1>9. CASE SubmitAnswer
  BY <1>9
     DEF SubmitAnswer, Stop, Goto, Fault, NoFault, ProcessFails, Known, Accept, Advance,
         server, ctx, AnswerInv, Due, Listing, WorkedOff, Open, AnyError, FlowInv, TypeOK
<1>10. CASE CheckTestResults
  BY <1>10
     DEF CheckTestResults, Stop, Goto, Fault, NoFault, AfterCheck, SomeSet, Known, server,
         ctx, AnswerInv, Due, Listing, WorkedOff, Open, AnyError, FlowInv, TypeOK
<1>11. CASE Retrieve
  BY <1>11
     DEF Retrieve, Stop, Goto, Fault, NoFault, Unanswered, Hopeless, SomeSet, Known, server, ctx,
         AnswerInv, Due, Listing, WorkedOff, Open, AnyError, FlowInv, TypeOK
<1>12. CASE ValidateTestSession
  BY <1>12
     DEF ValidateTestSession, Stop, Goto, Fault, NoFault, PutValidation, Known, server, ctx,
         AnswerInv, Due, Listing, WorkedOff, Open, AnyError, FlowInv, TypeOK
<1>13. CASE RewriteSessionInfo
  BY <1>13
     DEF RewriteSessionInfo, Stop, Goto, Fault, NoFault, server, ctx, AnswerInv, Due, Listing,
         WorkedOff, Open, AnyError, FlowInv, TypeOK
<1>14. CASE EndRewrite
  BY <1>14
     DEF EndRewrite, Stop, Goto, Fault, NoFault, server, ctx, AnswerInv, Due, Listing, WorkedOff,
         Open, AnyError, FlowInv, TypeOK
<1>15. CASE CertReq
  BY <1>15
     DEF CertReq, Stop, Goto, Fault, NoFault, PutValidation, Known, server, ctx, AnswerInv, Due,
         Listing, WorkedOff, Open, AnyError, FlowInv, TypeOK
<1>16. CASE CancelTestSession
  BY <1>16
     DEF CancelTestSession, Stop, Goto, Fault, NoFault, Known, server, ctx, AnswerInv, Due,
         Listing, WorkedOff, Open, AnyError, FlowInv, TypeOK
<1>17. CASE Crash
  BY <1>17
     DEF Crash, Stop, Goto, Fault, NoFault, server, ctx, AnswerInv, Due, Listing, WorkedOff, Open,
         AnyError, FlowInv, TypeOK
<1>18. ASSUME NEW v \in Sets, Evaluate(v) PROVE AnswerInv'
  BY <1>18 DEF Evaluate, ctx, AnswerInv, Due, Listing, WorkedOff, Open, AnyError, FlowInv, TypeOK
<1>19. ASSUME NEW v \in Sets, Expire(v) PROVE AnswerInv'
  BY <1>19 DEF Expire, ctx, AnswerInv, Due, Listing, WorkedOff, Open, AnyError, FlowInv, TypeOK
<1>20. CASE UNCHANGED vars
  BY <1>20 DEF vars, server, ctx, AnswerInv, Due, Listing, WorkedOff, Open, AnyError, FlowInv, TypeOK
<1> QED
  BY <1>1, <1>2, <1>3, <1>4, <1>5, <1>6, <1>7, <1>8, <1>9, <1>10, <1>11, <1>12, <1>13, <1>14,
     <1>15, <1>16, <1>17, <1>18, <1>19, <1>20
     DEF Next, ClientStep

(* Every step keeps the verdict.                                             *)
LEMMA PassInvStep == IInv /\ [Next]_vars => PassInv'
<1> SUFFICES ASSUME IInv, [Next]_vars PROVE PassInv'
  OBVIOUS
<1> USE SessionConstants DEF IInv
<1>1. ASSUME NEW c \in Commands, Start(c) PROVE PassInv'
  BY <1>1
     DEF Start, Goto, server, ctx, PassInv, ValidatedOnlyIfPassed, FlowInv, ListInv, Listing,
         Open, TypeOK
<1>2. CASE ParseSessionInfoFile
  BY <1>2
     DEF ParseSessionInfoFile, Stop, Goto, Fault, NoFault, server, ctx, PassInv,
         ValidatedOnlyIfPassed, FlowInv, ListInv, Listing, Open, TypeOK
<1>3. CASE Login
  BY <1>3
     DEF Login, Stop, Goto, Fault, NoFault, server, ctx, PassInv, ValidatedOnlyIfPassed,
         FlowInv, ListInv, Listing, Open, TypeOK
<1>4. CASE VerifyMetadata
  BY <1>4
     DEF VerifyMetadata, Stop, Goto, Fault, NoFault, server, ctx, PassInv,
         ValidatedOnlyIfPassed, FlowInv, ListInv, Listing, Open, TypeOK
<1>5. CASE Register
  BY <1>5
     DEF Register, Stop, Goto, Fault, NoFault, server, ctx, PassInv, ValidatedOnlyIfPassed,
         FlowInv, ListInv, Listing, Open, TypeOK
<1>6. CASE WriteSessionInfo
  BY <1>6
     DEF WriteSessionInfo, Stop, Goto, Fault, NoFault, server, ctx, PassInv,
         ValidatedOnlyIfPassed, FlowInv, ListInv, Listing, Open, TypeOK
<1>7. CASE EndSessionInfo
  BY <1>7
     DEF EndSessionInfo, Stop, Goto, Fault, NoFault, server, ctx, PassInv,
         ValidatedOnlyIfPassed, FlowInv, ListInv, Listing, Open, TypeOK
<1>8. CASE ProcessSet
  BY <1>8
     DEF ProcessSet, Stop, Goto, Fault, NoFault, ProcessFails, Known, server, ctx, PassInv,
         ValidatedOnlyIfPassed, FlowInv, ListInv, Listing, Open, TypeOK
<1>9. CASE SubmitAnswer
  BY <1>9
     DEF SubmitAnswer, Stop, Goto, Fault, NoFault, ProcessFails, Known, Accept, Advance,
         server, ctx, PassInv, ValidatedOnlyIfPassed, FlowInv, ListInv, Listing, Open, TypeOK
<1>10. CASE CheckTestResults
  <2>1. \/ session_passed' = session_passed
        \/ \A v \in Sets : status[v] \notin {"expired", "unreceived", "incomplete", "fail"}
    BY <1>10, Zenon DEF CheckTestResults, SomeSet
  <2>2. UNCHANGED <<status, validated, command>>
    BY <1>10 DEF CheckTestResults, server
  <2> QED
    BY <2>1, <2>2 DEF PassInv, ValidatedOnlyIfPassed, TypeOK, Statuses
<1>11. CASE Retrieve
  BY <1>11
     DEF Retrieve, Stop, Goto, Fault, NoFault, Unanswered, SomeSet, Known, server, ctx,
         PassInv, ValidatedOnlyIfPassed, FlowInv, ListInv, Listing, Open, TypeOK
<1>12. CASE ValidateTestSession
  BY <1>12
     DEF ValidateTestSession, Stop, Goto, Fault, NoFault, PutValidation, Known, server, ctx,
         PassInv, ValidatedOnlyIfPassed, FlowInv, ListInv, Listing, Open, TypeOK
<1>13. CASE RewriteSessionInfo
  BY <1>13
     DEF RewriteSessionInfo, Stop, Goto, Fault, NoFault, server, ctx, PassInv,
         ValidatedOnlyIfPassed, FlowInv, ListInv, Listing, Open, TypeOK
<1>14. CASE EndRewrite
  BY <1>14
     DEF EndRewrite, Stop, Goto, Fault, NoFault, server, ctx, PassInv, ValidatedOnlyIfPassed,
         FlowInv, ListInv, Listing, Open, TypeOK
<1>15. CASE CertReq
  BY <1>15
     DEF CertReq, Stop, Goto, Fault, NoFault, PutValidation, Known, server, ctx, PassInv,
         ValidatedOnlyIfPassed, FlowInv, ListInv, Listing, Open, TypeOK
<1>16. CASE CancelTestSession
  BY <1>16
     DEF CancelTestSession, Stop, Goto, Fault, NoFault, Known, server, ctx, PassInv,
         ValidatedOnlyIfPassed, FlowInv, ListInv, Listing, Open, TypeOK
<1>17. CASE Crash
  BY <1>17
     DEF Crash, Stop, Goto, Fault, NoFault, server, ctx, PassInv, ValidatedOnlyIfPassed,
         FlowInv, ListInv, Listing, Open, TypeOK
<1>18. ASSUME NEW v \in Sets, Evaluate(v) PROVE PassInv'
  BY <1>18
     DEF Evaluate, ctx, PassInv, ValidatedOnlyIfPassed, FlowInv, ListInv, Listing, Open,
         TypeOK
<1>19. ASSUME NEW v \in Sets, Expire(v) PROVE PassInv'
  BY <1>19
     DEF Expire, ctx, PassInv, ValidatedOnlyIfPassed, FlowInv, ListInv, Listing, Open, TypeOK
<1>20. CASE UNCHANGED vars
  BY <1>20
     DEF vars, server, ctx, PassInv, ValidatedOnlyIfPassed, FlowInv, ListInv, Listing, Open,
         TypeOK
<1> QED
  BY <1>1, <1>2, <1>3, <1>4, <1>5, <1>6, <1>7, <1>8, <1>9, <1>10, <1>11, <1>12, <1>13, <1>14,
     <1>15, <1>16, <1>17, <1>18, <1>19, <1>20
     DEF Next, ClientStep

(* Every step keeps the flow of the commands.                                *)
LEMMA FlowInvStep == IInv /\ [Next]_vars => FlowInv'
<1> SUFFICES ASSUME IInv, [Next]_vars PROVE FlowInv'
  OBVIOUS
<1> USE SessionConstants DEF IInv
<1>1. ASSUME NEW c \in Commands, Start(c) PROVE FlowInv'
  BY <1>1 DEF Start, Goto, server, ctx, FlowInv, AllCommands
<1>2. CASE ParseSessionInfoFile
  BY <1>2
     DEF ParseSessionInfoFile, Stop, Goto, Fault, NoFault, server, ctx, FlowInv, AllCommands
<1>3. CASE Login
  BY <1>3 DEF Login, Stop, Goto, Fault, NoFault, server, ctx, FlowInv, AllCommands
<1>4. CASE VerifyMetadata
  BY <1>4 DEF VerifyMetadata, Stop, Goto, Fault, NoFault, server, ctx, FlowInv, AllCommands
<1>5. CASE Register
  BY <1>5 DEF Register, Stop, Goto, Fault, NoFault, server, ctx, FlowInv, AllCommands
<1>6. CASE WriteSessionInfo
  BY <1>6 DEF WriteSessionInfo, Stop, Goto, Fault, NoFault, server, ctx, FlowInv, AllCommands
<1>7. CASE EndSessionInfo
  BY <1>7 DEF EndSessionInfo, Stop, Goto, Fault, NoFault, server, ctx, FlowInv, AllCommands
<1>8. CASE ProcessSet
  BY <1>8
     DEF ProcessSet, Stop, Goto, Fault, NoFault, ProcessFails, Known, server, ctx, FlowInv,
         AllCommands
<1>9. CASE SubmitAnswer
  BY <1>9
     DEF SubmitAnswer, Stop, Goto, Fault, NoFault, ProcessFails, Known, Accept, Advance,
         server, ctx, FlowInv, AllCommands
<1>10. CASE CheckTestResults
  BY <1>10
     DEF CheckTestResults, Stop, Goto, Fault, NoFault, AfterCheck, SomeSet, Known, server,
         ctx, FlowInv, AllCommands
<1>11. CASE Retrieve
  BY <1>11
     DEF Retrieve, Stop, Goto, Fault, NoFault, Unanswered, SomeSet, Known, server, ctx,
         FlowInv, AllCommands
<1>12. CASE ValidateTestSession
  BY <1>12
     DEF ValidateTestSession, Stop, Goto, Fault, NoFault, PutValidation, Known, server, ctx,
         FlowInv, AllCommands
<1>13. CASE RewriteSessionInfo
  BY <1>13 DEF RewriteSessionInfo, Stop, Goto, Fault, NoFault, server, ctx, FlowInv, AllCommands
<1>14. CASE EndRewrite
  BY <1>14 DEF EndRewrite, Stop, Goto, Fault, NoFault, server, ctx, FlowInv, AllCommands
<1>15. CASE CertReq
  BY <1>15
     DEF CertReq, Stop, Goto, Fault, NoFault, PutValidation, Known, server, ctx, FlowInv,
         AllCommands
<1>16. CASE CancelTestSession
  BY <1>16
     DEF CancelTestSession, Stop, Goto, Fault, NoFault, Known, server, ctx, FlowInv,
         AllCommands
<1>17. CASE Crash
  BY <1>17 DEF Crash, Stop, Goto, Fault, NoFault, server, ctx, FlowInv, AllCommands
<1>18. ASSUME NEW v \in Sets, Evaluate(v) PROVE FlowInv'
  BY <1>18 DEF Evaluate, ctx, FlowInv, AllCommands
<1>19. ASSUME NEW v \in Sets, Expire(v) PROVE FlowInv'
  BY <1>19 DEF Expire, ctx, FlowInv, AllCommands
<1>20. CASE UNCHANGED vars
  BY <1>20 DEF vars, server, ctx, FlowInv, AllCommands
<1> QED
  BY <1>1, <1>2, <1>3, <1>4, <1>5, <1>6, <1>7, <1>8, <1>9, <1>10, <1>11, <1>12, <1>13, <1>14,
     <1>15, <1>16, <1>17, <1>18, <1>19, <1>20
     DEF Next, ClientStep

(* Every step keeps the file.                                                *)
LEMMA FileInvStep == IInv /\ [Next]_vars => FileInv'
<1> SUFFICES ASSUME IInv, [Next]_vars PROVE FileInv'
  OBVIOUS
<1> USE SessionConstants DEF IInv
<1>1. ASSUME NEW c \in Commands, Start(c) PROVE FileInv'
  BY <1>1 DEF Start, Goto, server, ctx, FileInv, FlowInv, TypeOK
<1>2. CASE ParseSessionInfoFile
  BY <1>2
     DEF ParseSessionInfoFile, Stop, Goto, Fault, NoFault, server, ctx, FileInv, FlowInv,
         TypeOK
<1>3. CASE Login
  BY <1>3 DEF Login, Stop, Goto, Fault, NoFault, server, ctx, FileInv, FlowInv, TypeOK
<1>4. CASE VerifyMetadata
  BY <1>4 DEF VerifyMetadata, Stop, Goto, Fault, NoFault, server, ctx, FileInv, FlowInv, TypeOK
<1>5. CASE Register
  BY <1>5 DEF Register, Stop, Goto, Fault, NoFault, server, ctx, FileInv, FlowInv, TypeOK
<1>6. CASE WriteSessionInfo
  BY <1>6
     DEF WriteSessionInfo, Stop, Goto, Fault, NoFault, server, ctx, FileInv, FlowInv, TypeOK
<1>7. CASE EndSessionInfo
  BY <1>7 DEF EndSessionInfo, Stop, Goto, Fault, NoFault, server, ctx, FileInv, FlowInv, TypeOK
<1>8. CASE ProcessSet
  BY <1>8
     DEF ProcessSet, Stop, Goto, Fault, NoFault, ProcessFails, Known, server, ctx, FileInv,
         FlowInv, TypeOK
<1>9. CASE SubmitAnswer
  BY <1>9
     DEF SubmitAnswer, Stop, Goto, Fault, NoFault, ProcessFails, Known, Accept, Advance,
         server, ctx, FileInv, FlowInv, TypeOK
<1>10. CASE CheckTestResults
  BY <1>10
     DEF CheckTestResults, Stop, Goto, Fault, NoFault, AfterCheck, SomeSet, Known, server,
         ctx, FileInv, FlowInv, TypeOK
<1>11. CASE Retrieve
  BY <1>11
     DEF Retrieve, Stop, Goto, Fault, NoFault, Unanswered, SomeSet, Known, server, ctx,
         FileInv, FlowInv, TypeOK
<1>12. CASE ValidateTestSession
  BY <1>12
     DEF ValidateTestSession, Stop, Goto, Fault, NoFault, PutValidation, Known, server, ctx,
         FileInv, FlowInv, TypeOK
<1>13. CASE RewriteSessionInfo
  BY <1>13
     DEF RewriteSessionInfo, Stop, Goto, Fault, NoFault, server, ctx, FileInv, FlowInv, TypeOK
<1>14. CASE EndRewrite
  BY <1>14 DEF EndRewrite, Stop, Goto, Fault, NoFault, server, ctx, FileInv, FlowInv, TypeOK
<1>15. CASE CertReq
  BY <1>15
     DEF CertReq, Stop, Goto, Fault, NoFault, PutValidation, Known, server, ctx, FileInv,
         FlowInv, TypeOK
<1>16. CASE CancelTestSession
  BY <1>16
     DEF CancelTestSession, Stop, Goto, Fault, NoFault, Known, server, ctx, FileInv, FlowInv,
         TypeOK
<1>17. CASE Crash
  BY <1>17 DEF Crash, Stop, Goto, Fault, NoFault, server, ctx, FileInv, FlowInv, TypeOK
<1>18. ASSUME NEW v \in Sets, Evaluate(v) PROVE FileInv'
  BY <1>18 DEF Evaluate, ctx, FileInv, FlowInv, TypeOK
<1>19. ASSUME NEW v \in Sets, Expire(v) PROVE FileInv'
  BY <1>19 DEF Expire, ctx, FileInv, FlowInv, TypeOK
<1>20. CASE UNCHANGED vars
  BY <1>20 DEF vars, server, ctx, FileInv, FlowInv, TypeOK
<1> QED
  BY <1>1, <1>2, <1>3, <1>4, <1>5, <1>6, <1>7, <1>8, <1>9, <1>10, <1>11, <1>12, <1>13, <1>14,
     <1>15, <1>16, <1>17, <1>18, <1>19, <1>20
     DEF Next, ClientStep

(* Before the first command there is no session and no file.                *)
LEMMA InitIInv == Init => IInv
<1> SUFFICES ASSUME Init PROVE IInv
  OBVIOUS
<1>1. Flags
  BY Zenon DEF Init, Flags
<1>2. Values
  BY SessionConstants DEF Init, Values, Statuses
<1>3. StatusInv /\ ListInv /\ AnswerInv
  BY DEF Init, StatusInv, ListInv, AnswerInv, Due, Open, Listing, WorkedOff
<1>4. PassInv
  BY DEF Init, PassInv, ValidatedOnlyIfPassed
<1>5. FlowInv /\ FileInv
  BY DEF Init, FlowInv, FileInv
<1> QED
  BY <1>1, <1>2, <1>3, <1>4, <1>5 DEF IInv, TypeOK, Flags, Values

(* The inductive invariant holds of every behaviour.                        *)
LEMMA Invariance == Spec => []IInv
<1>1. IInv /\ [Next]_vars => IInv'
  BY FlagsStep, ValuesStep, StatusInvStep, ListInvStep, AnswerInvStep, PassInvStep,
     FlowInvStep, FileInvStep
     DEF IInv, TypeOK, Flags, Values
<1> QED BY InitIInv, <1>1, PTL DEF Spec

(* The types of the session's state.                                        *)
THEOREM TypeCorrect == Spec => []TypeOK
<1>1. IInv => TypeOK
  BY DEF IInv, TypeOK
<1> QED BY <1>1, Invariance, PTL

(* No set is answered twice, across all the processes of a session.         *)
THEOREM NoDoubleAnswer == Spec => []AnsweredAtMostOnce
<1>1. IInv => AnsweredAtMostOnce
  <2> SUFFICES ASSUME IInv, NEW v \in Sets PROVE submissions[v] <= 1
    BY DEF AnsweredAtMostOnce
  <2>1. CASE status[v] \in Open
    BY <2>1 DEF IInv, StatusInv
  <2>2. CASE status[v] \notin Open
    BY <2>2 DEF IInv, StatusInv
  <2> QED BY <2>1, <2>2
<1> QED BY <1>1, Invariance, PTL

(* AMVP_SUCCESS of a run or a resume means that every set it could know of  *)
(* was answered.                                                            *)
THEOREM SuccessIsComplete == Spec => []SuccessMeansAnswered
<1>1. IInv => SuccessMeansAnswered
  BY DEF IInv, TypeOK, StatusInv, AnswerInv, Due, WorkedOff, SuccessMeansAnswered
<1> QED BY <1>1, Invariance, PTL

(* amvp_validate_test_session() requests a validation only for a session    *)
(* that has passed and still does, whatever happened since the check.       *)
LEMMA ValidationNeedsPass == Spec => ValidatesOnlyPassed
<1>1. IInv /\ [Next]_vars =>
        [pc = "validate" /\ validated' # validated =>
            \A v \in Sets : status[v] = "pass"]_vars
  <2> SUFFICES ASSUME IInv, Next, pc = "validate", validated' # validated
               PROVE  \A v \in Sets : status[v] = "pass"
    OBVIOUS
  <2>1. CASE ValidateTestSession
    BY <2>1, ZenonT(30) DEF ValidateTestSession, IInv, PassInv
  <2> QED
    BY <2>1
       DEF Next, ClientStep, Start, ParseSessionInfoFile, Login, VerifyMetadata, Register,
       WriteSessionInfo, EndSessionInfo, ProcessSet, SubmitAnswer, CheckTestResults, Retrieve,
       RewriteSessionInfo, EndRewrite, CertReq, CancelTestSession, Crash, Evaluate, Expire,
       server
<1> QED BY <1>1, Invariance, PTL DEF Spec, ValidatesOnlyPassed

(* Without amvp_cert_req() nothing else requests one either.                *)
THEOREM ValidationIsOfPassed ==
    ASSUME "mod_cert_req" \notin Commands
    PROVE  Spec => []ValidatedOnlyIfPassed
<1>1. IInv => ValidatedOnlyIfPassed
  BY DEF IInv, PassInv
<1> QED BY <1>1, Invariance, PTL

(* A complete session info file is truncated only after the validation.     *)
LEMMA FileIsKept == Spec => FileKeptUntilValidated
<1>1. IInv /\ [Next]_vars => [file = "ok" /\ file' # "ok" => validated]_vars
  <2> SUFFICES ASSUME IInv, Next, file = "ok", file' # "ok" PROVE validated
    OBVIOUS
  <2>1. CASE WriteSessionInfo
    BY <2>1 DEF WriteSessionInfo, IInv, FlowInv, FileInv
  <2>2. CASE EndSessionInfo
    BY <2>2 DEF EndSessionInfo, IInv, FileInv
  <2>3. CASE RewriteSessionInfo \/ EndRewrite
    BY <2>3 DEF RewriteSessionInfo, EndRewrite, IInv, FileInv
  <2> QED
    BY <2>1, <2>2, <2>3
       DEF Next, ClientStep, Start, ParseSessionInfoFile, Login, VerifyMetadata, 
       Register, ProcessSet, SubmitAnswer, CheckTestResults, Retrieve, ValidateTestSession,
       CertReq, CancelTestSession, Crash, Evaluate, Expire
<1> QED BY <1>1, Invariance, PTL DEF Spec, FileKeptUntilValidated

(* The order of verdict, validation and rewriting of the session info file, *)
(* across any number of processes.                                          *)
THEOREM ValidationOrder == Spec => ValidationInOrder
  BY ValidationNeedsPass, FileIsKept, PTL DEF ValidationInOrder
================================================================================
