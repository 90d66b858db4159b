-------------------------- MODULE AmvpContextProofs --------------------------
(***************************************************************************)
(* Proofs about AmvpContext, for any strings that the application sets and *)
(* any number of setters, runs and failures.                               *)
(***************************************************************************)
EXTENDS AmvpContext, TLAPS

(* The types, in groups: the heap, a run, the sessions, the bounds.        *)
HeapTypes ==
    /\ alive \in BOOLEAN /\ strings \in [Strings -> {"null", "set", "dangling"}]
    /\ flags \subseteq Marks /\ misused \subseteq Strings

RunTypes ==
    /\ pc \in {"idle"} \cup OnlyModes \cup {"mod_cert_req"} \cup Steps
    /\ rv \in Results /\ mode \in Modes \cup {"none"}
    /\ done \in {"none", "done", "failed"} /\ effects \subseteq Modes \cup {"put"}

FlagTypes == fips \in BOOLEAN /\ passed \in BOOLEAN

SessionTypes ==
    /\ session \in 0..sessions /\ list \subseteq 1..sessions
    /\ sessions \in 0..MaxRuns /\ answered \subseteq 1..sessions /\ validated \subseteq 1..sessions
    /\ verdict \in [1..MaxRuns -> {"open", "pass", "fail"}]

BoundTypes == calls \in 0..MaxCalls /\ runs \in 0..MaxRuns /\ faults \in 0..MaxFaults

(* A file to register from, whole or freed, is that of a ctx that is      *)
(* marked as request only.                                                 *)
HeapInv ==
    /\ \A f \in Strings : strings[f] = "dangling" => f = "json_filename"
    /\ strings["json_filename"] # "null" => "use_json" \in flags
    /\ misused # {} => "use_json" \in flags
    /\ "use_json" \in flags => "vector_req" \in flags

(* Where a run in a given mode can be.                                     *)
Places(m) ==
    CASE m = "post_resources" -> {"labs", "vendors", "modules"}
      [] m = "session" -> {"verify", "register", "process", "check", "validate", "put"}
      [] m = "mod_cert_req" -> {"mod_cert_req", "process", "check", "validate"}
      [] OTHER -> {m}

(* The mode of a run is that of the flags, which do not change before it   *)
(* has ended; a run has no result of an earlier one when it posts a file,  *)
(* and one that is request only ends behind the download.                  *)
FlowInv ==
    /\ pc \in {"check", "validate", "put"} => "vector_req" \notin flags
    /\ pc = "login" => mode = "none"
    /\ pc \in {"login", "post"} => done = "none"
    /\ pc \notin {"idle", "login"} => mode = ModeOf(flags) /\ pc \in Places(mode)

(* A run registers at most one session.                                    *)
CountInv ==
    /\ sessions <= runs
    /\ pc \in {"login", "verify", "register", "mod_cert_req"} => sessions < runs

(* The session of a test session run is in the list before the list is     *)
(* processed, and answered behind that.                                    *)
SessionInv ==
    /\ mode = "session" /\ pc = "process" => session \in list
    /\ mode = "session" /\ pc \in {"check", "validate", "put"} => session \in answered
    /\ pc = "validate" => session # 0

(* A pass that the ctx remembers is that of a session in its list.         *)
PassInv ==
    /\ answered \subseteq list
    /\ \A t \in 1..MaxRuns : verdict[t] = "pass" => t \in answered
    /\ passed => \E t \in list : verdict[t] = "pass"

Types == HeapTypes /\ RunTypes /\ FlagTypes /\ SessionTypes /\ BoundTypes

IInv == Types /\ HeapInv /\ FlowInv /\ CountInv /\ SessionInv /\ PassInv /\ RunIsTruthful

(* What the table of the settings says.                                    *)
LEMMA SettingFacts ==
    /\ \A f \in Strings : Settings[f] \subseteq Marks
    /\ "json_filename" \in Strings
    /\ \A f \in Strings : "use_json" \in Settings[f] <=> f = "json_filename"
  BY DEF Strings, Settings, Marks

(* amvp_run() finds a mode for all flags.                                  *)
LEMMA ModeOfType == \A marks : ModeOf(marks) \in Modes
  BY DEF ModeOf, Modes, OnlyModes

(* The place of a run tells its mode.                                      *)
LEMMA ModeAt ==
    ASSUME FlowInv
    PROVE  /\ pc = "get" => mode = "get"
           /\ pc = "delete" => mode = "delete"
           /\ pc = "post" => mode = "post"
           /\ pc \in {"labs", "vendors", "modules"} => mode = "post_resources"
           /\ pc = "mod_cert_req" => mode = "mod_cert_req"
           /\ pc \in {"verify", "register", "put"} => mode = "session"
           /\ pc \in {"process", "check", "validate"} => mode \in {"session", "mod_cert_req"}
  BY ModeOfType DEF FlowInv, Places, Modes, OnlyModes

(* Where the login leads to.                                               *)
LEMMA AfterLogin ==
    ASSUME Login
    PROVE  \/ /\ pc' = "idle" /\ rv' = "AMVP_TRANSPORT_FAIL" /\ UNCHANGED mode
           \/ /\ mode' = ModeOf(flags) /\ mode' \in Modes /\ UNCHANGED rv
              /\ \/ mode' = "post_resources" /\ pc' = "labs"
                 \/ mode' = "session" /\ pc' \in {"verify", "register"}
                 \/ mode' \in {"get", "post", "delete", "mod_cert_req"} /\ pc' = mode'
<1>1. ModeOf(flags) \in Modes
  BY ModeOfType
<1> QED BY <1>1 DEF Login, Goto, Return, Modes, OnlyModes

(* Every step keeps the types of the heap.                                 *)
LEMMA HeapTypesStep == IInv /\ [Next]_vars => HeapTypes'
<1> SUFFICES ASSUME IInv, [Next]_vars PROVE HeapTypes'
  OBVIOUS
<1> USE ContextConstants DEF IInv, Types
<1>1. ASSUME NEW f \in Settable, SetRefused(f) PROVE HeapTypes'
  BY <1>1 DEF SetRefused, SetterFrame, HeapTypes
<1>2. ASSUME NEW f \in Settable, SetTooLong(f) PROVE HeapTypes'
  <2>1. alive' \in BOOLEAN
    BY <1>2, Zenon DEF SetTooLong, SetterFrame, HeapTypes
  <2> QED
    BY <1>2, <2>1 DEF SetTooLong, Freed, HeapTypes
<1>3. ASSUME NEW f \in Settable, SetString(f) PROVE HeapTypes'
  <2>1. f \in Strings /\ Settings[f] \subseteq Marks
    BY SettingFacts
  <2>2. alive' \in BOOLEAN
    BY <1>3, Zenon DEF SetString, SetterFrame, HeapTypes
  <2> QED
    BY <1>3, <2>1, <2>2 DEF SetString, Freed, HeapTypes
<1>4. ASSUME NEW f \in BOOLEAN, Run(f) PROVE HeapTypes'
  BY <1>4 DEF Run, heap, HeapTypes
<1>5. CASE Login
  BY <1>5 DEF Login, heap, HeapTypes
<1>6. CASE GetOrDelete
  BY <1>6 DEF GetOrDelete, RunFrame, heap, HeapTypes
<1>7. CASE Post
  BY <1>7 DEF Post, RunFrame, heap, HeapTypes
<1>8. CASE PostResource
  BY <1>8 DEF PostResource, RunFrame, heap, HeapTypes
<1>9. CASE VerifyMetadata
  BY <1>9 DEF VerifyMetadata, RunFrame, heap, HeapTypes
<1>10. CASE Register
  <2>1. alive' \in BOOLEAN
    BY <1>10, Zenon DEF Register, HeapTypes
  <2> QED
    BY <1>10, <2>1, SettingFacts DEF Register, HeapTypes
<1>11. CASE ModCertReq
  BY <1>11 DEF ModCertReq, RegisterSession, RegistrationFails, RunFrame, heap, HeapTypes
<1>12. CASE ProcessTests
  BY <1>12 DEF ProcessTests, RunFrame, heap, HeapTypes
<1>13. CASE CheckTestResults
  BY <1>13 DEF CheckTestResults, RunFrame, heap, HeapTypes
<1>14. CASE Validate
  BY <1>14 DEF Validate, RunFrame, heap, HeapTypes
<1>15. CASE PutData
  BY <1>15 DEF PutData, RunFrame, heap, HeapTypes
<1>16. CASE PutDataFromFile
  BY <1>16 DEF PutDataFromFile, heap, HeapTypes
<1>17. CASE FreeTestSession
  BY <1>17 DEF FreeTestSession, HeapTypes
<1>18. CASE UNCHANGED vars
  BY <1>18 DEF vars, heap, HeapTypes
<1> QED
  BY <1>1, <1>2, <1>3, <1>4, <1>5, <1>6, <1>7, <1>8, <1>9, <1>10, <1>11, <1>12, <1>13, <1>14,
     <1>15, <1>16, <1>17, <1>18
     DEF Next, RunStep

(* Every step keeps the types of a run.                                    *)
LEMMA RunTypesStep == IInv /\ [Next]_vars => RunTypes'
<1> SUFFICES ASSUME IInv, [Next]_vars PROVE RunTypes'
  OBVIOUS
<1> USE ContextConstants DEF IInv, Types
<1>1. ASSUME NEW f \in Settable, SetRefused(f) PROVE RunTypes'
  BY <1>1
     DEF SetRefused, Idle, Called, SetterFrame, work, server, RunTypes, Results, Modes,
         OnlyModes, Steps
<1>2. ASSUME NEW f \in Settable, SetTooLong(f) PROVE RunTypes'
  BY <1>2
     DEF SetTooLong, Idle, Called, SetterFrame, work, server, RunTypes, Results, Modes,
         OnlyModes, Steps
<1>3. ASSUME NEW f \in Settable, SetString(f) PROVE RunTypes'
  BY <1>3
     DEF SetString, Idle, Called, SetterFrame, work, server, RunTypes, Results, Modes,
         OnlyModes, Steps
<1>4. ASSUME NEW f \in BOOLEAN, Run(f) PROVE RunTypes'
  BY <1>4 DEF Run, Idle, Goto, work, RunTypes, Results, Modes, OnlyModes, Steps
<1>5. CASE Login
  BY <1>5, AfterLogin DEF Login, server, RunTypes, Results, Modes, OnlyModes, Steps
<1>6. CASE GetOrDelete
  BY <1>6 DEF GetOrDelete, Return, RunFrame, work, RunTypes, Results, Modes, OnlyModes, Steps
<1>7. CASE Post
  BY <1>7 DEF Post, Return, RunFrame, work, RunTypes, Results, Modes, OnlyModes, Steps
<1>8. CASE PostResource
  <2>1. pc' \in {"idle", "vendors", "modules"}
    BY <1>8 DEF PostResource, Return, AfterResource
  <2>2. rv' \in {rv, "AMVP_MISSING_ARG", "AMVP_JSON_ERR", "AMVP_SUCCESS", "AMVP_TRANSPORT_FAIL"}
    BY <1>8 DEF PostResource, Return
  <2>3. /\ effects' \in {effects, effects \cup {"post_resources"}}
        /\ done' \in {done, "done", "failed"} /\ UNCHANGED mode
    BY <1>8 DEF PostResource, RunFrame
  <2> QED
    BY <2>1, <2>2, <2>3 DEF RunTypes, Results, Modes, OnlyModes, Steps
<1>9. CASE VerifyMetadata
  BY <1>9
     DEF VerifyMetadata, Goto, Return, RunFrame, work, server, RunTypes, Results, Modes,
         OnlyModes, Steps
<1>10. CASE Register
  <2>1. mode \in Modes /\ UNCHANGED <<mode, done>>
    BY <1>10, ModeAt DEF Register, Modes, OnlyModes
  <2>2. effects' \in {effects, effects \cup {mode}}
    BY <1>10 DEF Register, RegisterSession, RegistrationFails
  <2>3. pc' \in {"idle", "process", "check"} /\ rv' \in {rv, "AMVP_SUCCESS", "AMVP_TRANSPORT_FAIL"}
    BY <1>10 DEF Register, Goto, Return
  <2> QED
    BY <2>1, <2>2, <2>3 DEF RunTypes, Results, Steps
<1>11. CASE ModCertReq
  <2>1. mode \in Modes /\ UNCHANGED <<mode, done>>
    BY <1>11, ModeAt DEF ModCertReq, RunFrame, Modes, OnlyModes
  <2>2. effects' \in {effects, effects \cup {mode}}
    BY <1>11 DEF ModCertReq, RegisterSession, RegistrationFails
  <2>3. pc' \in {"idle", "process", "check"} /\ rv' \in {rv, "AMVP_SUCCESS", "AMVP_TRANSPORT_FAIL"}
    BY <1>11 DEF ModCertReq, Goto, Return
  <2> QED
    BY <2>1, <2>2, <2>3 DEF RunTypes, Results, Steps
<1>12. CASE ProcessTests
  BY <1>12
     DEF ProcessTests, Goto, Return, RunFrame, work, RunTypes, Results, Modes, OnlyModes,
         Steps
<1>13. CASE CheckTestResults
  BY <1>13
     DEF CheckTestResults, Return, RunFrame, AfterCheck, RunTypes, Results, Modes, OnlyModes,
         Steps
<1>14. CASE Validate
  BY <1>14 DEF Validate, Goto, Return, RunFrame, work, RunTypes, Results, Modes, OnlyModes, Steps
<1>15. CASE PutData
  BY <1>15 DEF PutData, Return, RunFrame, work, RunTypes, Results, Modes, OnlyModes, Steps
<1>16. CASE PutDataFromFile
  BY <1>16 DEF PutDataFromFile, Idle, Return, work, RunTypes, Results, Modes, OnlyModes, Steps
<1>17. CASE FreeTestSession
  BY <1>17 DEF FreeTestSession, Idle, work, server, RunTypes, Results, Modes, OnlyModes, Steps
<1>18. CASE UNCHANGED vars
  BY <1>18 DEF vars, work, server, RunTypes, Results, Modes, OnlyModes, Steps
<1> QED
  BY <1>1, <1>2, <1>3, <1>4, <1>5, <1>6, <1>7, <1>8, <1>9, <1>10, <1>11, <1>12, <1>13, <1>14,
     <1>15, <1>16, <1>17, <1>18
     DEF Next, RunStep

(* Every step keeps the flags of a run Boolean.                            *)
LEMMA FlagTypesStep == IInv /\ [Next]_vars => FlagTypes'
<1> SUFFICES ASSUME IInv, [Next]_vars PROVE FlagTypes'
  OBVIOUS
<1> USE ContextConstants DEF IInv, Types
<1>1. ASSUME NEW f \in Settable, SetRefused(f) PROVE FlagTypes'
  BY <1>1 DEF SetRefused, SetterFrame, work, FlagTypes
<1>2. ASSUME NEW f \in Settable, SetTooLong(f) PROVE FlagTypes'
  BY <1>2 DEF SetTooLong, SetterFrame, work, FlagTypes
<1>3. ASSUME NEW f \in Settable, SetString(f) PROVE FlagTypes'
  BY <1>3 DEF SetString, SetterFrame, work, FlagTypes
<1>4. ASSUME NEW f \in BOOLEAN, Run(f) PROVE FlagTypes'
  BY <1>4 DEF Run, work, FlagTypes
<1>5. CASE Login
  BY <1>5 DEF Login, work, FlagTypes
<1>6. CASE GetOrDelete
  BY <1>6 DEF GetOrDelete, RunFrame, work, FlagTypes
<1>7. CASE Post
  BY <1>7 DEF Post, RunFrame, work, FlagTypes
<1>8. CASE PostResource
  BY <1>8 DEF PostResource, RunFrame, work, FlagTypes
<1>9. CASE VerifyMetadata
  BY <1>9 DEF VerifyMetadata, RunFrame, work, FlagTypes
<1>10. CASE Register
  BY <1>10 DEF Register, RegisterSession, RegistrationFails, FlagTypes
<1>11. CASE ModCertReq
  BY <1>11 DEF ModCertReq, RegisterSession, RegistrationFails, RunFrame, FlagTypes
<1>12. CASE ProcessTests
  BY <1>12 DEF ProcessTests, RunFrame, work, FlagTypes
<1>13. CASE CheckTestResults
  BY <1>13 DEF CheckTestResults, RunFrame, FlagTypes
<1>14. CASE Validate
  BY <1>14 DEF Validate, RunFrame, work, FlagTypes
<1>15. CASE PutData
  BY <1>15 DEF PutData, RunFrame, work, FlagTypes
<1>16. CASE PutDataFromFile
  BY <1>16 DEF PutDataFromFile, work, FlagTypes
<1>17. CASE FreeTestSession
  BY <1>17 DEF FreeTestSession, work, FlagTypes
<1>18. CASE UNCHANGED vars
  BY <1>18 DEF vars, work, FlagTypes
<1> QED
  BY <1>1, <1>2, <1>3, <1>4, <1>5, <1>6, <1>7, <1>8, <1>9, <1>10, <1>11, <1>12, <1>13, <1>14,
     <1>15, <1>16, <1>17, <1>18
     DEF Next, RunStep

(* Every step keeps the types of the sessions.                             *)
LEMMA SessionTypesStep == IInv /\ [Next]_vars => SessionTypes'
<1> SUFFICES ASSUME IInv, [Next]_vars PROVE SessionTypes'
  OBVIOUS
<1> USE ContextConstants DEF IInv, Types
<1>1. ASSUME NEW f \in Settable, SetRefused(f) PROVE SessionTypes'
  BY <1>1 DEF SetRefused, SetterFrame, work, server, SessionTypes
<1>2. ASSUME NEW f \in Settable, SetTooLong(f) PROVE SessionTypes'
  BY <1>2 DEF SetTooLong, SetterFrame, work, server, SessionTypes
<1>3. ASSUME NEW f \in Settable, SetString(f) PROVE SessionTypes'
  BY <1>3 DEF SetString, SetterFrame, work, server, SessionTypes
<1>4. ASSUME NEW f \in BOOLEAN, Run(f) PROVE SessionTypes'
  BY <1>4 DEF Run, work, SessionTypes
<1>5. CASE Login
  BY <1>5 DEF Login, work, server, SessionTypes
<1>6. CASE GetOrDelete
  BY <1>6 DEF GetOrDelete, RunFrame, work, SessionTypes
<1>7. CASE Post
  BY <1>7 DEF Post, RunFrame, work, SessionTypes
<1>8. CASE PostResource
  BY <1>8 DEF PostResource, RunFrame, work, SessionTypes
<1>9. CASE VerifyMetadata
  BY <1>9 DEF VerifyMetadata, RunFrame, work, server, SessionTypes
<1>10. CASE Register
  <2>1. sessions < runs /\ runs <= MaxRuns /\ sessions \in Nat /\ runs \in Nat
    BY <1>10 DEF Register, CountInv, BoundTypes, SessionTypes
  <2>2. sessions' \in {sessions, sessions + 1} /\ session' \in {session, sessions'}
        /\ list' \in {list, list \cup {sessions'}} /\ UNCHANGED <<answered, verdict, validated>>
        /\ (list' = list \/ sessions' = sessions + 1)
    BY <1>10 DEF Register, RegisterSession, RegistrationFails
  <2> QED
    BY <2>1, <2>2 DEF SessionTypes
<1>11. CASE ModCertReq
  <2>1. sessions < runs /\ runs <= MaxRuns /\ sessions \in Nat /\ runs \in Nat
    BY <1>11 DEF ModCertReq, CountInv, BoundTypes, SessionTypes
  <2>2. sessions' \in {sessions, sessions + 1} /\ session' \in {session, sessions'}
        /\ list' \in {list, list \cup {sessions'}} /\ UNCHANGED <<answered, verdict, validated>>
        /\ (list' = list \/ sessions' = sessions + 1)
    BY <1>11 DEF ModCertReq, RegisterSession, RegistrationFails
  <2> QED
    BY <2>1, <2>2 DEF SessionTypes
<1>12. CASE ProcessTests
  BY <1>12 DEF ProcessTests, RunFrame, work, SessionTypes
<1>13. CASE CheckTestResults
  BY <1>13 DEF CheckTestResults, RunFrame, Verdicts, SessionTypes
<1>14. CASE Validate
  <2>1. session \in 1..sessions
    BY <1>14 DEF Validate, SessionInv, SessionTypes
  <2>2. validated' \in {validated, validated \cup {session}}
    BY <1>14 DEF Validate
  <2> QED
    BY <1>14, <2>1, <2>2 DEF Validate, work, SessionTypes
<1>15. CASE PutData
  BY <1>15 DEF PutData, RunFrame, work, SessionTypes
<1>16. CASE PutDataFromFile
  BY <1>16 DEF PutDataFromFile, work, SessionTypes
<1>17. CASE FreeTestSession
  BY <1>17 DEF FreeTestSession, work, server, SessionTypes
<1>18. CASE UNCHANGED vars
  BY <1>18 DEF vars, work, server, SessionTypes
<1> QED
  BY <1>1, <1>2, <1>3, <1>4, <1>5, <1>6, <1>7, <1>8, <1>9, <1>10, <1>11, <1>12, <1>13, <1>14,
     <1>15, <1>16, <1>17, <1>18
     DEF Next, RunStep

(* Every step keeps the bounds.                                            *)
LEMMA BoundTypesStep == IInv /\ [Next]_vars => BoundTypes'
<1> SUFFICES ASSUME IInv, [Next]_vars PROVE BoundTypes'
  OBVIOUS
<1> USE ContextConstants DEF IInv, Types
<1>1. ASSUME NEW f \in Settable, SetRefused(f) PROVE BoundTypes'
  BY <1>1 DEF SetRefused, Called, SetterFrame, NoFault, BoundTypes
<1>2. ASSUME NEW f \in Settable, SetTooLong(f) PROVE BoundTypes'
  BY <1>2 DEF SetTooLong, Called, SetterFrame, NoFault, BoundTypes
<1>3. ASSUME NEW f \in Settable, SetString(f) PROVE BoundTypes'
  BY <1>3 DEF SetString, Called, SetterFrame, NoFault, Fault, BoundTypes
<1>4. ASSUME NEW f \in BOOLEAN, Run(f) PROVE BoundTypes'
  BY <1>4 DEF Run, BoundTypes
<1>5. CASE Login
  BY <1>5 DEF Login, NoFault, Fault, bounds, BoundTypes
<1>6. CASE GetOrDelete
  BY <1>6 DEF GetOrDelete, NoFault, Fault, RunFrame, bounds, BoundTypes
<1>7. CASE Post
  BY <1>7 DEF Post, NoFault, Fault, RunFrame, bounds, BoundTypes
<1>8. CASE PostResource
  BY <1>8 DEF PostResource, NoFault, Fault, RunFrame, bounds, BoundTypes
<1>9. CASE VerifyMetadata
  BY <1>9 DEF VerifyMetadata, NoFault, Fault, RunFrame, bounds, BoundTypes
<1>10. CASE Register
  BY <1>10 DEF Register, NoFault, Fault, RegisterSession, RegistrationFails, bounds, BoundTypes
<1>11. CASE ModCertReq
  BY <1>11
     DEF ModCertReq, NoFault, Fault, RegisterSession, RegistrationFails, RunFrame, bounds,
         BoundTypes
<1>12. CASE ProcessTests
  BY <1>12 DEF ProcessTests, NoFault, Fault, RunFrame, bounds, BoundTypes
<1>13. CASE CheckTestResults
  BY <1>13 DEF CheckTestResults, NoFault, Fault, RunFrame, bounds, BoundTypes
<1>14. CASE Validate
  BY <1>14 DEF Validate, NoFault, Fault, RunFrame, bounds, BoundTypes
<1>15. CASE PutData
  BY <1>15 DEF PutData, NoFault, Fault, RunFrame, bounds, BoundTypes
<1>16. CASE PutDataFromFile
  BY <1>16 DEF PutDataFromFile, NoFault, Fault, BoundTypes
<1>17. CASE FreeTestSession
  BY <1>17 DEF FreeTestSession, bounds, BoundTypes
<1>18. CASE UNCHANGED vars
  BY <1>18 DEF vars, bounds, BoundTypes
<1> QED
  BY <1>1, <1>2, <1>3, <1>4, <1>5, <1>6, <1>7, <1>8, <1>9, <1>10, <1>11, <1>12, <1>13, <1>14,
     <1>15, <1>16, <1>17, <1>18
     DEF Next, RunStep

(* Every step keeps the strings in order.                                  *)
LEMMA HeapInvStep == IInv /\ [Next]_vars => HeapInv'
<1> SUFFICES ASSUME IInv, [Next]_vars PROVE HeapInv'
  OBVIOUS
<1> USE ContextConstants DEF IInv, Types
<1>1. ASSUME NEW f \in Settable, SetRefused(f) PROVE HeapInv'
  BY <1>1 DEF SetRefused, SetterFrame, HeapInv, HeapTypes
<1>2. ASSUME NEW f \in Settable, SetTooLong(f) PROVE HeapInv'
  BY <1>2, SettingFacts DEF SetTooLong, SetterFrame, ChecksLengthLast, Freed, HeapInv, HeapTypes
<1>3. ASSUME NEW f \in Settable, SetString(f) PROVE HeapInv'
  <2>1. f \in Strings /\ f = "json_filename" => "vector_req" \in flags
    BY <1>3 DEF SetString, Needs
  <2>2. /\ strings' \in {[strings EXCEPT ![f] = "null"], [strings EXCEPT ![f] = "set"]}
        /\ flags \subseteq flags' /\ flags' \subseteq flags \cup Settings[f]
        /\ strings'[f] # "null" => Settings[f] \subseteq flags'
    BY <1>3 DEF SetString, HeapTypes
  <2>3. misused' # {} => misused # {} \/ strings[f] = "dangling"
    BY <1>3 DEF SetString, Freed
  <2> QED
    BY <2>1, <2>2, <2>3, SettingFacts DEF HeapInv, HeapTypes
<1>4. ASSUME NEW f \in BOOLEAN, Run(f) PROVE HeapInv'
  BY <1>4 DEF Run, heap, HeapInv, HeapTypes
<1>5. CASE Login
  BY <1>5 DEF Login, heap, HeapInv, HeapTypes
<1>6. CASE GetOrDelete
  BY <1>6 DEF GetOrDelete, RunFrame, heap, HeapInv, HeapTypes
<1>7. CASE Post
  BY <1>7 DEF Post, RunFrame, heap, HeapInv, HeapTypes
<1>8. CASE PostResource
  BY <1>8 DEF PostResource, RunFrame, heap, HeapInv, HeapTypes
<1>9. CASE VerifyMetadata
  BY <1>9 DEF VerifyMetadata, RunFrame, heap, HeapInv, HeapTypes
<1>10. CASE Register
  BY <1>10, SettingFacts DEF Register, HeapInv, HeapTypes
<1>11. CASE ModCertReq
  BY <1>11 DEF ModCertReq, RegisterSession, RegistrationFails, RunFrame, heap, HeapInv, HeapTypes
<1>12. CASE ProcessTests
  BY <1>12 DEF ProcessTests, RunFrame, heap, HeapInv, HeapTypes
<1>13. CASE CheckTestResults
  BY <1>13 DEF CheckTestResults, RunFrame, heap, HeapInv, HeapTypes
<1>14. CASE Validate
  BY <1>14 DEF Validate, RunFrame, heap, HeapInv, HeapTypes
<1>15. CASE PutData
  BY <1>15 DEF PutData, RunFrame, heap, HeapInv, HeapTypes
<1>16. CASE PutDataFromFile
  BY <1>16 DEF PutDataFromFile, heap, HeapInv, HeapTypes
<1>17. CASE FreeTestSession
  BY <1>17, SettingFacts DEF FreeTestSession, HeapInv, HeapTypes
<1>18. CASE UNCHANGED vars
  BY <1>18 DEF vars, heap, HeapInv, HeapTypes
<1> QED
  BY <1>1, <1>2, <1>3, <1>4, <1>5, <1>6, <1>7, <1>8, <1>9, <1>10, <1>11, <1>12, <1>13, <1>14,
     <1>15, <1>16, <1>17, <1>18
     DEF Next, RunStep

(* Every step keeps the mode.                                              *)
LEMMA FlowInvStep == IInv /\ [Next]_vars => FlowInv'
<1> SUFFICES ASSUME IInv, [Next]_vars PROVE FlowInv'
  OBVIOUS
<1> USE ContextConstants DEF IInv, Types
<1>1. ASSUME NEW f \in Settable, SetRefused(f) PROVE FlowInv'
  BY <1>1 DEF SetRefused, Idle, SetterFrame, work, FlowInv, Places, ModeOf
<1>2. ASSUME NEW f \in Settable, SetTooLong(f) PROVE FlowInv'
  BY <1>2 DEF SetTooLong, Idle, SetterFrame, work, FlowInv, Places, ModeOf
<1>3. ASSUME NEW f \in Settable, SetString(f) PROVE FlowInv'
  BY <1>3 DEF SetString, Idle, SetterFrame, work, FlowInv, Places, ModeOf
<1>4. ASSUME NEW f \in BOOLEAN, Run(f) PROVE FlowInv'
  BY <1>4 DEF Run, Idle, Goto, heap, work, FlowInv, Places, ModeOf
<1>5. CASE Login
  BY <1>5 DEF Login, Goto, Return, heap, work, FlowInv, Places, ModeOf
<1>6. CASE GetOrDelete
  BY <1>6 DEF GetOrDelete, Return, RunFrame, heap, work, FlowInv, Places, ModeOf
<1>7. CASE Post
  BY <1>7 DEF Post, Return, RunFrame, heap, work, FlowInv, Places, ModeOf
<1>8. CASE PostResource
  BY <1>8 DEF PostResource, Return, RunFrame, AfterResource, heap, work, FlowInv, Places, ModeOf
<1>9. CASE VerifyMetadata
  BY <1>9 DEF VerifyMetadata, Goto, Return, RunFrame, heap, work, FlowInv, Places, ModeOf
<1>10. CASE Register
  BY <1>10 DEF Register, Goto, Return, RegisterSession, RegistrationFails, FlowInv, Places, ModeOf
<1>11. CASE ModCertReq
  BY <1>11
     DEF ModCertReq, Goto, Return, RegisterSession, RegistrationFails, RunFrame, heap,
         FlowInv, Places, ModeOf
<1>12. CASE ProcessTests
  BY <1>12 DEF ProcessTests, Goto, Return, RunFrame, heap, work, FlowInv, Places, ModeOf
<1>13. CASE CheckTestResults
  BY <1>13 DEF CheckTestResults, Return, RunFrame, AfterCheck, heap, FlowInv, Places, ModeOf
<1>14. CASE Validate
  BY <1>14 DEF Validate, Goto, Return, RunFrame, heap, work, FlowInv, Places, ModeOf
<1>15. CASE PutData
  BY <1>15 DEF PutData, Return, RunFrame, heap, work, FlowInv, Places, ModeOf
<1>16. CASE PutDataFromFile
  BY <1>16 DEF PutDataFromFile, Idle, Return, heap, work, FlowInv, Places, ModeOf
<1>17. CASE FreeTestSession
  BY <1>17 DEF FreeTestSession, Idle, work, FlowInv, Places, ModeOf
<1>18. CASE UNCHANGED vars
  BY <1>18 DEF vars, heap, work, FlowInv, Places, ModeOf
<1> QED
  BY <1>1, <1>2, <1>3, <1>4, <1>5, <1>6, <1>7, <1>8, <1>9, <1>10, <1>11, <1>12, <1>13, <1>14,
     <1>15, <1>16, <1>17, <1>18
     DEF Next, RunStep

(* Every step counts its session.                                          *)
LEMMA CountInvStep == IInv /\ [Next]_vars => CountInv'
<1> SUFFICES ASSUME IInv, [Next]_vars PROVE CountInv'
  OBVIOUS
<1> USE ContextConstants DEF IInv, Types
<1>1. ASSUME NEW f \in Settable, SetRefused(f) PROVE CountInv'
  BY <1>1
     DEF SetRefused, Idle, Called, SetterFrame, NoFault, work, server, CountInv, BoundTypes,
         SessionTypes
<1>2. ASSUME NEW f \in Settable, SetTooLong(f) PROVE CountInv'
  BY <1>2
     DEF SetTooLong, Idle, Called, SetterFrame, NoFault, work, server, CountInv, BoundTypes,
         SessionTypes
<1>3. ASSUME NEW f \in Settable, SetString(f) PROVE CountInv'
  BY <1>3
     DEF SetString, Idle, Called, SetterFrame, NoFault, Fault, work, server, CountInv,
         BoundTypes, SessionTypes
<1>4. ASSUME NEW f \in BOOLEAN, Run(f) PROVE CountInv'
  BY <1>4 DEF Run, Idle, Goto, work, CountInv, BoundTypes, SessionTypes
<1>5. CASE Login
  BY <1>5
     DEF Login, NoFault, Fault, Goto, Return, work, server, bounds, CountInv, BoundTypes,
         SessionTypes
<1>6. CASE GetOrDelete
  BY <1>6
     DEF GetOrDelete, NoFault, Fault, Return, RunFrame, work, bounds, CountInv, BoundTypes,
         SessionTypes
<1>7. CASE Post
  BY <1>7
     DEF Post, NoFault, Fault, Return, RunFrame, work, bounds, CountInv, BoundTypes,
         SessionTypes
<1>8. CASE PostResource
  BY <1>8
     DEF PostResource, NoFault, Fault, Return, RunFrame, AfterResource, work, bounds,
         CountInv, BoundTypes, SessionTypes
<1>9. CASE VerifyMetadata
  BY <1>9
     DEF VerifyMetadata, NoFault, Fault, Goto, Return, RunFrame, work, server, bounds,
         CountInv, BoundTypes, SessionTypes
<1>10. CASE Register
  BY <1>10
     DEF Register, NoFault, Fault, Goto, Return, RegisterSession, RegistrationFails, bounds,
         CountInv, BoundTypes, SessionTypes
<1>11. CASE ModCertReq
  BY <1>11
     DEF ModCertReq, NoFault, Fault, Goto, Return, RegisterSession, RegistrationFails,
         RunFrame, bounds, CountInv, BoundTypes, SessionTypes
<1>12. CASE ProcessTests
  BY <1>12
     DEF ProcessTests, NoFault, Fault, Goto, Return, RunFrame, work, bounds, CountInv,
         BoundTypes, SessionTypes
<1>13. CASE CheckTestResults
  BY <1>13
     DEF CheckTestResults, NoFault, Fault, Return, RunFrame, AfterCheck, Verdicts, bounds,
         CountInv, BoundTypes, SessionTypes
<1>14. CASE Validate
  BY <1>14
     DEF Validate, NoFault, Fault, Goto, Return, RunFrame, work, bounds, CountInv, BoundTypes,
         SessionTypes
<1>15. CASE PutData
  BY <1>15
     DEF PutData, NoFault, Fault, Return, RunFrame, work, bounds, CountInv, BoundTypes,
         SessionTypes
<1>16. CASE PutDataFromFile
  BY <1>16
     DEF PutDataFromFile, Idle, NoFault, Fault, Return, work, CountInv, BoundTypes,
         SessionTypes
<1>17. CASE FreeTestSession
  BY <1>17 DEF FreeTestSession, Idle, work, server, bounds, CountInv, BoundTypes, SessionTypes
<1>18. CASE UNCHANGED vars
  BY <1>18 DEF vars, work, server, bounds, CountInv, BoundTypes, SessionTypes
<1> QED
  BY <1>1, <1>2, <1>3, <1>4, <1>5, <1>6, <1>7, <1>8, <1>9, <1>10, <1>11, <1>12, <1>13, <1>14,
     <1>15, <1>16, <1>17, <1>18
     DEF Next, RunStep

(* Every step keeps the session in its place.                              *)
LEMMA SessionInvStep == IInv /\ [Next]_vars => SessionInv'
<1> SUFFICES ASSUME IInv, [Next]_vars PROVE SessionInv'
  OBVIOUS
<1> USE ContextConstants DEF IInv, Types
<1>1. ASSUME NEW f \in Settable, SetRefused(f) PROVE SessionInv'
  BY <1>1 DEF SetRefused, Idle, SetterFrame, work, server, SessionInv, SessionTypes
<1>2. ASSUME NEW f \in Settable, SetTooLong(f) PROVE SessionInv'
  BY <1>2 DEF SetTooLong, Idle, SetterFrame, work, server, SessionInv, SessionTypes
<1>3. ASSUME NEW f \in Settable, SetString(f) PROVE SessionInv'
  BY <1>3 DEF SetString, Idle, SetterFrame, work, server, SessionInv, SessionTypes
<1>4. ASSUME NEW f \in BOOLEAN, Run(f) PROVE SessionInv'
  BY <1>4 DEF Run, Idle, Goto, work, SessionInv, SessionTypes
<1>5. CASE Login
  BY <1>5, AfterLogin DEF SessionInv
<1>6. CASE GetOrDelete
  BY <1>6 DEF GetOrDelete, Return, RunFrame, work, SessionInv, SessionTypes
<1>7. CASE Post
  BY <1>7 DEF Post, Return, RunFrame, work, SessionInv, SessionTypes
<1>8. CASE PostResource
  BY <1>8 DEF PostResource, Return, RunFrame, AfterResource, work, SessionInv, SessionTypes
<1>9. CASE VerifyMetadata
  BY <1>9 DEF VerifyMetadata, Goto, Return, RunFrame, work, server, SessionInv, SessionTypes
<1>10. CASE Register
  BY <1>10 DEF Register, Goto, Return, RegisterSession, RegistrationFails, SessionInv, SessionTypes
<1>11. CASE ModCertReq
  BY <1>11, ModeAt DEF ModCertReq, Goto, Return, RunFrame, SessionInv
<1>12. CASE ProcessTests
  BY <1>12 DEF ProcessTests, Goto, Return, RunFrame, work, SessionInv, SessionTypes
<1>13. CASE CheckTestResults
  BY <1>13 DEF CheckTestResults, Return, RunFrame, AfterCheck, Verdicts, SessionInv, SessionTypes
<1>14. CASE Validate
  BY <1>14 DEF Validate, Goto, Return, RunFrame, work, SessionInv, SessionTypes
<1>15. CASE PutData
  BY <1>15 DEF PutData, Return, RunFrame, work, SessionInv, SessionTypes
<1>16. CASE PutDataFromFile
  BY <1>16 DEF PutDataFromFile, Idle, Return, work, SessionInv, SessionTypes
<1>17. CASE FreeTestSession
  BY <1>17 DEF FreeTestSession, Idle, work, server, SessionInv, SessionTypes
<1>18. CASE UNCHANGED vars
  BY <1>18 DEF vars, work, server, SessionInv, SessionTypes
<1> QED
  BY <1>1, <1>2, <1>3, <1>4, <1>5, <1>6, <1>7, <1>8, <1>9, <1>10, <1>11, <1>12, <1>13, <1>14,
     <1>15, <1>16, <1>17, <1>18
     DEF Next, RunStep

(* Every step keeps the pass.                                              *)
LEMMA PassInvStep == IInv /\ [Next]_vars => PassInv'
<1> SUFFICES ASSUME IInv, [Next]_vars PROVE PassInv'
  OBVIOUS
<1> USE ContextConstants DEF IInv, Types
<1>1. ASSUME NEW f \in Settable, SetRefused(f) PROVE PassInv'
  BY <1>1 DEF SetRefused, SetterFrame, work, server, PassInv, SessionTypes
<1>2. ASSUME NEW f \in Settable, SetTooLong(f) PROVE PassInv'
  BY <1>2 DEF SetTooLong, SetterFrame, work, server, PassInv, SessionTypes
<1>3. ASSUME NEW f \in Settable, SetString(f) PROVE PassInv'
  BY <1>3 DEF SetString, SetterFrame, work, server, PassInv, SessionTypes
<1>4. ASSUME NEW f \in BOOLEAN, Run(f) PROVE PassInv'
  BY <1>4 DEF Run, work, PassInv, SessionTypes
<1>5. CASE Login
  BY <1>5 DEF Login, work, server, PassInv, SessionTypes
<1>6. CASE GetOrDelete
  BY <1>6 DEF GetOrDelete, RunFrame, work, PassInv, SessionTypes
<1>7. CASE Post
  BY <1>7 DEF Post, RunFrame, work, PassInv, SessionTypes
<1>8. CASE PostResource
  BY <1>8 DEF PostResource, RunFrame, work, PassInv, SessionTypes
<1>9. CASE VerifyMetadata
  BY <1>9 DEF VerifyMetadata, RunFrame, work, server, PassInv, SessionTypes
<1>10. CASE Register
  BY <1>10 DEF Register, RegisterSession, RegistrationFails, PassInv, SessionTypes
<1>11. CASE ModCertReq
  BY <1>11 DEF ModCertReq, RegisterSession, RegistrationFails, RunFrame, PassInv, SessionTypes
<1>12. CASE ProcessTests
  BY <1>12 DEF ProcessTests, RunFrame, work, PassInv, SessionTypes
<1>13. CASE CheckTestResults
  <2>1. UNCHANGED <<session, list, answered>>
    BY <1>13 DEF CheckTestResults
  <2>2. CASE UNCHANGED <<passed, verdict>>
    BY <2>1, <2>2 DEF PassInv
  <2>3. ASSUME session # 0, NEW v \in Verdicts(session),
               verdict' = [verdict EXCEPT ![session] = v], passed' = (passed \/ v = "pass")
        PROVE  PassInv'
    <3>1. session \in DOMAIN verdict /\ list \subseteq DOMAIN verdict
      BY <2>3 DEF SessionTypes
    <3>2. \A t \in 1..MaxRuns : verdict[t] = "pass" => verdict'[t] = "pass"
      BY <2>3, <3>1 DEF Verdicts, PassInv, SessionTypes
    <3>3. v = "pass" => session \in list /\ verdict'[session] = "pass"
      BY <2>3, <3>1 DEF Verdicts, PassInv, SessionTypes
    <3>4. \A t \in 1..MaxRuns : verdict'[t] = "pass" => t \in answered'
      BY <2>1, <2>3, <3>1 DEF Verdicts, PassInv, SessionTypes
    <3> QED BY <2>1, <2>3, <3>1, <3>2, <3>3, <3>4 DEF PassInv, SessionTypes
  <2> QED
    BY <1>13, <2>2, <2>3 DEF CheckTestResults
<1>14. CASE Validate
  BY <1>14 DEF Validate, RunFrame, work, PassInv, SessionTypes
<1>15. CASE PutData
  BY <1>15 DEF PutData, RunFrame, work, PassInv, SessionTypes
<1>16. CASE PutDataFromFile
  BY <1>16 DEF PutDataFromFile, work, PassInv, SessionTypes
<1>17. CASE FreeTestSession
  BY <1>17 DEF FreeTestSession, work, server, PassInv, SessionTypes
<1>18. CASE UNCHANGED vars
  BY <1>18 DEF vars, work, server, PassInv, SessionTypes
<1> QED
  BY <1>1, <1>2, <1>3, <1>4, <1>5, <1>6, <1>7, <1>8, <1>9, <1>10, <1>11, <1>12, <1>13, <1>14,
     <1>15, <1>16, <1>17, <1>18
     DEF Next, RunStep

(* Every step keeps the result of a run true.                              *)
LEMMA TruthStep == IInv /\ [Next]_vars => RunIsTruthful'
<1> SUFFICES ASSUME IInv, [Next]_vars PROVE RunIsTruthful'
  OBVIOUS
<1> USE ContextConstants DEF IInv, Types
<1>1. ASSUME NEW f \in Settable, SetRefused(f) PROVE RunIsTruthful'
  BY <1>1
     DEF SetRefused, Idle, Called, SetterFrame, work, server, RunIsTruthful,
         SuccessIsTruthful, RunAnswersItsSession, OnlyModes, FlowInv, Places, SessionInv
<1>2. ASSUME NEW f \in Settable, SetTooLong(f) PROVE RunIsTruthful'
  BY <1>2
     DEF SetTooLong, Idle, Called, SetterFrame, ChecksLengthLast, work, server, RunIsTruthful,
         SuccessIsTruthful, RunAnswersItsSession, OnlyModes, FlowInv, Places, SessionInv
<1>3. ASSUME NEW f \in Settable, SetString(f) PROVE RunIsTruthful'
  BY <1>3
     DEF SetString, Idle, Called, SetterFrame, work, server, RunIsTruthful, SuccessIsTruthful,
         RunAnswersItsSession, OnlyModes, FlowInv, Places, SessionInv
<1>4. ASSUME NEW f \in BOOLEAN, Run(f) PROVE RunIsTruthful'
  BY <1>4
     DEF Run, Idle, Goto, heap, work, RunIsTruthful, SuccessIsTruthful, RunAnswersItsSession,
         OnlyModes, FlowInv, Places, SessionInv
<1>5. CASE Login
  BY <1>5
     DEF Login, Goto, Return, heap, work, server, RunIsTruthful, SuccessIsTruthful,
         RunAnswersItsSession, OnlyModes, FlowInv, Places, SessionInv
<1>6. CASE GetOrDelete
  BY <1>6
     DEF GetOrDelete, Return, RunFrame, heap, work, RunIsTruthful, SuccessIsTruthful,
         RunAnswersItsSession, OnlyModes, FlowInv, Places, SessionInv
<1>7. CASE Post
  BY <1>7, ModeAt
     DEF Post, Return, Fault, NoFault, RunFrame, FlowInv, RunIsTruthful,
         SuccessIsTruthful, RunAnswersItsSession
<1>8. CASE PostResource
  BY <1>8
     DEF PostResource, Return, RunFrame, AfterResource, heap, work, RunIsTruthful,
         SuccessIsTruthful, RunAnswersItsSession, OnlyModes, FlowInv, Places, SessionInv
<1>9. CASE VerifyMetadata
  BY <1>9
     DEF VerifyMetadata, Goto, Return, RunFrame, heap, work, server, RunIsTruthful,
         SuccessIsTruthful, RunAnswersItsSession, OnlyModes, FlowInv, Places, SessionInv
<1>10. CASE Register
  BY <1>10
     DEF Register, Goto, Return, RegisterSession, RegistrationFails, RunIsTruthful,
         SuccessIsTruthful, RunAnswersItsSession, OnlyModes, FlowInv, Places, SessionInv
<1>11. CASE ModCertReq
  BY <1>11
     DEF ModCertReq, Goto, Return, RegisterSession, RegistrationFails, RunFrame, heap,
         RunIsTruthful, SuccessIsTruthful, RunAnswersItsSession, OnlyModes, FlowInv, Places,
         SessionInv
<1>12. CASE ProcessTests
  BY <1>12
     DEF ProcessTests, Goto, Return, RunFrame, heap, work, RunIsTruthful, SuccessIsTruthful,
         RunAnswersItsSession, OnlyModes, FlowInv, Places, SessionInv
<1>13. CASE CheckTestResults
  BY <1>13
     DEF CheckTestResults, Return, RunFrame, AfterCheck, heap, RunIsTruthful,
         SuccessIsTruthful, RunAnswersItsSession, OnlyModes, FlowInv, Places, SessionInv
<1>14. CASE Validate
  BY <1>14
     DEF Validate, Goto, Return, RunFrame, heap, work, RunIsTruthful, SuccessIsTruthful,
         RunAnswersItsSession, OnlyModes, FlowInv, Places, SessionInv
<1>15. CASE PutData
  BY <1>15
     DEF PutData, Return, RunFrame, heap, work, RunIsTruthful, SuccessIsTruthful,
         RunAnswersItsSession, OnlyModes, FlowInv, Places, SessionInv
<1>16. CASE PutDataFromFile
  BY <1>16
     DEF PutDataFromFile, Idle, Return, heap, work, RunIsTruthful, SuccessIsTruthful,
         RunAnswersItsSession, OnlyModes, FlowInv, Places, SessionInv
<1>17. CASE FreeTestSession
  BY <1>17
     DEF FreeTestSession, Idle, work, server, RunIsTruthful, SuccessIsTruthful,
         RunAnswersItsSession, OnlyModes, FlowInv, Places, SessionInv
<1>18. CASE UNCHANGED vars
  BY <1>18
     DEF vars, heap, work, server, RunIsTruthful, SuccessIsTruthful, RunAnswersItsSession,
         OnlyModes, FlowInv, Places, SessionInv
<1> QED
  BY <1>1, <1>2, <1>3, <1>4, <1>5, <1>6, <1>7, <1>8, <1>9, <1>10, <1>11, <1>12, <1>13, <1>14,
     <1>15, <1>16, <1>17, <1>18
     DEF Next, RunStep

(* Before the first call.                                                  *)
LEMMA InitIInv == Init => IInv
<1> SUFFICES ASSUME Init PROVE IInv
  OBVIOUS
<1> USE ContextConstants DEF Init
<1>1. HeapTypes /\ FlagTypes
  BY Zenon, SettingFacts DEF HeapTypes, FlagTypes
<1>2. RunTypes /\ SessionTypes /\ BoundTypes
  BY DEF RunTypes, SessionTypes, BoundTypes, Results
<1>3. HeapInv /\ FlowInv /\ CountInv
  BY SettingFacts DEF HeapInv, FlowInv, CountInv
<1>4. SessionInv /\ PassInv /\ RunIsTruthful
  BY DEF SessionInv, PassInv, RunIsTruthful, SuccessIsTruthful, RunAnswersItsSession
<1> QED BY <1>1, <1>2, <1>3, <1>4 DEF IInv, Types

(* The inductive invariant holds of every behaviour.                       *)
LEMMA Invariance == Spec => []IInv
<1>1. IInv /\ [Next]_vars => IInv'
  BY HeapTypesStep, RunTypesStep, FlagTypesStep, SessionTypesStep, BoundTypesStep, HeapInvStep,
     FlowInvStep, CountInvStep, SessionInvStep, PassInvStep, TruthStep DEF IInv, Types
<1> QED BY InitIInv, <1>1, PTL DEF Spec

(* The types of a ctx and of its sessions: in particular every session of  *)
(* the list is one that the server has registered, and a run registers at  *)
(* most one.                                                               *)
THEOREM TypeCorrect == Spec => []TypeOK
<1>1. IInv => TypeOK
  BY DEF IInv, Types, HeapTypes, RunTypes, FlagTypes, SessionTypes, BoundTypes, TypeOK
<1> QED BY <1>1, Invariance, PTL

(* A ctx with a file to register from, or one whose file name was used     *)
(* behind its free(), is request only: it answers and validates nothing,   *)
(* in any of its later runs.                                               *)
THEOREM RequestOnly == Spec => ManualRegistrationIsRequestOnly
<1> DEFINE Kept == "use_json" \in flags \/ misused # {} => UNCHANGED <<answered, validated>>
<1>1. IInv /\ [Next]_vars => [Kept]_vars
  <2> SUFFICES ASSUME IInv, [Next]_vars, "use_json" \in flags \/ misused # {}
               PROVE  UNCHANGED <<answered, validated>> \/ UNCHANGED vars
    OBVIOUS
  <2>1. "vector_req" \in flags
    BY DEF IInv, HeapInv
  <2>2. CASE ProcessTests
    BY <2>1, <2>2 DEF ProcessTests
  <2>3. CASE Validate
    BY <2>1, <2>3 DEF Validate, IInv, FlowInv
  <2>4. ProcessTests \/ Validate \/ UNCHANGED <<answered, validated>> \/ UNCHANGED vars
    BY DEF Next, RunStep, SetRefused, SetTooLong, SetString, SetterFrame, Run, Login, GetOrDelete, Post,
           PostResource, VerifyMetadata, Register, ModCertReq, CheckTestResults, PutData,
           PutDataFromFile, FreeTestSession, server
  <2> QED
    BY <2>2, <2>3, <2>4
<1> QED BY <1>1, Invariance, PTL DEF Spec, ManualRegistrationIsRequestOnly

(* What amvp_run() returns is true of its own run, on a ctx with any past.  *)
THEOREM TruthfulRuns == Spec => []RunIsTruthful
<1>1. IInv => RunIsTruthful
  BY DEF IInv
<1> QED BY <1>1, Invariance, PTL

(* In a run of a ctx that is marked as get the mode is "get", whatever the *)
(* other marks.                                                            *)
LEMMA ModeOfMarks ==
    /\ \A marks : "get" \in marks => ModeOf(marks) = "get"
    /\ \A marks : marks \cap OnlyModes # {} /\ "mod_cert_req" \notin marks => ModeOf(marks) \in OnlyModes
  BY DEF ModeOf, OnlyModes

(* The marks of a ctx are respected: nothing on the server changes in a    *)
(* run of a ctx that is marked as get, no session is registered, answered  *)
(* or validated in one of a ctx that is marked as one of the other single  *)
(* requests.                                                               *)
THEOREM MarksRespected == Spec => MarkedModesOnly
<1> DEFINE Marked ==
        pc # "idle" =>
          /\ "get" \in flags => UNCHANGED server
          /\ flags \cap OnlyModes # {} /\ "mod_cert_req" \notin flags => UNCHANGED <<sessions, answered, validated>>
<1>1. IInv /\ [Next]_vars => [Marked]_vars
  <2> SUFFICES ASSUME IInv, [Next]_vars, pc # "idle" PROVE Marked \/ UNCHANGED vars
    OBVIOUS
  <2>1. CASE Login
    BY <2>1 DEF Login, server
  <2>2. CASE GetOrDelete
    BY <2>2, ModeAt, ModeOfMarks DEF GetOrDelete, server, IInv, FlowInv
  <2>3. CASE Post \/ PostResource
    BY <2>3, ModeAt, ModeOfMarks DEF Post, PostResource, server, IInv, FlowInv
  <2>4. CASE VerifyMetadata
    BY <2>4 DEF VerifyMetadata, server
  <2>5. CASE Register \/ ModCertReq \/ ProcessTests \/ CheckTestResults \/ Validate \/ PutData
    <3>1. pc \notin {"idle", "login"} /\ mode \in {"session", "mod_cert_req"}
      BY <2>5, ModeAt DEF Register, ModCertReq, ProcessTests, CheckTestResults, Validate, PutData, IInv
    <3>2. mode = ModeOf(flags)
      BY <3>1 DEF IInv, FlowInv
    <3>3. "get" \notin flags /\ ~(flags \cap OnlyModes # {} /\ "mod_cert_req" \notin flags)
      BY <3>1, <3>2, ModeOfMarks DEF OnlyModes
    <3> QED BY <3>3
  <2>6. ASSUME NEW f \in Settable, SetRefused(f) \/ SetTooLong(f) \/ SetString(f) PROVE FALSE
    BY <2>6 DEF SetRefused, SetTooLong, SetString, Idle
  <2>7. ASSUME (\E f \in BOOLEAN : Run(f)) \/ PutDataFromFile \/ FreeTestSession PROVE FALSE
    BY <2>7 DEF Run, PutDataFromFile, FreeTestSession, Idle
  <2> QED
    BY <2>1, <2>2, <2>3, <2>4, <2>5, <2>6, <2>7 DEF Next, RunStep
<1> QED BY <1>1, Invariance, PTL DEF Spec, MarkedModesOnly

(* On a ctx that had no other session, amvp_run() has only a session that  *)
(* passed validated.                                                       *)
THEOREM FreshValidation == Spec => FreshCtxValidatesPassed
<1> DEFINE Fresh == \A s \in validated' \ validated : mode = "session" /\ list = {s} => verdict[s] = "pass"
<1>1. IInv /\ [Next]_vars => [Fresh]_vars
  <2> SUFFICES ASSUME IInv, [Next]_vars PROVE Fresh \/ UNCHANGED vars
    OBVIOUS
  <2>1. CASE Validate
    <3>1. SUFFICES ASSUME NEW s \in validated' \ validated, mode = "session", list = {s}
                   PROVE  verdict[s] = "pass"
      OBVIOUS
    <3>2. passed
      BY <2>1, <3>1 DEF Validate
    <3> QED BY <3>1, <3>2 DEF IInv, PassInv
  <2>2. CASE UNCHANGED validated
    BY <2>2
  <2>3. Validate \/ UNCHANGED validated \/ UNCHANGED vars
    BY DEF Next, RunStep, SetRefused, SetTooLong, SetString, SetterFrame, Run, Login, GetOrDelete, Post,
           PostResource, VerifyMetadata, Register, ModCertReq, ProcessTests, CheckTestResults, PutData,
           PutDataFromFile, FreeTestSession, server
  <2> QED
    BY <2>1, <2>2, <2>3
<1> QED BY <1>1, Invariance, PTL DEF Spec, FreshCtxValidatesPassed
=============================================================================
