-------------------------- MODULE AmvpTransportProofs --------------------------
(***************************************************************************)
(* Proofs about AmvpTransport for any number of tokens: the types, the      *)
(* bounds on one call, the freshness of the token, and that the calls       *)
(* implement AmvpCall.                                                      *)
(***************************************************************************)
EXTENDS AmvpTransport, TLAPS

(* The client is waiting for the answer to a login, its own call's or a     *)
(* refresh's.                                                               *)
InLogin == refreshing \/ action = LOGIN

(* Where the client is determines what is in flight.                        *)
ControlInv ==
    /\ pc = "wait" <=> net # NoMsg
    /\ pc = "wait" <=> net.type \in {"req", "rsp"}
    /\ pc # "idle" <=> result = "pending"
    /\ pc # "idle" => action \in Actions
    /\ refreshing => action # LOGIN /\ ~retried
    /\ pc = "login" => InLogin
    /\ pc = "send" => ~InLogin
    /\ pc = "wait" /\ net.type = "req" => (net.login <=> InLogin)
    /\ action = DELETE /\ (retried \/ refreshing) => rc = 401

(* An answer says whether the action was carried out: nothing is applied    *)
(* when a request is about to be sent or repeated.                          *)
AppliedInv ==
    /\ pc \in {"send", "login"} => applied = 0
    /\ pc = "wait" /\ net.type = "req" => applied = 0
    /\ pc = "wait" /\ refreshing => applied = 0
    /\ pc = "wait" /\ net.type = "rsp" /\ ~InLogin =>
          /\ net.code = 200 => applied = 1
          /\ applied # 0 => net.code \in {0, 200}
          /\ net.code = 0 => lost
    /\ pc = "wait" /\ net.type = "rsp" /\ action = LOGIN =>
          /\ net.code = 200 /\ net.body = "expected" => applied = 1
          /\ applied # 0 => lost \/ (net.code = 200 /\ net.body = "expected")

(* The token of the ctx, of the request and of the answer agree.            *)
TokenInv ==
    /\ jwt_token \in {issued, NoToken}
    /\ pc = "wait" /\ InLogin => jwt_token = NoToken
    /\ pc = "wait" /\ InLogin /\ net.type = "rsp" /\ net.body = "expected" => net.token = issued
    /\ pc = "wait" /\ ~InLogin /\ net.type = "req" => net.token = jwt_token
    /\ pc = "wait" /\ ~InLogin /\ net.type = "rsp" /\ net.body = "jwt_expired" => jwt_token # NoToken
    /\ pc = "login" /\ refreshing => jwt_token # NoToken
    /\ pc = "wait" /\ net.type = "req" /\ net.login => (refreshing <=> net.access # NoToken)

(* How many exchanges can have been made to get where the client is.        *)
FellBack == action = "AMVP_NET_POST_VS_RESP" /\ verb = "PUT"
Base == (IF retried THEN 3 ELSE 0) + (IF FellBack THEN 1 ELSE 0)

CountInv ==
    /\ exchanges <= 5
    /\ pc = "send" => exchanges <= Base
    /\ pc = "wait" /\ ~InLogin => exchanges <= Base + 1
    /\ pc = "login" => exchanges <= 2 /\ logins = 0
    /\ pc = "wait" /\ InLogin => exchanges <= 3 /\ logins = 1
    /\ pc \in {"send", "wait"} /\ ~InLogin /\ ~retried => logins = 0
    /\ retried => logins = 1
    /\ logins <= 1
    /\ refreshing \/ retried => expiredSeen
    /\ pc = "wait" /\ ~InLogin /\ net.type = "rsp" /\ net.body = "jwt_expired" => expiredSeen
    /\ action # LOGIN /\ logins = 1 => expiredSeen
    /\ result = "AMVP_JWT_EXPIRED" => logins = 1

IInv == TypeOK /\ ControlInv /\ AppliedInv /\ TokenInv /\ CountInv

(* inspect_http_code() returns a result, success exactly for a 200, and     *)
(* asks for a PUT or a refresh only for a 400 or a 401.                     *)
LEMMA InspectRange ==
    ASSUME NEW code \in Codes, NEW body \in Bodies
    PROVE  /\ InspectHttpCode(code, body) \in Results
           /\ InspectHttpCode(code, body) = "AMVP_SUCCESS" <=> code = 200
           /\ InspectHttpCode(code, body) = "AMVP_UNSUPPORTED_OP" => code = 400
           /\ InspectHttpCode(code, body) = "AMVP_JWT_EXPIRED" => code = 401 /\ body = "jwt_expired"
<1>1. CASE code = 200
  BY <1>1 DEF InspectHttpCode, Results
<1>2. CASE code # 200 /\ body \in {"protocol", "protocol_expired"}
  BY <1>2 DEF InspectHttpCode, Results
<1>3. CASE code = 400 /\ body \notin {"protocol", "protocol_expired"}
  BY <1>3 DEF InspectHttpCode, Results
<1>4. CASE code = 401 /\ body \notin {"protocol", "protocol_expired"}
  BY <1>4 DEF InspectHttpCode, Results
<1>5. CASE code \in {0, 500} /\ body \notin {"protocol", "protocol_expired"}
  BY <1>5 DEF InspectHttpCode, Results
<1> QED
  BY <1>1, <1>2, <1>3, <1>4, <1>5 DEF Codes

(* No call returns the value that stands for a call under way.              *)
LEMMA NotPending == "pending" \notin Results /\ "none" \notin Results /\ "none" \notin Actions
  BY DEF Results, Actions

(* Every action has a verb.                                                  *)
LEMMA VerbType == \A a : Verb(a) \in {"GET", "POST", "PUT", "DELETE"}
  BY DEF Verb

(* The fields of the messages.                                              *)
LEMMA Messages ==
    /\ NoMsg.type = "none"
    /\ \A l, v, t, a : LET m == Request(l, v, t, a) IN
          /\ m.type = "req" /\ m.login = l /\ m.verb = v /\ m.token = t /\ m.access = a
          /\ m # NoMsg
    /\ \A c, b, t : LET m == Response(c, b, t) IN
          /\ m.type = "rsp" /\ m.code = c /\ m.body = b /\ m.token = t
          /\ m # NoMsg
  BY DEF NoMsg, Request, Response

(* A message in flight is a request or a response.                          *)
LEMMA NetType ==
    ASSUME TypeOK
    PROVE  /\ net.type = "req" => net \in Requests
           /\ net.type = "rsp" => net \in Responses /\ net.code \in Codes /\ net.body \in Bodies
                                  /\ net.token \in 0 .. MaxTokens
  BY DEF TypeOK, Requests, Responses, NoMsg

(* A login's result is success exactly for the expected answer.             *)
LEMMA LoginResultRange ==
    ASSUME TypeOK, net.type = "rsp"
    PROVE  /\ LoginResults \subseteq Results
           /\ "AMVP_SUCCESS" \in LoginResults <=> net.code = 200 /\ net.body = "expected"
<1>1. net.code \in Codes /\ net.body \in Bodies
  BY NetType
<1>2. CASE InspectHttpCode(net.code, net.body) # "AMVP_SUCCESS"
  BY <1>1, <1>2, InspectRange DEF LoginResults
<1>3. CASE InspectHttpCode(net.code, net.body) = "AMVP_SUCCESS"
  <2>1. net.code = 200
    BY <1>1, <1>3, InspectRange
  <2> QED
    BY <1>3, <2>1 DEF LoginResults, Results
<1> QED BY <1>2, <1>3

(* What the messages in flight are made of.                                 *)
LEMMA MessageTypes ==
    /\ \A l \in BOOLEAN, v \in {"GET", "POST", "PUT", "DELETE"}, t \in 0 .. MaxTokens, a \in 0 .. MaxTokens :
          Request(l, v, t, a) \in Requests
    /\ \A c \in Codes, b \in Bodies, t \in 0 .. MaxTokens : Response(c, b, t) \in Responses
  BY DEF Request, Response, Requests, Responses

(* The request Send puts in flight.                                         *)
LEMMA SendEffect ==
    ASSUME Send
    PROVE  /\ net'.type = "req" /\ net' # NoMsg
           /\ ~net'.login /\ net'.token = jwt_token /\ net'.access = NoToken
           /\ pc = "send" /\ pc' = "wait" /\ exchanges' = exchanges + 1
           /\ UNCHANGED <<client, jwt_token, result, server, applied, lost, logins, expiredSeen>>
<1>1. net' = Request(FALSE, verb, jwt_token, NoToken)
  BY DEF Send
<1>2. net'.type = "req" /\ net' # NoMsg /\ ~net'.login /\ net'.token = jwt_token /\ net'.access = NoToken
  BY <1>1 DEF Request, NoMsg
<1>3. /\ pc = "send" /\ pc' = "wait" /\ exchanges' = exchanges + 1
      /\ UNCHANGED <<client, jwt_token, result, server, applied, lost, logins, expiredSeen>>
  BY DEF Send
<1> QED BY <1>2, <1>3

(* The request SendLogin puts in flight.                                    *)
LEMMA SendLoginEffect ==
    ASSUME SendLogin
    PROVE  /\ net'.type = "req" /\ net' # NoMsg
           /\ net'.login /\ net'.token = NoToken
           /\ refreshing => net'.access = jwt_token
           /\ ~refreshing => net'.access = NoToken
           /\ pc = "login" /\ pc' = "wait" /\ jwt_token' = NoToken
           /\ exchanges' = exchanges + 1 /\ logins' = logins + 1
           /\ UNCHANGED <<client, result, server, applied, lost, expiredSeen>>
<1>1. net' = Request(TRUE, "POST", NoToken, IF refreshing THEN jwt_token ELSE NoToken)
  BY DEF SendLogin
<1>2. /\ net'.type = "req" /\ net' # NoMsg /\ net'.login /\ net'.token = NoToken
      /\ net'.access = IF refreshing THEN jwt_token ELSE NoToken
  BY <1>1 DEF Request, NoMsg
<1>3. /\ pc = "login" /\ pc' = "wait" /\ jwt_token' = NoToken
      /\ exchanges' = exchanges + 1 /\ logins' = logins + 1
      /\ UNCHANGED <<client, result, server, applied, lost, expiredSeen>>
  BY DEF SendLogin
<1> QED BY <1>2, <1>3

(* What curl reports for a lost message.                                    *)
LEMMA LoseEffect ==
    ASSUME LoseMessage
    PROVE  /\ net'.type = "rsp" /\ net' # NoMsg
           /\ net'.code = 0 /\ net'.body = "empty" /\ net'.token = NoToken
           /\ pc = "wait" /\ lost'
           /\ UNCHANGED <<pc, client, jwt_token, result, server, applied, exchanges, logins, expiredSeen>>
<1>1. net' = Response(0, "empty", NoToken)
  BY DEF LoseMessage
<1>2. net'.type = "rsp" /\ net' # NoMsg /\ net'.code = 0 /\ net'.body = "empty" /\ net'.token = NoToken
  BY <1>1 DEF Response, NoMsg
<1>3. /\ pc = "wait" /\ lost'
      /\ UNCHANGED <<pc, client, jwt_token, result, server, applied, exchanges, logins, expiredSeen>>
  BY DEF LoseMessage
<1> QED BY <1>2, <1>3

(* What is left of a damaged answer.                                        *)
LEMMA DamageEffect ==
    ASSUME DamageBody
    PROVE  /\ net'.type = "rsp" /\ net' # NoMsg
           /\ net'.code = net.code /\ net'.body = "garbage" /\ net'.token = NoToken
           /\ pc = "wait" /\ net.type = "rsp" /\ lost'
           /\ UNCHANGED <<pc, client, jwt_token, result, server, applied, exchanges, logins, expiredSeen>>
<1>1. net' = Response(net.code, "garbage", NoToken)
  BY DEF DamageBody
<1>2. net'.type = "rsp" /\ net' # NoMsg /\ net'.code = net.code /\ net'.body = "garbage" /\ net'.token = NoToken
  BY <1>1 DEF Response, NoMsg
<1>3. /\ pc = "wait" /\ net.type = "rsp" /\ lost'
      /\ UNCHANGED <<pc, client, jwt_token, result, server, applied, exchanges, logins, expiredSeen>>
  BY DEF DamageBody, InFlight
<1> QED BY <1>2, <1>3

(* Every step leaves a well-formed message, or none, in flight.             *)
LEMMA NetTypeStep ==
    ASSUME TypeOK, [Next]_vars
    PROVE  net' \in Requests \cup Responses \cup {NoMsg}
<1> DEFINE Tokens == 0 .. MaxTokens
<1> USE TransportConstants
<1>0. /\ verb \in {"GET", "POST", "PUT", "DELETE"} /\ jwt_token \in Tokens /\ issued \in Tokens
      /\ net \in Requests \cup Responses \cup {NoMsg} /\ NoToken \in Tokens
      /\ 0 \in Codes /\ 200 \in Codes /\ 401 \in Codes
      /\ {"empty", "garbage", "expected", "jwt_expired", "protocol_expired"} \subseteq Bodies
      /\ {"jwt_invalid", "protocol", "other"} \subseteq Bodies
  BY DEF TypeOK, NoToken, Codes, Bodies
<1>1. CASE Send
  BY <1>0, <1>1, MessageTypes DEF Send
<1>2. CASE SendLogin
  <2>1. net' = Request(TRUE, "POST", NoToken, IF refreshing THEN jwt_token ELSE NoToken)
    BY <1>2 DEF SendLogin
  <2>2. (IF refreshing THEN jwt_token ELSE NoToken) \in Tokens
    BY <1>0
  <2> QED BY <1>0, <2>1, <2>2, MessageTypes
<1>3. CASE ServerLogin
  <2>1. net' = Response(200, "expected", issued + 1) /\ issued < MaxTokens
    BY <1>3 DEF ServerLogin
  <2>2. issued + 1 \in Tokens
    BY <2>1 DEF TypeOK
  <2> QED BY <1>0, <2>1, <2>2, MessageTypes
<1>4. CASE ServerApplies
  BY <1>0, <1>4, MessageTypes DEF ServerApplies
<1>5. CASE ServerRefuses
  <2>1. PICK code \in Codes, body \in {"jwt_invalid", "protocol", "other"} : net' = Response(code, body, NoToken)
    BY <1>5 DEF ServerRefuses
  <2> QED BY <1>0, <2>1, MessageTypes
<1>6. CASE ServerSaysExpired
  <2>1. PICK body \in {"jwt_expired", "protocol_expired"} : net' = Response(401, body, NoToken)
    BY <1>6 DEF ServerSaysExpired
  <2> QED BY <1>0, <2>1, MessageTypes
<1>7. CASE LoseMessage
  BY <1>0, <1>7, MessageTypes DEF LoseMessage
<1>8. CASE DamageBody
  <2>1. net.code \in Codes /\ net' = Response(net.code, "garbage", NoToken)
    BY <1>8, NetType DEF DamageBody, InFlight
  <2> QED BY <1>0, <2>1, MessageTypes
<1>9. CASE FallBackToPut \/ StartRefresh \/ ReceiveAnswer \/ LoginFails \/ LoginSucceeds \/ RefreshSucceeds
  BY <1>9
     DEF FallBackToPut, StartRefresh, ReceiveAnswer, LoginFails, LoginSucceeds,
         RefreshSucceeds
<1>10. CASE (\E a \in Actions : Call(a)) \/ RefuseCall \/ LoginNotBuilt \/ TokenExpires \/ UNCHANGED vars
  BY <1>0, <1>10 DEF Call, RefuseCall, LoginNotBuilt, TokenExpires, vars
<1> QED
  BY <1>1, <1>2, <1>3, <1>4, <1>5, <1>6, <1>7, <1>8, <1>9, <1>10
     DEF Next, ClientStep, ServerStep

(* Every step keeps the types.                                               *)
LEMMA TypeOKStep == IInv /\ [Next]_vars => TypeOK'
<1> SUFFICES ASSUME IInv, [Next]_vars PROVE TypeOK'
  OBVIOUS
<1> USE TransportConstants DEF IInv
<1>1. ASSUME NEW a \in Actions, Call(a) PROVE TypeOK'
  BY <1>1, NetTypeStep
     DEF Call, Verb, client, server, TypeOK, NoToken, Actions, Codes, LOGIN, DELETE
<1>2. CASE Send
  BY <1>2, NetTypeStep, SendEffect DEF client, server, history, TypeOK, NoToken, LOGIN, DELETE
<1>3. CASE SendLogin
  BY <1>3, NetTypeStep, SendLoginEffect
     DEF client, server, history, TypeOK, NoToken, LOGIN, DELETE
<1>4. CASE LoginNotBuilt
  BY <1>4, NetTypeStep
     DEF LoginNotBuilt, Finish, Results, client, server, history, TypeOK, NoToken, LOGIN,
         DELETE
<1>5. CASE RefuseCall
  BY <1>5, NetTypeStep
     DEF RefuseCall, Finish, Results, client, server, history, TypeOK, NoToken, LOGIN, DELETE
<1>6. CASE FallBackToPut
  BY <1>6, NetTypeStep, NetType, InspectRange, NotPending
     DEF FallBackToPut, AwaitingAction, MustPut, Inspected, NewRc, InFlight, client, server,
         history, TypeOK, NoToken, LOGIN, DELETE
<1>7. CASE StartRefresh
  BY <1>7, NetTypeStep, NetType, InspectRange, NotPending
     DEF StartRefresh, AwaitingAction, MustRefresh, Inspected, NewRc, InFlight, client,
         server, history, TypeOK, NoToken, LOGIN, DELETE
<1>8. CASE ReceiveAnswer
  BY <1>8, NetTypeStep, NetType, InspectRange, NotPending
     DEF ReceiveAnswer, AwaitingAction, MustRefresh, MustPut, Inspected, NewRc, InFlight,
         Finish, client, server, history, TypeOK, NoToken, LOGIN, DELETE
<1>9. CASE LoginFails
  BY <1>9, NetTypeStep, NetType, LoginResultRange, NotPending
     DEF LoginFails, AwaitingLogin, InFlight, Finish, client, server, history, TypeOK,
         NoToken, LOGIN, DELETE
<1>10. CASE LoginSucceeds
  BY <1>10, NetTypeStep, NetType, LoginResultRange, NotPending
     DEF LoginSucceeds, AwaitingLogin, InFlight, Finish, Results, client, server, history,
         TypeOK, NoToken, LOGIN, DELETE
<1>11. CASE RefreshSucceeds
  BY <1>11, NetTypeStep, NetType, VerbType
     DEF RefreshSucceeds, AwaitingLogin, InFlight, client, server, history, TypeOK, NoToken,
         LOGIN, DELETE
<1>12. CASE ServerLogin
  <2>1. issued' \in 0 .. MaxTokens /\ live' \in 0 .. MaxTokens
    BY <1>12 DEF ServerLogin, TypeOK
  <2>2. applied' \in Nat
    BY <1>12 DEF ServerLogin, TypeOK
  <2>3. UNCHANGED <<pc, client, jwt_token, result, lost, exchanges, logins, expiredSeen>>
    BY <1>12 DEF ServerLogin
  <2>4. net' \in Requests \cup Responses \cup {NoMsg}
    BY NetTypeStep
  <2> QED
    BY <2>1, <2>2, <2>3, <2>4 DEF client, TypeOK
<1>13. CASE ServerApplies
  BY <1>13, NetTypeStep
     DEF ServerApplies, InFlight, Codes, Bodies, client, server, history, TypeOK, NoToken,
         LOGIN, DELETE
<1>14. CASE ServerRefuses
  BY <1>14, NetTypeStep
     DEF ServerRefuses, InFlight, Codes, Bodies, client, server, history, TypeOK, NoToken,
         LOGIN, DELETE
<1>15. CASE ServerSaysExpired
  BY <1>15, NetTypeStep
     DEF ServerSaysExpired, InFlight, Codes, Bodies, client, server, history, TypeOK, NoToken,
         LOGIN, DELETE
<1>16. CASE TokenExpires
  BY <1>16, NetTypeStep
     DEF TokenExpires, client, server, history, TypeOK, NoToken, LOGIN, DELETE
<1>17. CASE LoseMessage
  BY <1>17, NetTypeStep, LoseEffect DEF client, server, history, TypeOK, NoToken, LOGIN, DELETE
<1>18. CASE DamageBody
  BY <1>18, NetTypeStep, DamageEffect
     DEF client, server, history, TypeOK, NoToken, LOGIN, DELETE
<1>19. CASE UNCHANGED vars
  BY <1>19, NetTypeStep DEF vars, client, server, history, TypeOK, NoToken
<1> QED
  BY <1>1, <1>2, <1>3, <1>4, <1>5, <1>6, <1>7, <1>8, <1>9, <1>10, <1>11, <1>12, <1>13, <1>14,
     <1>15, <1>16, <1>17, <1>18, <1>19
     DEF Next, ClientStep, ServerStep

(* Every step keeps where the client is.                                     *)
LEMMA ControlInvStep == IInv /\ [Next]_vars => ControlInv'
<1> SUFFICES ASSUME IInv, [Next]_vars PROVE ControlInv'
  OBVIOUS
<1> USE TransportConstants DEF IInv
<1>1. ASSUME NEW a \in Actions, Call(a) PROVE ControlInv'
  BY <1>1
     DEF Call, Verb, client, server, ControlInv, InLogin, TypeOK, Actions, Codes, LOGIN,
         DELETE
<1>2. CASE Send
  BY <1>2, SendEffect DEF client, server, history, ControlInv, InLogin, TypeOK, LOGIN, DELETE
<1>3. CASE SendLogin
  BY <1>3, SendLoginEffect
     DEF client, server, history, ControlInv, InLogin, TypeOK, LOGIN, DELETE
<1>4. CASE LoginNotBuilt
  BY <1>4
     DEF LoginNotBuilt, Finish, client, server, history, ControlInv, InLogin, TypeOK, LOGIN,
         DELETE
<1>5. CASE RefuseCall
  BY <1>5
     DEF RefuseCall, Finish, client, server, history, ControlInv, InLogin, TypeOK, LOGIN,
         DELETE
<1>6. CASE FallBackToPut
  BY <1>6, NetType, InspectRange, NotPending, Messages
     DEF FallBackToPut, AwaitingAction, MustPut, Inspected, NewRc, InFlight, client, server,
         history, ControlInv, InLogin, TypeOK, LOGIN, DELETE
<1>7. CASE StartRefresh
  BY <1>7, NetType, InspectRange, NotPending, Messages
     DEF StartRefresh, AwaitingAction, MustRefresh, Inspected, NewRc, InFlight, client,
         server, history, ControlInv, InLogin, TypeOK, LOGIN, DELETE
<1>8. CASE ReceiveAnswer
  BY <1>8, NetType, InspectRange, NotPending, Messages
     DEF ReceiveAnswer, AwaitingAction, MustRefresh, MustPut, Inspected, NewRc, InFlight,
         Finish, client, server, history, ControlInv, InLogin, TypeOK, LOGIN, DELETE
<1>9. CASE LoginFails
  BY <1>9, NetType, LoginResultRange, NotPending, Messages
     DEF LoginFails, AwaitingLogin, InFlight, Finish, client, server, history, ControlInv,
         InLogin, TypeOK, LOGIN, DELETE
<1>10. CASE LoginSucceeds
  BY <1>10, NetType, LoginResultRange, NotPending, Messages
     DEF LoginSucceeds, AwaitingLogin, InFlight, Finish, client, server, history, ControlInv,
         InLogin, TypeOK, LOGIN, DELETE
<1>11. CASE RefreshSucceeds
  BY <1>11, NetType, LoginResultRange, NotPending, Messages
     DEF RefreshSucceeds, AwaitingLogin, InFlight, client, server, history, ControlInv,
         InLogin, TypeOK, LOGIN, DELETE
<1>12. CASE ServerLogin
  BY <1>12, Messages
     DEF ServerLogin, InFlight, client, server, history, ControlInv, InLogin, TypeOK, LOGIN,
         DELETE
<1>13. CASE ServerApplies
  BY <1>13, Messages
     DEF ServerApplies, InFlight, client, server, history, ControlInv, InLogin, TypeOK, LOGIN,
         DELETE
<1>14. CASE ServerRefuses
  BY <1>14, Messages
     DEF ServerRefuses, InFlight, client, server, history, ControlInv, InLogin, TypeOK, LOGIN,
         DELETE
<1>15. CASE ServerSaysExpired
  BY <1>15, Messages
     DEF ServerSaysExpired, InFlight, client, server, history, ControlInv, InLogin, TypeOK,
         LOGIN, DELETE
<1>16. CASE TokenExpires
  BY <1>16 DEF TokenExpires, client, server, history, ControlInv, InLogin, TypeOK, LOGIN, DELETE
<1>17. CASE LoseMessage
  BY <1>17, LoseEffect DEF client, server, history, ControlInv, InLogin, TypeOK, LOGIN, DELETE
<1>18. CASE DamageBody
  BY <1>18, DamageEffect DEF client, server, history, ControlInv, InLogin, TypeOK, LOGIN, DELETE
<1>19. CASE UNCHANGED vars
  BY <1>19 DEF vars, client, server, history, ControlInv, InLogin, TypeOK
<1> QED
  BY <1>1, <1>2, <1>3, <1>4, <1>5, <1>6, <1>7, <1>8, <1>9, <1>10, <1>11, <1>12, <1>13, <1>14,
     <1>15, <1>16, <1>17, <1>18, <1>19
     DEF Next, ClientStep, ServerStep

(* Every step keeps what has been applied.                                   *)
LEMMA AppliedInvStep == IInv /\ [Next]_vars => AppliedInv'
<1> SUFFICES ASSUME IInv, [Next]_vars PROVE AppliedInv'
  OBVIOUS
<1> USE TransportConstants DEF IInv
<1>1. ASSUME NEW a \in Actions, Call(a) PROVE AppliedInv'
  BY <1>1
     DEF Call, Verb, client, server, AppliedInv, ControlInv, InLogin, TypeOK, Actions, Codes,
         LOGIN, DELETE
<1>2. CASE Send
  BY <1>2, SendEffect
     DEF client, server, history, AppliedInv, ControlInv, InLogin, TypeOK, LOGIN, DELETE
<1>3. CASE SendLogin
  BY <1>3, SendLoginEffect
     DEF client, server, history, AppliedInv, ControlInv, InLogin, TypeOK, LOGIN, DELETE
<1>4. CASE LoginNotBuilt
  BY <1>4
     DEF LoginNotBuilt, Finish, client, server, history, AppliedInv, ControlInv, InLogin,
         TypeOK, LOGIN, DELETE
<1>5. CASE RefuseCall
  BY <1>5
     DEF RefuseCall, Finish, client, server, history, AppliedInv, ControlInv, InLogin, TypeOK,
         LOGIN, DELETE
<1>6. CASE FallBackToPut
  BY <1>6, NetType, InspectRange, NotPending, Messages
     DEF FallBackToPut, AwaitingAction, MustPut, Inspected, NewRc, InFlight, client, server,
         history, AppliedInv, ControlInv, InLogin, TypeOK, LOGIN, DELETE
<1>7. CASE StartRefresh
  BY <1>7, NetType, InspectRange, NotPending, Messages
     DEF StartRefresh, AwaitingAction, MustRefresh, Inspected, NewRc, InFlight, client,
         server, history, AppliedInv, ControlInv, InLogin, TypeOK, LOGIN, DELETE
<1>8. CASE ReceiveAnswer
  BY <1>8, NetType, InspectRange, NotPending, Messages
     DEF ReceiveAnswer, AwaitingAction, MustRefresh, MustPut, Inspected, NewRc, InFlight,
         Finish, client, server, history, AppliedInv, ControlInv, InLogin, TypeOK, LOGIN,
         DELETE
<1>9. CASE LoginFails
  BY <1>9, NetType, LoginResultRange, NotPending, Messages
     DEF LoginFails, AwaitingLogin, InFlight, Finish, client, server, history, AppliedInv,
         ControlInv, InLogin, TypeOK, LOGIN, DELETE
<1>10. CASE LoginSucceeds
  BY <1>10, NetType, LoginResultRange, NotPending, Messages
     DEF LoginSucceeds, AwaitingLogin, InFlight, Finish, client, server, history, AppliedInv,
         ControlInv, InLogin, TypeOK, LOGIN, DELETE
<1>11. CASE RefreshSucceeds
  BY <1>11, NetType, LoginResultRange, NotPending, Messages
     DEF RefreshSucceeds, AwaitingLogin, InFlight, client, server, history, AppliedInv,
         ControlInv, InLogin, TypeOK, LOGIN, DELETE
<1>12. CASE ServerLogin
  BY <1>12, Messages
     DEF ServerLogin, InFlight, client, server, history, AppliedInv, ControlInv, InLogin,
         TypeOK, LOGIN, DELETE
<1>13. CASE ServerApplies
  BY <1>13, Messages
     DEF ServerApplies, InFlight, client, server, history, AppliedInv, ControlInv, InLogin,
         TypeOK, LOGIN, DELETE
<1>14. CASE ServerRefuses
  BY <1>14, Messages
     DEF ServerRefuses, InFlight, client, server, history, AppliedInv, ControlInv, InLogin,
         TypeOK, LOGIN, DELETE
<1>15. CASE ServerSaysExpired
  BY <1>15, Messages
     DEF ServerSaysExpired, InFlight, client, server, history, AppliedInv, ControlInv,
         InLogin, TypeOK, LOGIN, DELETE
<1>16. CASE TokenExpires
  BY <1>16
     DEF TokenExpires, client, server, history, AppliedInv, ControlInv, InLogin, TypeOK,
         LOGIN, DELETE
<1>17. CASE LoseMessage
  BY <1>17, LoseEffect
     DEF client, server, history, AppliedInv, ControlInv, InLogin, TypeOK, LOGIN, DELETE
<1>18. CASE DamageBody
  BY <1>18, DamageEffect
     DEF client, server, history, AppliedInv, ControlInv, InLogin, TypeOK, LOGIN, DELETE
<1>19. CASE UNCHANGED vars
  BY <1>19 DEF vars, client, server, history, AppliedInv, ControlInv, InLogin, TypeOK
<1> QED
  BY <1>1, <1>2, <1>3, <1>4, <1>5, <1>6, <1>7, <1>8, <1>9, <1>10, <1>11, <1>12, <1>13, <1>14,
     <1>15, <1>16, <1>17, <1>18, <1>19
     DEF Next, ClientStep, ServerStep

(* Every step keeps which token is held.                                     *)
LEMMA TokenInvStep == IInv /\ [Next]_vars => TokenInv'
<1> SUFFICES ASSUME IInv, [Next]_vars PROVE TokenInv'
  OBVIOUS
<1> USE TransportConstants DEF IInv
<1>1. ASSUME NEW a \in Actions, Call(a) PROVE TokenInv'
  BY <1>1
     DEF Call, Verb, client, server, TokenInv, ControlInv, InLogin, TypeOK, NoToken, Actions,
         Codes, LOGIN, DELETE
<1>2. CASE Send
  BY <1>2, SendEffect
     DEF client, server, history, TokenInv, ControlInv, InLogin, TypeOK, NoToken, LOGIN,
         DELETE
<1>3. CASE SendLogin
  BY <1>3, SendLoginEffect
     DEF client, server, history, TokenInv, ControlInv, InLogin, TypeOK, NoToken, LOGIN,
         DELETE
<1>4. CASE LoginNotBuilt
  BY <1>4
     DEF LoginNotBuilt, Finish, client, server, history, TokenInv, ControlInv, InLogin,
         TypeOK, NoToken, LOGIN, DELETE
<1>5. CASE RefuseCall
  BY <1>5
     DEF RefuseCall, Finish, client, server, history, TokenInv, ControlInv, InLogin, TypeOK,
         NoToken, LOGIN, DELETE
<1>6. CASE FallBackToPut
  BY <1>6, NetType, InspectRange, NotPending, Messages
     DEF FallBackToPut, AwaitingAction, MustPut, Inspected, NewRc, InFlight, client, server,
         history, TokenInv, ControlInv, InLogin, TypeOK, NoToken, LOGIN, DELETE
<1>7. CASE StartRefresh
  BY <1>7, NetType, InspectRange, NotPending, Messages
     DEF StartRefresh, AwaitingAction, MustRefresh, Inspected, NewRc, InFlight, client,
         server, history, TokenInv, ControlInv, InLogin, TypeOK, NoToken, LOGIN, DELETE
<1>8. CASE ReceiveAnswer
  BY <1>8, NetType, InspectRange, NotPending, Messages
     DEF ReceiveAnswer, AwaitingAction, MustRefresh, MustPut, Inspected, NewRc, InFlight,
         Finish, client, server, history, TokenInv, ControlInv, InLogin, TypeOK, NoToken,
         LOGIN, DELETE
<1>9. CASE LoginFails
  BY <1>9, NetType, LoginResultRange, NotPending, Messages
     DEF LoginFails, AwaitingLogin, InFlight, Finish, client, server, history, TokenInv,
         ControlInv, InLogin, TypeOK, NoToken, LOGIN, DELETE
<1>10. CASE LoginSucceeds
  BY <1>10, NetType, LoginResultRange, NotPending, Messages
     DEF LoginSucceeds, AwaitingLogin, InFlight, Finish, client, server, history, TokenInv,
         ControlInv, InLogin, TypeOK, NoToken, LOGIN, DELETE
<1>11. CASE RefreshSucceeds
  BY <1>11, NetType, LoginResultRange, NotPending, Messages
     DEF RefreshSucceeds, AwaitingLogin, InFlight, client, server, history, TokenInv,
         ControlInv, InLogin, TypeOK, NoToken, LOGIN, DELETE
<1>12. CASE ServerLogin
  BY <1>12, Messages
     DEF ServerLogin, InFlight, client, server, history, TokenInv, ControlInv, InLogin,
         TypeOK, NoToken, LOGIN, DELETE
<1>13. CASE ServerApplies
  BY <1>13, Messages
     DEF ServerApplies, InFlight, client, server, history, TokenInv, ControlInv, InLogin,
         TypeOK, NoToken, LOGIN, DELETE
<1>14. CASE ServerRefuses
  BY <1>14, Messages
     DEF ServerRefuses, InFlight, client, server, history, TokenInv, ControlInv, InLogin,
         TypeOK, NoToken, LOGIN, DELETE
<1>15. CASE ServerSaysExpired
  BY <1>15, Messages
     DEF ServerSaysExpired, InFlight, client, server, history, TokenInv, ControlInv, InLogin,
         TypeOK, NoToken, LOGIN, DELETE
<1>16. CASE TokenExpires
  BY <1>16
     DEF TokenExpires, client, server, history, TokenInv, ControlInv, InLogin, TypeOK,
         NoToken, LOGIN, DELETE
<1>17. CASE LoseMessage
  BY <1>17, LoseEffect
     DEF client, server, history, TokenInv, ControlInv, InLogin, TypeOK, NoToken, LOGIN,
         DELETE
<1>18. CASE DamageBody
  BY <1>18, DamageEffect
     DEF client, server, history, TokenInv, ControlInv, InLogin, TypeOK, NoToken, LOGIN,
         DELETE
<1>19. CASE UNCHANGED vars
  BY <1>19 DEF vars, client, server, history, TokenInv, ControlInv, InLogin, TypeOK, NoToken
<1> QED
  BY <1>1, <1>2, <1>3, <1>4, <1>5, <1>6, <1>7, <1>8, <1>9, <1>10, <1>11, <1>12, <1>13, <1>14,
     <1>15, <1>16, <1>17, <1>18, <1>19
     DEF Next, ClientStep, ServerStep

(* Every step keeps how often the server was asked.                          *)
LEMMA CountInvStep == IInv /\ [Next]_vars => CountInv'
<1> SUFFICES ASSUME IInv, [Next]_vars PROVE CountInv'
  OBVIOUS
<1> USE TransportConstants DEF IInv
<1>1. ASSUME NEW a \in Actions, Call(a) PROVE CountInv'
  BY <1>1
     DEF Call, Verb, client, server, CountInv, ControlInv, InLogin, TypeOK, FellBack, Base,
         Actions, Codes, LOGIN, DELETE
<1>2. CASE Send
  BY <1>2, SendEffect
     DEF client, server, history, CountInv, ControlInv, InLogin, TypeOK, FellBack, Base, Verb,
         LOGIN, DELETE
<1>3. CASE SendLogin
  BY <1>3, SendLoginEffect
     DEF client, server, history, CountInv, ControlInv, InLogin, TypeOK, FellBack, Base, Verb,
         LOGIN, DELETE
<1>4. CASE LoginNotBuilt
  BY <1>4
     DEF LoginNotBuilt, Finish, client, server, history, CountInv, ControlInv, InLogin,
         TypeOK, FellBack, Base, Verb, LOGIN, DELETE
<1>5. CASE RefuseCall
  BY <1>5
     DEF RefuseCall, Finish, client, server, history, CountInv, ControlInv, InLogin, TypeOK,
         FellBack, Base, Verb, LOGIN, DELETE
<1>6. CASE FallBackToPut
  BY <1>6, NetType, InspectRange, NotPending, Messages
     DEF FallBackToPut, AwaitingAction, MustPut, Inspected, NewRc, InFlight, client, server,
         history, CountInv, ControlInv, InLogin, TypeOK, FellBack, Base, Verb, LOGIN, DELETE
<1>7. CASE StartRefresh
  BY <1>7, NetType, InspectRange, NotPending, Messages
     DEF StartRefresh, AwaitingAction, MustRefresh, Inspected, NewRc, InFlight, client,
         server, history, CountInv, ControlInv, InLogin, TypeOK, FellBack, Base, Verb, LOGIN,
         DELETE
<1>8. CASE ReceiveAnswer
  BY <1>8, NetType, InspectRange, NotPending, Messages
     DEF ReceiveAnswer, AwaitingAction, MustRefresh, MustPut, Inspected, NewRc, InFlight,
         Finish, client, server, history, CountInv, ControlInv, InLogin, TypeOK, FellBack,
         Base, Verb, LOGIN, DELETE
<1>9. CASE LoginFails
  BY <1>9, NetType, LoginResultRange, NotPending, Messages
     DEF LoginFails, AwaitingLogin, InFlight, Finish, client, server, history, CountInv,
         ControlInv, InLogin, TypeOK, FellBack, Base, Verb, LOGIN, DELETE
<1>10. CASE LoginSucceeds
  BY <1>10, NetType, LoginResultRange, NotPending, Messages
     DEF LoginSucceeds, AwaitingLogin, InFlight, Finish, client, server, history, CountInv,
         ControlInv, InLogin, TypeOK, FellBack, Base, Verb, LOGIN, DELETE
<1>11. CASE RefreshSucceeds
  BY <1>11, NetType, LoginResultRange, NotPending, Messages
     DEF RefreshSucceeds, AwaitingLogin, InFlight, client, server, history, CountInv,
         ControlInv, InLogin, TypeOK, FellBack, Base, Verb, LOGIN, DELETE
<1>12. CASE ServerLogin
  BY <1>12, Messages
     DEF ServerLogin, InFlight, client, server, history, CountInv, ControlInv, InLogin,
         TypeOK, FellBack, Base, Verb, LOGIN, DELETE
<1>13. CASE ServerApplies
  BY <1>13, Messages
     DEF ServerApplies, InFlight, client, server, history, CountInv, ControlInv, InLogin,
         TypeOK, FellBack, Base, Verb, LOGIN, DELETE
<1>14. CASE ServerRefuses
  BY <1>14, Messages
     DEF ServerRefuses, InFlight, client, server, history, CountInv, ControlInv, InLogin,
         TypeOK, FellBack, Base, Verb, LOGIN, DELETE
<1>15. CASE ServerSaysExpired
  BY <1>15, Messages
     DEF ServerSaysExpired, InFlight, client, server, history, CountInv, ControlInv, InLogin,
         TypeOK, FellBack, Base, Verb, LOGIN, DELETE
<1>16. CASE TokenExpires
  BY <1>16
     DEF TokenExpires, client, server, history, CountInv, ControlInv, InLogin, TypeOK,
         FellBack, Base, Verb, LOGIN, DELETE
<1>17. CASE LoseMessage
  BY <1>17, LoseEffect
     DEF client, server, history, CountInv, ControlInv, InLogin, TypeOK, FellBack, Base, Verb,
         LOGIN, DELETE
<1>18. CASE DamageBody
  BY <1>18, DamageEffect
     DEF client, server, history, CountInv, ControlInv, InLogin, TypeOK, FellBack, Base, Verb,
         LOGIN, DELETE
<1>19. CASE UNCHANGED vars
  BY <1>19
     DEF vars, client, server, history, CountInv, ControlInv, InLogin, TypeOK, FellBack, Base,
         Verb
<1> QED
  BY <1>1, <1>2, <1>3, <1>4, <1>5, <1>6, <1>7, <1>8, <1>9, <1>10, <1>11, <1>12, <1>13, <1>14,
     <1>15, <1>16, <1>17, <1>18, <1>19
     DEF Next, ClientStep, ServerStep

(* The first call has not been made.                                        *)
LEMMA InitIInv == Init => IInv
<1> SUFFICES ASSUME Init PROVE IInv
  OBVIOUS
<1> USE TransportConstants DEF Init
<1>1. TypeOK
  <2>1. 0 \in 0 .. MaxTokens /\ 0 \in Codes /\ NoToken = 0
    BY DEF Codes, NoToken
  <2>2. net \in Requests \cup Responses \cup {NoMsg}
    OBVIOUS
  <2> QED BY <2>1, <2>2 DEF TypeOK
<1>2. ControlInv
  BY Messages DEF ControlInv, InLogin, LOGIN
<1>3. AppliedInv
  BY DEF AppliedInv
<1>4. TokenInv
  BY DEF TokenInv
<1>5. CountInv
  BY DEF CountInv
<1> QED BY <1>1, <1>2, <1>3, <1>4, <1>5 DEF IInv

(* The inductive invariant holds of every behaviour.                        *)
LEMMA Invariance == Spec => []IInv
<1>1. IInv /\ [Next]_vars => IInv'
  BY TypeOKStep, ControlInvStep, AppliedInvStep, TokenInvStep, CountInvStep DEF IInv
<1> QED BY InitIInv, <1>1, PTL DEF Spec

(* The transport layer's state stays in its type.                           *)
THEOREM TypeCorrect == Spec => []TypeOK
<1>1. IInv => TypeOK
  BY DEF IInv
<1> QED BY <1>1, Invariance, PTL

(* One call makes at most five exchanges and one login, and logs in again   *)
(* only when told that the token has expired.                               *)
LEMMA BoundedCalls == Spec => []CallIsBounded
<1>1. IInv => CallIsBounded
  BY DEF IInv, CountInv, CallIsBounded
<1> QED BY <1>1, Invariance, PTL

(* AMVP_JWT_EXPIRED is returned only after a login was tried.               *)
LEMMA ExpiryIsRetried == Spec => []ExpiredOnlyAfterLogin
<1>1. IInv => ExpiredOnlyAfterLogin
  BY DEF IInv, CountInv, ExpiredOnlyAfterLogin
<1> QED BY <1>1, Invariance, PTL

(* A refresh names the token it replaces.                                   *)
LEMMA RefreshNamesToken == Spec => []RefreshCarriesToken
<1>1. IInv => RefreshCarriesToken
  BY DEF IInv, TokenInv, RefreshCarriesToken
<1> QED BY <1>1, Invariance, PTL

(* The ctx holds the last token issued, or none.                            *)
LEMMA TokenIsFresh == Spec => []NoStaleToken
<1>1. IInv => NoStaleToken
  BY DEF IInv, TokenInv, NoStaleToken
<1> QED BY <1>1, Invariance, PTL

(* A call is repeated after a refresh, at most once, whatever the server    *)
(* answers.                                                                 *)
THEOREM BoundedRefresh == Spec => []RefreshIsBounded
  BY BoundedCalls, ExpiryIsRetried, PTL DEF RefreshIsBounded

(* The token is in the body of the refresh that replaces it, and afterwards *)
(* nowhere in the ctx.                                                      *)
THEOREM CurrentToken == Spec => []TokenIsCurrent
  BY RefreshNamesToken, TokenIsFresh, PTL DEF TokenIsCurrent

(* Every step of the transport layer is a step of the abstract call, or     *)
(* none.                                                                    *)
LEMMA StepSimulation == IInv /\ [Next]_vars => [Abstract!Next]_(Abstract!callVars)
<1> SUFFICES ASSUME IInv, [Next]_vars PROVE Abstract!Next \/ UNCHANGED Abstract!callVars
  OBVIOUS
<1> USE DEF IInv
<1>1. ASSUME NEW a \in Actions, Call(a) PROVE Abstract!Begin(a)
  BY <1>1, NotPending DEF Call, ControlInv, Abstract!Begin
<1>2. ASSUME RefuseCall PROVE \E r \in Results : Abstract!Return(r)
  <2>1. PICK r \in Results \ {"AMVP_SUCCESS"} : Finish(r)
    BY <1>2 DEF RefuseCall, Results
  <2>2. Abstract!Return(r)
    BY <1>2, <2>1
       DEF RefuseCall, Finish, ControlInv, AppliedInv, client, history, Abstract!Return
  <2> QED BY <2>2
<1>3. ASSUME LoginNotBuilt PROVE \E r \in Results : Abstract!Return(r)
  <2>1. PICK r \in Results \ {"AMVP_SUCCESS"} : Finish(r)
    BY <1>3 DEF LoginNotBuilt, Results
  <2>2. Abstract!Return(r)
    BY <1>3, <2>1 DEF LoginNotBuilt, Finish, ControlInv, AppliedInv, client, Abstract!Return
  <2> QED BY <2>2
<1>4. ASSUME ReceiveAnswer PROVE \E r \in Results : Abstract!Return(r)
  <2>1. /\ pc = "wait" /\ net.type = "rsp" /\ ~InLogin
        /\ result' = Inspected /\ UNCHANGED <<action, applied, lost>>
    BY <1>4 DEF ReceiveAnswer, AwaitingAction, InFlight, InLogin, Finish, history
  <2>2. NewRc \in Codes /\ net.body \in Bodies
    BY <2>1, NetType DEF NewRc, TypeOK
  <2>3. Inspected \in Results /\ (Inspected = "AMVP_SUCCESS" <=> NewRc = 200)
    BY <2>2, InspectRange DEF Inspected
  <2>4. NewRc = 200 => net.code = 200
    BY DEF NewRc, ControlInv
  <2>5. NewRc # 200 => action = DELETE \/ net.code # 200
    BY DEF NewRc
  <2>6. Abstract!Return(Inspected)
    BY <2>1, <2>3, <2>4, <2>5 DEF ControlInv, AppliedInv, Abstract!Return
  <2> QED BY <2>3, <2>6
<1>5. ASSUME LoginFails PROVE \E r \in Results : Abstract!Return(r)
  <2>1. /\ pc = "wait" /\ net.type = "rsp" /\ InLogin
        /\ UNCHANGED <<action, applied, lost>>
    BY <1>5 DEF LoginFails, AwaitingLogin, InFlight, InLogin, client, history
  <2>2. PICK r \in LoginResults \ {"AMVP_SUCCESS"} : Finish(r)
    BY <1>5 DEF LoginFails
  <2>3. r \in Results /\ r # "AMVP_SUCCESS"
    BY <2>1, <2>2, LoginResultRange
  <2>4. applied # 0 => lost
    <3>1. CASE refreshing
      BY <2>1, <3>1 DEF AppliedInv
    <3>2. CASE ~refreshing
      <4>1. applied # 0 => lost \/ (net.code = 200 /\ net.body = "expected")
        BY <2>1, <3>2 DEF AppliedInv, InLogin
      <4>2. CASE net.code = 200 /\ net.body = "expected"
        BY <2>2, <4>2, InspectRange, NetType, <2>1 DEF LoginResults
      <4> QED BY <4>1, <4>2
    <3> QED BY <3>1, <3>2
  <2>5. Abstract!Return(r)
    BY <2>1, <2>2, <2>3, <2>4 DEF Finish, ControlInv, Abstract!Return
  <2> QED BY <2>3, <2>5
<1>6. ASSUME LoginSucceeds PROVE \E r \in Results : Abstract!Return(r)
  <2>1. /\ pc = "wait" /\ net.type = "rsp" /\ action = LOGIN
        /\ result' = "AMVP_SUCCESS" /\ UNCHANGED <<action, applied, lost>>
    BY <1>6 DEF LoginSucceeds, AwaitingLogin, InFlight, Finish, client, history
  <2>2. applied = 1
    BY <1>6, <2>1, LoginResultRange DEF LoginSucceeds, AppliedInv
  <2>3. Abstract!Return("AMVP_SUCCESS")
    BY <2>1, <2>2 DEF ControlInv, Abstract!Return
  <2> QED BY <2>3 DEF Results
<1>7. ASSUME ServerLogin PROVE Abstract!Apply \/ UNCHANGED Abstract!callVars
  BY <1>7
     DEF ServerLogin, InFlight, client, ControlInv, AppliedInv, Abstract!Apply,
         Abstract!callVars
<1>8. ASSUME ServerApplies PROVE Abstract!Apply
  BY <1>8 DEF ServerApplies, InFlight, client, ControlInv, AppliedInv, Abstract!Apply
<1>9. ASSUME LoseMessage \/ DamageBody PROVE Abstract!Lose
  BY <1>9 DEF LoseMessage, DamageBody, InFlight, client, ControlInv, Abstract!Lose
<1>10. ASSUME \/ Send \/ SendLogin \/ FallBackToPut \/ StartRefresh \/ RefreshSucceeds
              \/ ServerRefuses \/ ServerSaysExpired \/ TokenExpires \/ UNCHANGED vars
       PROVE  UNCHANGED Abstract!callVars
  BY <1>10 DEF Send, SendLogin, FallBackToPut, StartRefresh, RefreshSucceeds, ServerRefuses,
               ServerSaysExpired, TokenExpires, vars, client, history, Abstract!callVars
<1> QED
  BY <1>1, <1>2, <1>3, <1>4, <1>5, <1>6, <1>7, <1>8, <1>9, <1>10
     DEF Next, ClientStep, ServerStep, Abstract!Next

(* The calls of the transport layer implement AmvpCall: each is applied at  *)
(* most once and its result is honest.                                      *)
THEOREM Implementation == Spec => ImplementsCall
<1>1. Init => Abstract!Init
  BY DEF Init, Abstract!Init
<1> QED
  BY <1>1, StepSimulation, Invariance, PTL DEF Spec, ImplementsCall, Abstract!Spec

(* The five exchanges a call can consist of, and the steps of one exchange: *)
(* the request, its answer, an answer that is damaged, one that is lost.    *)
Leg == (IF retried THEN 3 ELSE IF refreshing THEN 2 ELSE 0) + (IF FellBack /\ ~refreshing THEN 1 ELSE 0)
LegLeft ==
    IF pc \in {"send", "login"} THEN 5
    ELSE IF net.type = "req" THEN 4
    ELSE IF net.body = "garbage" THEN 2
    ELSE IF net = Response(0, "empty", NoToken) THEN 1 ELSE 3
StepsLeft == IF pc = "idle" THEN 0 ELSE 6 * (4 - Leg) + LegLeft

(* Everything but the expiry of the token the server accepts.               *)
call == <<pc, client, jwt_token, result, net, issued, history>>
Nearer == StepsLeft \in 0..29 /\ StepsLeft' \in 0..29 /\ (pc = "idle" \/ StepsLeft' < StepsLeft)

(* The measure of a call, from where it is.                                 *)
LEMMA LeftRange ==
    ASSUME IInv
    PROVE  /\ Leg \in 0..4 /\ LegLeft \in 1..5 /\ StepsLeft \in 0..29
           /\ pc = "idle" => StepsLeft = 0
           /\ pc # "idle" => StepsLeft = 6 * (4 - Leg) + LegLeft
<1>1. Leg \in 0..4
  BY DEF IInv, ControlInv, Leg
<1>2. LegLeft \in 1..5
  BY DEF LegLeft
<1> HIDE DEF Leg, LegLeft
<1> QED BY <1>1, <1>2 DEF StepsLeft

LEMMA LeftRangeNext ==
    ASSUME IInv'
    PROVE  /\ Leg' \in 0..4 /\ LegLeft' \in 1..5 /\ StepsLeft' \in 0..29
           /\ pc' = "idle" => StepsLeft' = 0
           /\ pc' # "idle" => StepsLeft' = 6 * (4 - Leg') + LegLeft'
<1> DEFINE a == Leg'
           l == LegLeft'
<1>1. a \in 0..4
  BY DEF IInv, ControlInv, Leg
<1>2. l \in 1..5
  BY DEF LegLeft
<1>3. StepsLeft' = IF pc' = "idle" THEN 0 ELSE 6 * (4 - a) + l
  BY Zenon DEF StepsLeft
<1> HIDE DEF a, l
<1>4. /\ a \in 0..4 /\ l \in 1..5 /\ StepsLeft' \in 0..29
      /\ pc' = "idle" => StepsLeft' = 0
      /\ pc' # "idle" => StepsLeft' = 6 * (4 - a) + l
  BY <1>1, <1>2, <1>3
<1> QED BY <1>4 DEF a, l

(* A step to the next exchange, or within one.                              *)
LEMMA LeftFalls ==
    ASSUME IInv, IInv', pc # "idle",
           \/ pc' = "idle"
           \/ pc' # "idle" /\ Leg' > Leg
           \/ pc' # "idle" /\ Leg' = Leg /\ LegLeft' < LegLeft
    PROVE  Nearer
<1> DEFINE a == Leg
           b == Leg'
           l == LegLeft
           m == LegLeft'
           s == StepsLeft
           z == StepsLeft'
<1>1. a \in 0..4 /\ l \in 1..5 /\ s \in 0..29 /\ s = 6 * (4 - a) + l
  BY LeftRange
<1>2. /\ b \in 0..4 /\ m \in 1..5 /\ z \in 0..29
      /\ pc' = "idle" => z = 0
      /\ pc' # "idle" => z = 6 * (4 - b) + m
  BY LeftRangeNext
<1>3. pc' = "idle" \/ (pc' # "idle" /\ b > a) \/ (pc' # "idle" /\ b = a /\ m < l)
  OBVIOUS
<1>4. Nearer <=> s \in 0..29 /\ z \in 0..29 /\ (pc = "idle" \/ z < s)
  BY DEF Nearer
<1> HIDE DEF a, b, l, m, s, z
<1>5. z < s
  BY <1>1, <1>2, <1>3
<1> QED BY <1>1, <1>2, <1>4, <1>5

LEMMA IInvStep == IInv /\ [Next]_vars => IInv'
  BY TypeOKStep, ControlInvStep, AppliedInvStep, TokenInvStep, CountInvStep DEF IInv

(* The safety half of CallReturns, for any answers and losses: every step   *)
(* of the client, the server and the network brings a call nearer to its    *)
(* return, which it reaches after at most 29 of them; only a token that     *)
(* expires meanwhile is not counted.                                        *)
THEOREM CallAdvances == Spec => [][Nearer]_call
<1>1. IInv /\ [Next]_vars => [Nearer]_call
  <2> SUFFICES ASSUME IInv, Next, ~UNCHANGED call PROVE Nearer
    BY DEF vars, call, server
  <2>0. IInv'
    BY IInvStep
  <2>t. TypeOK /\ ControlInv
    BY DEF IInv
  <2>1. ASSUME NEW a \in Actions, Call(a) PROVE Nearer
    <3>1. pc = "idle"
      BY <2>1 DEF Call
    <3>2. StepsLeft \in 0..29
      BY LeftRange
    <3>3. StepsLeft' \in 0..29
      BY <2>0, LeftRangeNext
    <3> QED BY <3>1, <3>2, <3>3 DEF Nearer
  <2>2. CASE Send
    <3>1. Leg' = Leg /\ LegLeft = 5 /\ LegLeft' = 4 /\ pc = "send" /\ pc' = "wait"
      BY <2>2, SendEffect DEF client, Leg, LegLeft, FellBack
    <3> QED BY <2>0, <3>1, LeftFalls
  <2>3. CASE SendLogin
    <3>1. Leg' = Leg /\ LegLeft = 5 /\ LegLeft' = 4 /\ pc = "login" /\ pc' = "wait"
      BY <2>3, SendLoginEffect DEF client, Leg, LegLeft, FellBack
    <3> QED BY <2>0, <3>1, LeftFalls
  <2>4. CASE LoginNotBuilt \/ RefuseCall \/ ReceiveAnswer \/ LoginFails \/ LoginSucceeds
    <3>1. pc # "idle" /\ pc' = "idle"
      BY <2>4
         DEF LoginNotBuilt, RefuseCall, ReceiveAnswer, LoginFails, LoginSucceeds, AwaitingAction, AwaitingLogin,
             InFlight, Finish
    <3> QED BY <2>0, <3>1, LeftFalls
  <2>5. CASE FallBackToPut
    <3>1. pc = "wait" /\ pc' = "send" /\ ~FellBack /\ FellBack' /\ ~refreshing /\ UNCHANGED <<refreshing, retried>>
      BY <2>5 DEF FallBackToPut, AwaitingAction, MustPut, InFlight, FellBack
    <3>2. Leg' > Leg
      BY <3>1 DEF Leg
    <3> QED BY <2>0, <3>1, <3>2, LeftFalls
  <2>6. CASE StartRefresh
    <3>1. pc = "wait" /\ pc' = "login" /\ ~refreshing /\ refreshing' /\ ~retried /\ ~retried'
      BY <2>6 DEF StartRefresh, AwaitingAction, MustRefresh, InFlight
    <3>2. Leg' > Leg
      BY <3>1 DEF Leg
    <3> QED BY <2>0, <3>1, <3>2, LeftFalls
  <2>7. CASE RefreshSucceeds
    <3>1. pc = "wait" /\ pc' = "send" /\ refreshing /\ ~refreshing' /\ ~retried /\ retried'
      BY <2>7, <2>t DEF RefreshSucceeds, AwaitingLogin, InFlight, ControlInv
    <3>2. Leg' > Leg
      BY <3>1 DEF Leg
    <3> QED BY <2>0, <3>1, <3>2, LeftFalls
  <2>8. CASE ServerStep
    <3>1. /\ pc = "wait" /\ pc' = "wait" /\ net.type = "req" /\ UNCHANGED client
          /\ \E c \in Codes, b \in Bodies : \E k : net' = Response(c, b, k)
      BY <2>8
         DEF ServerStep, ServerLogin, ServerApplies, ServerRefuses, ServerSaysExpired, InFlight, Codes, Bodies
    <3>2. net'.type = "rsp"
      BY <3>1, Messages
    <3>3. Leg' = Leg /\ LegLeft = 4 /\ LegLeft' < 4
      BY <3>1, <3>2 DEF client, Leg, LegLeft, FellBack
    <3> QED BY <2>0, <3>1, <3>3, LeftFalls
  <2>9. CASE TokenExpires
    BY <2>9 DEF TokenExpires, call
  <2>10. CASE LoseMessage
    <3>1. /\ pc = "wait" /\ pc' = "wait" /\ UNCHANGED client
          /\ net # Response(0, "empty", NoToken) /\ net' = Response(0, "empty", NoToken)
          /\ net'.type = "rsp" /\ net'.body = "empty"
      BY <2>10, LoseEffect DEF LoseMessage
    <3>2. Leg' = Leg /\ LegLeft > 1 /\ LegLeft' = 1
      BY <3>1 DEF client, Leg, LegLeft, FellBack
    <3> QED BY <2>0, <3>1, <3>2, LeftFalls
  <2>11. CASE DamageBody
    <3>1. /\ pc = "wait" /\ pc' = "wait" /\ UNCHANGED client
          /\ net.type = "rsp" /\ net.body \notin {"empty", "garbage"} /\ net'.type = "rsp" /\ net'.body = "garbage"
      BY <2>11, DamageEffect DEF DamageBody, InFlight
    <3>2. net # Response(0, "empty", NoToken)
      BY <3>1, Messages
    <3>3. Leg' = Leg /\ LegLeft = 3 /\ LegLeft' = 2
      BY <3>1, <3>2 DEF client, Leg, LegLeft, FellBack
    <3> QED BY <2>0, <3>1, <3>3, LeftFalls
  <2> QED
    BY <2>1, <2>2, <2>3, <2>4, <2>5, <2>6, <2>7, <2>8, <2>9, <2>10, <2>11 DEF Next, ClientStep
<1> QED BY <1>1, Invariance, PTL DEF Spec
================================================================================
