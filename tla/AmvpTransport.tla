----------------------------- MODULE AmvpTransport -----------------------------
(***************************************************************************)
(* One ctx of libamvp making requests of the AMVP server:                   *)
(* amvp_network_action(), execute_network_action() and inspect_http_code()  *)
(* of src/src/amvp_transport.c, with amvp_login(), amvp_refresh(),          *)
(* amvp_build_login() and amvp_parse_login() of src/src/amvp.c, which       *)
(* execute_network_action() re-enters when the server says that the JWT     *)
(* has expired.  A call of one of the six generic actions is followed from  *)
(* its start to its return; calls follow one another on the same ctx, and   *)
(* what survives from one to the next is ctx->jwt_token.                    *)
(*                                                                          *)
(* The client is sequential.  The server and the network are external: a    *)
(* token may expire between any two steps, either message of an exchange    *)
(* may be lost (curl then reports code 0), an answer may arrive damaged.    *)
(* HTTP bodies are abstracted to what inspect_http_code() and               *)
(* amvp_parse_login() tell apart.                                           *)
(***************************************************************************)
EXTENDS Integers

CONSTANT MaxTokens      \* bound: tokens the server issues
ASSUME TransportConstants == MaxTokens \in Nat

NoToken == 0            \* ctx->jwt_token == NULL; tokens are numbered as issued

Actions == {"AMVP_NET_GET", "AMVP_NET_POST", "AMVP_NET_POST_LOGIN",
            "AMVP_NET_POST_VS_RESP", "AMVP_NET_PUT", "AMVP_NET_DELETE"}

LOGIN  == "AMVP_NET_POST_LOGIN"
DELETE == "AMVP_NET_DELETE"

Results == {"AMVP_SUCCESS", "AMVP_MISSING_ARG", "AMVP_NO_DATA", "AMVP_JSON_ERR",
            "AMVP_TOTP_FAIL", "AMVP_PROTOCOL_RSP_ERR", "AMVP_UNSUPPORTED_OP",
            "AMVP_JWT_EXPIRED", "AMVP_JWT_INVALID", "AMVP_JWT_MISSING",
            "AMVP_TRANSPORT_FAIL"}

(* curl code 0 is "no answer", 500 any other code                           *)
Codes == {0, 200, 400, 401, 500}

(* "expected": what the request asked for; "jwt_expired", "jwt_invalid": a  *)
(* message with such an "error"; "protocol": an error in the protocol's     *)
(* format, "protocol_expired" one that says the JWT has expired; "garbage": *)
(* not the JSON that was sent; "other": JSON without any of these           *)
Bodies == {"empty", "expected", "jwt_expired", "jwt_invalid", "protocol",
           "protocol_expired", "garbage", "other"}

VARIABLES
    (* the client *)
    pc,           \* "idle", "send", "login", "wait"
    action,       \* generic action of the current call
    verb,         \* HTTP verb of the action's next or current request
    refreshing,   \* inside amvp_refresh()
    retried,      \* past a refresh: the second switch of execute_network_action
    rc,           \* rc of execute_network_action
    jwt_token,    \* ctx->jwt_token
    result,       \* "pending", or what the call returned
    (* the server and the network *)
    net,          \* the message in flight
    issued,       \* tokens issued so far
    live,         \* the token the server accepts, or NoToken
    (* history of the current call *)
    applied, lost, exchanges, logins, expiredSeen

client == <<action, verb, refreshing, retried, rc>>
server == <<issued, live>>
history == <<applied, lost, exchanges, logins, expiredSeen>>
vars == <<pc, client, jwt_token, result, net, server, history>>

NoMsg == [type |-> "none"]

Request(isLogin, v, token, access) ==
    [type |-> "req", login |-> isLogin, verb |-> v, token |-> token, access |-> access]

Response(code, body, token) ==
    [type |-> "rsp", code |-> code, body |-> body, token |-> token]

Requests == [type : {"req"}, login : BOOLEAN, verb : {"GET", "POST", "PUT", "DELETE"},
             token : 0 .. MaxTokens, access : 0 .. MaxTokens]
Responses == [type : {"rsp"}, code : Codes, body : Bodies, token : 0 .. MaxTokens]

Verb(a) == CASE a = "AMVP_NET_GET"    -> "GET"
             [] a = "AMVP_NET_PUT"    -> "PUT"
             [] a = "AMVP_NET_DELETE" -> "DELETE"
             [] OTHER                 -> "POST"

(* Defective: a result no caller of the transport layer handles.            *)
InspectAsksForRetry(code, body) ==
    IF code = 200 THEN "AMVP_SUCCESS" ELSE "AMVP_RETRY_OPERATION"

(* inspect_http_code(): a 200 is a success whatever the body; an error in   *)
(* the protocol's format hides the code; a 401 is read further.             *)
InspectHttpCode(code, body) ==
    CASE code = 200                                -> "AMVP_SUCCESS"
      [] code # 200 /\ body \in {"protocol", "protocol_expired"}
                                                   -> "AMVP_PROTOCOL_RSP_ERR"
      [] code = 400 /\ body \notin {"protocol", "protocol_expired"}
                                                   -> "AMVP_UNSUPPORTED_OP"
      [] code = 401 /\ body = "jwt_expired"        -> "AMVP_JWT_EXPIRED"
      [] code = 401 /\ body = "jwt_invalid"        -> "AMVP_JWT_INVALID"
      [] OTHER                                     -> "AMVP_TRANSPORT_FAIL"

Init ==
    /\ pc = "idle" /\ action = "none" /\ verb = "GET"
    /\ refreshing = FALSE /\ retried = FALSE /\ rc = 0
    /\ jwt_token = NoToken /\ result = "none"
    /\ net = NoMsg /\ issued = 0 /\ live = NoToken
    /\ applied = 0 /\ lost = FALSE /\ expiredSeen = FALSE
    /\ exchanges = 0 /\ logins = 0
--------------------------------------------------------------------------------
(* A transport function of the library is called.                           *)
Call(a) ==
    /\ pc = "idle"
    /\ pc' = IF a = LOGIN THEN "login" ELSE "send"
    /\ action' = a
    /\ verb' = Verb(a)
    /\ refreshing' = FALSE /\ retried' = FALSE /\ rc' = 0
    /\ result' = "pending"
    /\ applied' = 0 /\ lost' = FALSE /\ expiredSeen' = FALSE
    /\ exchanges' = 0 /\ logins' = 0
    /\ UNCHANGED <<jwt_token, net, server>>

Finish(r) ==
    /\ pc' = "idle"
    /\ result' = r

(* The checks before anything is sent: sanity_check_ctx() and the URL, the  *)
(* data of a POST or a PUT, the serialisation of ctx->kat_resp.             *)
RefuseCall ==
    /\ pc = "send" /\ exchanges = 0
    /\ \E r \in {"AMVP_MISSING_ARG"}
             \cup (IF action \in {"AMVP_NET_POST", "AMVP_NET_PUT"} THEN {"AMVP_NO_DATA"} ELSE {})
             \cup (IF action = "AMVP_NET_POST_VS_RESP" THEN {"AMVP_JSON_ERR"} ELSE {}) :
           Finish(r)
    /\ UNCHANGED <<client, jwt_token, net, server, history>>

(* amvp_curl_http_*(): the token of the ctx goes into the header.           *)
Send ==
    /\ pc = "send"
    /\ net' = Request(FALSE, verb, jwt_token, NoToken)
    /\ pc' = "wait"
    /\ exchanges' = exchanges + 1
    /\ UNCHANGED <<client, jwt_token, result, server, applied, lost, logins, expiredSeen>>

(* amvp_login() stops before it sends: the TOTP callback fails, or no path  *)
(* segment is set.  The token is still in place.                            *)
LoginNotBuilt ==
    /\ pc = "login"
    /\ \E r \in {"AMVP_TOTP_FAIL", "AMVP_MISSING_ARG"} : Finish(r)
    /\ logins' = logins + 1
    /\ UNCHANGED <<client, jwt_token, net, server, applied, lost, exchanges, expiredSeen>>

(* Defective: the token is dropped before the body is built.                *)
SendLoginDropsFirst ==
    /\ pc = "login"
    /\ net' = Request(TRUE, "POST", NoToken, NoToken)
    /\ jwt_token' = NoToken
    /\ pc' = "wait"
    /\ exchanges' = exchanges + 1
    /\ logins' = logins + 1
    /\ UNCHANGED <<client, result, server, applied, lost, expiredSeen>>

(* Defective: the token is kept until the login has succeeded.              *)
SendLoginKeepsToken ==
    /\ pc = "login"
    /\ net' = Request(TRUE, "POST", NoToken, IF refreshing THEN jwt_token ELSE NoToken)
    /\ pc' = "wait"
    /\ exchanges' = exchanges + 1
    /\ logins' = logins + 1
    /\ UNCHANGED <<client, jwt_token, result, server, applied, lost, expiredSeen>>

(* amvp_build_login() puts the current token into the body of a refresh;    *)
(* then amvp_network_action() drops it, and the request has no auth header. *)
SendLogin ==
    /\ pc = "login"
    /\ net' = Request(TRUE, "POST", NoToken, IF refreshing THEN jwt_token ELSE NoToken)
    /\ jwt_token' = NoToken
    /\ pc' = "wait"
    /\ exchanges' = exchanges + 1
    /\ logins' = logins + 1
    /\ UNCHANGED <<client, result, server, applied, lost, expiredSeen>>
--------------------------------------------------------------------------------
(* The server and the network (external).                                   *)

InFlight(t) == pc = "wait" /\ net.type = t

ServerLogin ==
    /\ InFlight("req") /\ net.login
    /\ issued < MaxTokens
    /\ issued' = issued + 1
    /\ live' = issued + 1
    /\ net' = Response(200, "expected", issued + 1)
    /\ applied' = IF refreshing THEN applied ELSE applied + 1
    /\ UNCHANGED <<pc, client, jwt_token, result, lost, exchanges, logins, expiredSeen>>

(* A request is carried out when its token is live, or when it has none and *)
(* the server does not ask for one (AMVP_NO_LOGIN).                         *)
ServerApplies ==
    /\ InFlight("req") /\ ~net.login
    /\ net.token \in {live, NoToken}
    /\ net' = Response(200, "expected", NoToken)
    /\ applied' = applied + 1
    /\ UNCHANGED <<pc, client, jwt_token, result, server, lost, exchanges, logins, expiredSeen>>

(* A refusal changes nothing on the server; a 200 without what was asked    *)
(* for is one too when it answers a login.                                  *)
ServerRefuses ==
    /\ InFlight("req")
    /\ \E code \in Codes \ {0}, body \in {"jwt_invalid", "protocol", "other"} :
          /\ code = 200 => net.login
          /\ net' = Response(code, body, NoToken)
    /\ UNCHANGED <<pc, client, jwt_token, result, server, history>>

(* The token of the request is no longer live: said in one of two formats.  *)
ServerSaysExpired ==
    /\ InFlight("req")
    /\ IF net.login THEN net.access # NoToken
                    ELSE net.token # NoToken /\ net.token # live
    /\ \E body \in {"jwt_expired", "protocol_expired"} :
          net' = Response(401, body, NoToken)
    /\ expiredSeen' = TRUE
    /\ UNCHANGED <<pc, client, jwt_token, result, server, applied, lost, exchanges, logins>>

TokenExpires ==
    /\ live # NoToken
    /\ live' = NoToken
    /\ UNCHANGED <<pc, client, jwt_token, result, net, issued, history>>

(* The request or the answer never arrives: curl has no code to report.     *)
LoseMessage ==
    /\ pc = "wait" /\ net.type \in {"req", "rsp"} /\ net # Response(0, "empty", NoToken)
    /\ net' = Response(0, "empty", NoToken)
    /\ lost' = TRUE
    /\ UNCHANGED <<pc, client, jwt_token, result, server, applied, exchanges, logins, expiredSeen>>

(* The connection breaks while the body is read: the code is known.         *)
DamageBody ==
    /\ InFlight("rsp") /\ net.body \notin {"empty", "garbage"}
    /\ net' = Response(net.code, "garbage", NoToken)
    /\ lost' = TRUE
    /\ UNCHANGED <<pc, client, jwt_token, result, server, applied, exchanges, logins, expiredSeen>>
--------------------------------------------------------------------------------
(* The value rc has when the answer is inspected: the DELETE repeated after *)
(* a refresh is not assigned to it.                                         *)
NewRc == IF action = DELETE /\ retried THEN rc ELSE net.code

Inspected == InspectHttpCode(NewRc, net.body)

AwaitingAction == InFlight("rsp") /\ ~refreshing /\ action # LOGIN

AwaitingLogin == InFlight("rsp") /\ (refreshing \/ action = LOGIN)

(* Defective: a PUT also when the fate of the POST is unknown.              *)
MustPutOnAnyFailure ==
    /\ action = "AMVP_NET_POST_VS_RESP" /\ verb = "POST"
    /\ Inspected \in {"AMVP_UNSUPPORTED_OP", "AMVP_TRANSPORT_FAIL"}

(* "Check for code 400, which means we are reuploading a resp and must use  *)
(* PUT instead", before and after a refresh.                                *)
MustPut == action = "AMVP_NET_POST_VS_RESP" /\ verb = "POST"
               /\ Inspected = "AMVP_UNSUPPORTED_OP"

FallBackToPut ==
    /\ AwaitingAction /\ MustPut
    /\ verb' = "PUT"
    /\ rc' = NewRc
    /\ pc' = "send"
    /\ net' = NoMsg
    /\ UNCHANGED <<action, refreshing, retried, jwt_token, result, server, history>>

(* Defective: refreshes again and again; not for responses.                 *)
MustRefreshAgain == Inspected = "AMVP_JWT_EXPIRED"
MustRefreshNotResponses ==
    Inspected = "AMVP_JWT_EXPIRED" /\ ~retried /\ action # "AMVP_NET_POST_VS_RESP"

MustRefresh == Inspected = "AMVP_JWT_EXPIRED" /\ ~retried

StartRefresh ==
    /\ AwaitingAction /\ MustRefresh
    /\ refreshing' = TRUE
    /\ rc' = NewRc
    /\ pc' = "login"
    /\ net' = NoMsg
    /\ UNCHANGED <<action, verb, retried, jwt_token, result, server, history>>

(* Defective: a server error is answered with the same request, for ever.   *)
ReceiveAnswerResends ==
    /\ AwaitingAction /\ ~MustPut /\ ~MustRefresh
    /\ IF net.code \in {0, 200}
       THEN Finish(Inspected) /\ net' = NoMsg
       ELSE UNCHANGED <<pc, result>> /\ net' = Request(FALSE, verb, jwt_token, NoToken)
    /\ rc' = NewRc
    /\ UNCHANGED <<action, verb, refreshing, retried, jwt_token, server, history>>

(* Success, or an error that is not acted upon.                             *)
ReceiveAnswer ==
    /\ AwaitingAction /\ ~MustPut /\ ~MustRefresh
    /\ Finish(Inspected)
    /\ rc' = NewRc
    /\ net' = NoMsg
    /\ UNCHANGED <<action, verb, refreshing, retried, jwt_token, server, history>>

(* The results amvp_send_login() and amvp_parse_login() have for an answer. *)
(* An access token that is too long is JWT_INVALID, none is JWT_MISSING.    *)
LoginResults ==
    CASE InspectHttpCode(net.code, net.body) # "AMVP_SUCCESS"
                                 -> {InspectHttpCode(net.code, net.body)}
      [] net.code = 200 /\ net.body = "expected" -> {"AMVP_SUCCESS"}
      [] net.code = 200 /\ net.body = "garbage"  -> {"AMVP_JSON_ERR"}
      [] OTHER                   -> {"AMVP_JWT_MISSING", "AMVP_JWT_INVALID"}

LoginFails ==
    /\ AwaitingLogin
    /\ \E r \in LoginResults \ {"AMVP_SUCCESS"} : Finish(r)
    /\ net' = NoMsg
    /\ UNCHANGED <<client, jwt_token, server, history>>

LoginSucceeds ==
    /\ AwaitingLogin /\ ~refreshing
    /\ "AMVP_SUCCESS" \in LoginResults
    /\ jwt_token' = net.token
    /\ Finish("AMVP_SUCCESS")
    /\ net' = NoMsg
    /\ UNCHANGED <<client, server, history>>

(* "Try action again after the refresh"                                     *)
RefreshSucceeds ==
    /\ AwaitingLogin /\ refreshing
    /\ "AMVP_SUCCESS" \in LoginResults
    /\ jwt_token' = net.token
    /\ refreshing' = FALSE
    /\ retried' = TRUE
    /\ verb' = Verb(action)
    /\ pc' = "send"
    /\ net' = NoMsg
    /\ UNCHANGED <<action, rc, result, server, history>>
--------------------------------------------------------------------------------
ClientStep == \/ Send \/ SendLogin \/ LoginNotBuilt \/ RefuseCall
              \/ FallBackToPut \/ StartRefresh \/ ReceiveAnswer
              \/ LoginFails \/ LoginSucceeds \/ RefreshSucceeds

ServerStep == ServerLogin \/ ServerApplies \/ ServerRefuses \/ ServerSaysExpired

Next == \/ \E a \in Actions : Call(a)
        \/ ClientStep \/ ServerStep
        \/ TokenExpires \/ LoseMessage \/ DamageBody

Spec == Init /\ [][Next]_vars

(* libcurl returns from every request, with an answer or without one, and   *)
(* the client runs on; nobody has to make another call.                     *)
FairSpec == Spec /\ WF_vars(ClientStep) /\ WF_vars(ServerStep \/ LoseMessage)
--------------------------------------------------------------------------------
TypeOK ==
    /\ pc \in {"idle", "send", "login", "wait"}
    /\ action \in Actions \cup {"none"}
    /\ verb \in {"GET", "POST", "PUT", "DELETE"}
    /\ refreshing \in BOOLEAN /\ retried \in BOOLEAN
    /\ rc \in Codes
    /\ jwt_token \in 0 .. MaxTokens
    /\ result \in Results \cup {"none", "pending"}
    /\ net \in Requests \cup Responses \cup {NoMsg}
    /\ issued \in 0 .. MaxTokens /\ live \in 0 .. MaxTokens
    /\ applied \in Nat /\ lost \in BOOLEAN /\ expiredSeen \in BOOLEAN
    /\ exchanges \in Nat /\ logins \in Nat

(* "we need to avoid an infinite loop (via amvp_refesh)": whatever the      *)
(* server answers, one call makes at most five exchanges (POST, PUT, login, *)
(* POST, PUT), one of them a login, and logs in again only after the server *)
(* has said that the token is expired.                                      *)
CallIsBounded ==
    /\ exchanges <= 5
    /\ logins <= 1
    /\ action # LOGIN /\ logins = 1 => expiredSeen

(* An expired token is not the end of a call that could be repeated:        *)
(* AMVP_JWT_EXPIRED is returned only after a login has been tried.          *)
ExpiredOnlyAfterLogin == result = "AMVP_JWT_EXPIRED" => logins = 1

(* The repetition after a refresh happens, and happens once.                *)
RefreshIsBounded == CallIsBounded /\ ExpiredOnlyAfterLogin

(* A refresh tells the server which token it replaces, although the token   *)
(* is dropped from the ctx before the request is sent.                      *)
RefreshCarriesToken ==
    pc = "wait" /\ net.type = "req" /\ net.login =>
        (refreshing <=> net.access # NoToken)

(* The ctx never holds a token that a later login has superseded, however   *)
(* that login ended: it holds the last one issued, or none.                 *)
NoStaleToken == jwt_token \in {issued, NoToken}

(* The token is used for as long as it is needed and no longer.             *)
TokenIsCurrent == RefreshCarriesToken /\ NoStaleToken

Abstract == INSTANCE AmvpCall WITH Vague <- {DELETE}

(* The calls of the transport layer are honest and applied at most once,    *)
(* in spite of the PUT after a POST and the repetition after a refresh.     *)
ImplementsCall == Abstract!Spec

(* Every call returns.                                                      *)
CallReturns == pc # "idle" ~> pc = "idle"

================================================================================
