------------------------------ MODULE Sessions ------------------------------
(***************************************************************************)
(* How a browser stays signed in: tabs that share one refresh cookie, the  *)
(* client that exchanges it for a new access token when a call is answered *)
(* 401, and the service that lets a refresh token be used once.  An access *)
(* token is a tab's own; the database holds the live refresh tokens.       *)
(***************************************************************************)
EXTENDS Naturals

CONSTANTS
  Window,    \* the tabs
  Call,      \* bound: calls a tab makes at a time
  MaxTokens  \* bound: refresh tokens issued

ASSUME SessionsAssumption == Call \subseteq Nat /\ 1 \in Call /\ MaxTokens \in Nat

VARIABLES
  active,   \* is the user's status ACTIVE?
  issued,   \* how many refresh tokens were issued: 1 .. issued
  live,     \* those whose row is not revoked
  cookie,   \* the browser's: a token, or 0
  windows,  \* per tab: the access token, and whether a user is shown
  flights,  \* per tab: /auth/refresh requests on their way
  calls,    \* per tab: calls of the API, and how often each was carried out
  excused   \* why the session may have ended

sessionVars == <<active, issued, live, cookie, windows, flights, calls, excused>>

Landed == [phase |-> "none", token |-> 0]
NoCall == [state |-> "idle", flight |-> 0, runs |-> 0]

Closed == [access |-> "none", user |-> FALSE, loading |-> FALSE]

SessionsInit ==
  /\ active = TRUE /\ issued = 1 /\ live = {1} /\ cookie = 1
  /\ windows = [w \in Window |-> Closed]
  /\ flights = [w \in Window |-> [c \in Call |-> Landed]]
  /\ calls = [w \in Window |-> [c \in Call |-> NoCall]]
  /\ excused = FALSE

----------------------------------------------------------------------------
(* The client.                                                             *)

InFlight(w) == \E c \in Call : flights[w][c].phase # "none"

(* refreshInFlight: every caller in a tab shares one request.              *)
FlightFor(c) == 1

(* refreshSession: joins the request in flight or sends one, with whatever *)
(* the cookie is now.  Two tabs know nothing of each other.                *)
Refresh(w, f) ==
  IF flights[w][f].phase # "none" THEN UNCHANGED <<flights, excused>>
  ELSE /\ flights' = [flights EXCEPT ![w][f] = [phase |-> "sent", token |-> cookie]]
       /\ excused' = (excused \/ \E v \in Window \ {w} : InFlight(v))

(* AuthProvider mounts.                                                    *)
Load(w) ==
  /\ ~windows[w].user /\ ~windows[w].loading /\ ~InFlight(w)
  /\ windows' = [windows EXCEPT ![w] = [Closed EXCEPT !.loading = TRUE]]
  /\ Refresh(w, FlightFor(1))
  /\ UNCHANGED <<active, issued, live, cookie, calls>>

(* A component calls apiRequest.                                           *)
Send(w, c) ==
  /\ windows[w].user /\ calls[w][c].state = "idle"
  /\ calls' = [calls EXCEPT ![w][c].state = "sent"]
  /\ UNCHANGED <<active, issued, live, cookie, windows, flights, excused>>

ExpireAccess(w) ==
  /\ windows[w].access = "good"
  /\ windows' = [windows EXCEPT ![w].access = "stale"]
  /\ UNCHANGED <<active, issued, live, cookie, flights, calls, excused>>

(* JwtAuthGuard looks at the access token alone.                           *)
CarryOut(w, c) ==
  /\ calls[w][c].state \in {"sent", "again"}
  /\ windows[w].access = "good"
  /\ calls' = [calls EXCEPT ![w][c].state = "done", ![w][c].runs = @ + 1]
  /\ UNCHANGED <<active, issued, live, cookie, windows, flights, excused>>

(* A 401: once, the client refreshes and waits.                            *)
Unauthorized(w, c) ==
  /\ windows[w].access # "good"
  /\ \/ /\ calls[w][c].state = "sent"
        /\ calls' = [calls EXCEPT ![w][c].state = "waiting",
                                  ![w][c].flight = FlightFor(c)]
        /\ Refresh(w, FlightFor(c))
     \/ /\ calls[w][c].state = "again"
        /\ calls' = [calls EXCEPT ![w][c].state = "failed"]
        /\ UNCHANGED <<flights, excused>>
  /\ UNCHANGED <<active, issued, live, cookie, windows>>

(* Mutant: any failure is worth a retry.                                   *)
AfterLossRetried == "again"

(* What the client does when the answer to a call that was carried out is  *)
(* lost: fetch rejects, which is not an ApiError.                          *)
AfterLoss == "failed"

LoseAnswerTo(w, c) ==
  /\ calls[w][c].state \in {"sent", "again"} /\ windows[w].access = "good"
  /\ calls[w][c].runs < 2
  /\ calls' = [calls EXCEPT ![w][c].state = AfterLoss, ![w][c].runs = @ + 1]
  /\ UNCHANGED <<active, issued, live, cookie, windows, flights, excused>>

(* The caller is told, and the component may call again.                   *)
Settled(w, c) ==
  /\ calls[w][c].state \in {"done", "failed"}
  /\ calls' = [calls EXCEPT ![w][c] = NoCall]
  /\ UNCHANGED <<active, issued, live, cookie, windows, flights, excused>>

----------------------------------------------------------------------------
(* The service.                                                            *)

(* consume: the row is read ...                                            *)
Consume(w, f) ==
  /\ flights[w][f].phase = "sent"
  /\ flights' = [flights EXCEPT ![w][f].phase =
       IF flights[w][f].token = 0 THEN "refused"
       ELSE IF flights[w][f].token \in live THEN "read" ELSE "reused"]
  /\ UNCHANGED <<active, issued, live, cookie, windows, calls, excused>>

(* ... and revoked, ...                                                    *)
Spend(w, f) ==
  /\ flights[w][f].phase = "read"
  /\ live' = live \ {flights[w][f].token}
  /\ flights' = [flights EXCEPT ![w][f].phase = "spent"]
  /\ UNCHANGED <<active, issued, cookie, windows, calls, excused>>

(* ... for nothing if its time has come.                                   *)
Lapse(w, f) ==
  /\ flights[w][f].phase = "read"
  /\ live' = live \ {flights[w][f].token}
  /\ flights' = [flights EXCEPT ![w][f].phase = "refused"]
  /\ excused' = TRUE
  /\ UNCHANGED <<active, issued, cookie, windows, calls>>

(* refresh reads the user's status and issues the next token.              *)
Rotate(w, f) ==
  /\ flights[w][f].phase = "spent"
  /\ IF active
       THEN /\ issued < MaxTokens
            /\ issued' = issued + 1
            /\ live' = live \cup {issued + 1}
            /\ flights' = [flights EXCEPT ![w][f] =
                            [phase |-> "granted", token |-> issued + 1]]
       ELSE /\ live' = {}
            /\ flights' = [flights EXCEPT ![w][f].phase = "refused"]
            /\ UNCHANGED issued
  /\ UNCHANGED <<active, cookie, windows, calls, excused>>

(* The database fails at any of these steps: an error that clears the      *)
(* cookie like a refusal does.                                             *)
FailRefresh(w, f) ==
  /\ flights[w][f].phase \in {"sent", "read", "reused", "spent"}
  /\ flights[w][f].token # 0
  /\ flights' = [flights EXCEPT ![w][f].phase = "refused"]
  /\ excused' = TRUE
  /\ UNCHANGED <<active, issued, live, cookie, windows, calls>>

(* A token presented twice: every session of the user is revoked.          *)
RevokeReused(w, f) ==
  /\ flights[w][f].phase = "reused"
  /\ live' = {}
  /\ flights' = [flights EXCEPT ![w][f].phase = "refused"]
  /\ UNCHANGED <<active, issued, cookie, windows, calls, excused>>

(* Mutant: a new pair is issued and the cookie is not set again.           *)
CookieKept(flight) ==
  IF flight.phase = "granted" \/ flight.token = 0 THEN cookie ELSE 0

(* The answer: the browser keeps the new cookie, or forgets a spent one;   *)
(* the tab keeps the access token, and whoever waited tries again.         *)
CookieAfter(flight) ==
  IF flight.phase = "granted" THEN flight.token
  ELSE IF flight.token = 0 THEN cookie ELSE 0

Waiting(w, f) == {c \in Call : calls[w][c].state = "waiting" /\ calls[w][c].flight = f}

Answered(w, f) ==
  LET granted == flights[w][f].phase = "granted" IN
  /\ flights[w][f].phase \in {"granted", "refused"}
  /\ cookie' = CookieAfter(flights[w][f])
  /\ flights' = [flights EXCEPT ![w][f] = Landed]
  /\ windows' = [windows EXCEPT ![w] =
       [access  |-> IF granted THEN "good" ELSE @.access,
        user    |-> IF @.loading THEN granted ELSE @.user,
        loading |-> FALSE]]
  /\ calls' = [calls EXCEPT ![w] = [c \in Call |->
       IF c \in Waiting(w, f)
         THEN [calls[w][c] EXCEPT !.state = IF granted THEN "again" ELSE "failed"]
         ELSE calls[w][c]]]
  /\ UNCHANGED <<active, issued, live, excused>>

(* The answer is lost on the way: the token is spent, the cookie is not.   *)
LoseRefresh(w, f) ==
  /\ flights[w][f].phase \in {"granted", "refused"}
  /\ flights' = [flights EXCEPT ![w][f] = Landed]
  /\ windows' = [windows EXCEPT ![w].loading = FALSE]
  /\ calls' = [calls EXCEPT ![w] = [c \in Call |->
       IF c \in Waiting(w, f) THEN [calls[w][c] EXCEPT !.state = "failed"]
       ELSE calls[w][c]]]
  /\ excused' = TRUE
  /\ UNCHANGED <<active, issued, live, cookie>>

(* login: of an active account.                                            *)
Login(w) ==
  /\ ~windows[w].user /\ ~windows[w].loading /\ ~InFlight(w)
  /\ active /\ issued < MaxTokens
  /\ issued' = issued + 1 /\ live' = live \cup {issued + 1}
  /\ cookie' = issued + 1
  /\ windows' = [windows EXCEPT ![w] =
                  [access |-> "good", user |-> TRUE, loading |-> FALSE]]
  /\ excused' = (excused \/ \E v \in Window : InFlight(v))
  /\ UNCHANGED <<active, flights, calls>>

(* logout: the token of the cookie is revoked and the cookie forgotten.    *)
Logout(w) ==
  /\ windows[w].user /\ \A c \in Call : calls[w][c].state = "idle"
  /\ live' = live \ {cookie} /\ cookie' = 0
  /\ windows' = [windows EXCEPT ![w] = Closed]
  /\ excused' = TRUE
  /\ UNCHANGED <<active, issued, flights, calls>>

(* changeStatus away from ACTIVE, and resetPassword: all sessions end.     *)
EndSessions(status) ==
  /\ active /\ active' = status
  /\ live' = {} /\ excused' = TRUE
  /\ UNCHANGED <<issued, cookie, windows, flights, calls>>

(* changeStatus back to ACTIVE.                                            *)
Activate ==
  /\ ~active /\ active' = TRUE
  /\ UNCHANGED <<issued, live, cookie, windows, flights, calls, excused>>

SessionsNext ==
  \/ \E w \in Window :
       \/ Load(w) \/ Login(w) \/ Logout(w) \/ ExpireAccess(w)
       \/ \E c \in Call :
            \/ Send(w, c) \/ CarryOut(w, c) \/ Unauthorized(w, c)
            \/ LoseAnswerTo(w, c) \/ Settled(w, c)
            \/ Consume(w, c) \/ Spend(w, c) \/ Lapse(w, c) \/ Rotate(w, c)
            \/ RevokeReused(w, c) \/ FailRefresh(w, c)
            \/ Answered(w, c) \/ LoseRefresh(w, c)
  \/ \E status \in BOOLEAN : EndSessions(status)
  \/ Activate

----------------------------------------------------------------------------
(* The refresh token is used once, and a second use ends every session; so *)
(* the client must never present it twice.  A refresh that carries a token *)
(* is refused only if answers were lost, the service failed, two tabs      *)
(* refreshed at once, the token was not used in time, or the session was   *)
(* ended - however calls and their 401s interleave.                        *)
RefusedForAReason ==
  \A w \in Window, f \in Call :
    flights[w][f].phase = "refused" /\ flights[w][f].token # 0 => excused

(* The retry after a 401 never carries a call out twice.                   *)
CarriedOutOnce == \A w \in Window, c \in Call : calls[w][c].runs <= 1

=============================================================================
