-------------------------------- MODULE HfLogin -------------------------------
(***************************************************************************)
(* Signing in to HuggingFace (whspr-hf: oauth.rs; whspr-app: hf.rs): the    *)
(* browser is sent to the authorization page and a listener on a fixed      *)
(* local port waits for the page to redirect back with a code; or a pasted  *)
(* token is checked.  Either ends in the same message, HfSignedIn.          *)
(*                                                                         *)
(* A tab outlives the attempt that opened it, and may be answered when      *)
(* another attempt listens on the port: the `state` of the redirect tells.  *)
(* A connection may be accepted before its request has arrived; where the   *)
(* accepted socket inherits the listener's non-blocking mode, it is read as *)
(* empty and answered like a stray request.                                 *)
(***************************************************************************)
EXTENDS Naturals, Sequences, SequencesExt

CONSTANTS
  MaxLogins,  (* bound of the model on the attempts in the browser           *)
  MaxChecks,  (* bound of the model on the tokens pasted                     *)
  MaxStrays   (* bound of the model on stray requests (favicon.ico)          *)

ASSUME LoginAssumption == MaxLogins \in Nat /\ MaxChecks \in Nat /\ MaxStrays \in Nat

VARIABLES
  logins,     (* each attempt: how far it is                                 *)
  codeOf,     (* the attempt whose code it took from a redirect, or 0        *)
  tabs,       (* the browser tab each attempt opened                         *)
  port,       (* the attempt whose listener is bound to the port, or 0       *)
  backlog,    (* connections not accepted: whose redirect, whether it carries
                 a code, whether the request has arrived                     *)
  signInBusy, (* State::hf_busy                                              *)
  checking,   (* tokens being checked                                        *)
  username,   (* State::hf_username: the attempt it came from, 0 for none    *)
  checks, strays, (* counters of the bounds                                  *)
  unheard     (* history: attempts whose redirect was accepted before its
                 request had arrived                                         *)

hfLoginVars == <<logins, codeOf, tabs, port, backlog, signInBusy, checking, username,
                checks, strays, unheard>>

ByToken == MaxLogins + 1   \* a username that came with a token

Redirect == [of : 0..MaxLogins, code : BOOLEAN, arrived : BOOLEAN]

HfLoginInit ==
  /\ logins = <<>> /\ codeOf = <<>> /\ tabs = <<>> /\ backlog = <<>>
  /\ port = 0 /\ username = 0 /\ checking = 0 /\ checks = 0 /\ strays = 0
  /\ signInBusy = FALSE /\ unheard = {}

-----------------------------------------------------------------------------
(* The attempt *)

\* HfSignIn, and run_login to the opened browser: the port is taken, by another
\* program or by an attempt that still waits; else the tab opens, or no browser does.
HfSignIn ==
  /\ ~signInBusy /\ username = 0 /\ Len(logins) < MaxLogins
  /\ signInBusy' = TRUE
  /\ codeOf' = Append(codeOf, 0)
  /\ \/ /\ port = 0 /\ port' = Len(logins) + 1
        /\ logins' = Append(logins, "waiting")
        /\ \E tab \in {"open", "none"} : tabs' = Append(tabs, tab)
     \/ /\ logins' = Append(logins, "failed") /\ tabs' = Append(tabs, "none")
        /\ UNCHANGED port
  /\ UNCHANGED <<backlog, checking, username, checks, strays, unheard>>

\* The user grants or refuses access in a tab; the page redirects to the port, where
\* the connection waits to be accepted, or is refused when nothing listens.
AnswerTab(no, answer) ==
  /\ tabs[no] = "open"
  /\ tabs' = [tabs EXCEPT ![no] = answer]
  /\ backlog' = IF port = 0 THEN backlog
                ELSE Append(backlog, [of |-> no, code |-> answer = "granted", arrived |-> FALSE])
  /\ UNCHANGED <<logins, codeOf, port, signInBusy, checking, username, checks, strays, unheard>>

StrayRequest ==
  /\ port # 0 /\ strays < MaxStrays
  /\ strays' = strays + 1
  /\ backlog' = Append(backlog, [of |-> 0, code |-> FALSE, arrived |-> FALSE])
  /\ UNCHANGED <<logins, codeOf, tabs, port, signInBusy, checking, username, checks, unheard>>

RequestArrives(k) ==
  /\ ~backlog[k].arrived
  /\ backlog' = [backlog EXCEPT ![k].arrived = TRUE]
  /\ UNCHANGED <<logins, codeOf, tabs, port, signInBusy, checking, username, checks, strays, unheard>>

\* The listener is dropped, and with it what waits in its backlog.
Unbind == port' = 0 /\ backlog' = <<>>

\* mutant: the first code that comes is taken
TakeCodeAny(no, request) ==
  /\ Unbind
  /\ codeOf' = [codeOf EXCEPT ![no] = request.of]
  /\ logins' = [logins EXCEPT ![no] = "exchanging"]

\* The code came; its state must be the one this attempt was started with.
TakeCode(no, request) ==
  /\ Unbind
  /\ codeOf' = [codeOf EXCEPT ![no] = request.of]
  /\ logins' = [logins EXCEPT ![no] = IF request.of = no THEN "exchanging" ELSE "failed"]

\* accept_callback: a request without a code is answered 404 and the wait goes on,
\* one refused by the user (`?error=...`) included.
AcceptCallback ==
  /\ port # 0 /\ backlog # <<>>
  /\ LET request == Head(backlog)
     IN  IF request.arrived /\ request.code
         THEN TakeCode(port, request) /\ UNCHANGED unheard
         ELSE /\ backlog' = Tail(backlog)
              /\ unheard' = IF request.arrived THEN unheard ELSE unheard \cup {request.of}
              /\ UNCHANGED <<port, codeOf, logins>>
  /\ UNCHANGED <<tabs, signInBusy, checking, username, checks, strays>>

\* DEFAULT_LOGIN_TIMEOUT has passed, or the listener failed.
LoginTimesOut ==
  /\ port # 0
  /\ logins' = [logins EXCEPT ![port] = "failed"]
  /\ Unbind
  /\ UNCHANGED <<codeOf, tabs, signInBusy, checking, username, checks, strays, unheard>>

\* exchange, then whoami: two requests, either of which may fail.
ExchangeOrAsk(no) ==
  /\ logins[no] \in {"exchanging", "asking"}
  /\ \E stage \in {IF logins[no] = "exchanging" THEN "asking" ELSE "done", "failed"} :
       logins' = [logins EXCEPT ![no] = stage]
  /\ UNCHANGED <<codeOf, tabs, port, backlog, signInBusy, checking, username, checks, strays, unheard>>

\* HfSignedIn.
LoginEnds(no) ==
  /\ logins[no] \in {"done", "failed"}
  /\ logins' = [logins EXCEPT ![no] = "over"]
  /\ signInBusy' = FALSE
  /\ username' = IF logins[no] = "done" THEN no ELSE username
  /\ UNCHANGED <<codeOf, tabs, port, backlog, checking, checks, strays, unheard>>

-----------------------------------------------------------------------------
(* A pasted token, and signing out *)

\* HfTokenSubmit, by Enter in the field of the token: not disabled while busy.
HfTokenSubmit ==
  /\ username = 0 /\ checks < MaxChecks
  /\ checks' = checks + 1 /\ checking' = checking + 1 /\ signInBusy' = TRUE
  /\ UNCHANGED <<logins, codeOf, tabs, port, backlog, username, strays, unheard>>

CheckEnds ==
  /\ checking > 0 /\ checking' = checking - 1 /\ signInBusy' = FALSE
  /\ username' \in {ByToken, username}
  /\ UNCHANGED <<logins, codeOf, tabs, port, backlog, checks, strays, unheard>>

HfSignOut ==
  /\ username # 0 /\ ~signInBusy /\ username' = 0
  /\ UNCHANGED <<logins, codeOf, tabs, port, backlog, signInBusy, checking, checks, strays, unheard>>

HfLoginNext ==
  \/ HfSignIn
  \/ \E no \in DOMAIN logins :
       \/ \E answer \in {"granted", "refused"} : AnswerTab(no, answer)
       \/ ExchangeOrAsk(no) \/ LoginEnds(no)
  \/ \E k \in DOMAIN backlog : RequestArrives(k)
  \/ StrayRequest \/ AcceptCallback \/ LoginTimesOut
  \/ HfTokenSubmit \/ CheckEnds \/ HfSignOut

HfLoginSpec == HfLoginInit /\ [][HfLoginNext]_hfLoginVars

-----------------------------------------------------------------------------
HfLoginTypeOK ==
  /\ logins \in Seq({"waiting", "exchanging", "asking", "done", "failed", "over"})
  /\ Len(codeOf) = Len(logins) /\ codeOf \in Seq(0..MaxLogins)
  /\ Len(tabs) = Len(logins) /\ tabs \in Seq({"open", "none", "granted", "refused"})
  /\ port \in 0..MaxLogins /\ backlog \in Seq(Redirect)
  /\ signInBusy \in BOOLEAN /\ checking \in 0..MaxChecks /\ username \in 0..ByToken
  /\ checks \in 0..MaxChecks /\ strays \in 0..MaxStrays /\ unheard \subseteq 0..MaxLogins

\* The port is bound exactly while one attempt waits on it, so that the next can bind
\* it; the code an attempt goes on with is that of its own tab (its verifier fits no
\* other), so a late answer to the tab of an earlier attempt ends an attempt but never
\* signs in with it; and an attempt that still waits has missed no grant made in its
\* tab, but for one whose request had not arrived when it was accepted.
CodeIsItsOwn ==
  /\ \A no \in DOMAIN logins : logins[no] = "waiting" <=> port = no
  /\ \A no \in DOMAIN logins :
       /\ logins[no] \in {"exchanging", "asking", "done"} => codeOf[no] = no /\ tabs[no] = "granted"
       /\ username = no => codeOf[no] = no
       /\ codeOf[no] \notin {0, no} => logins[no] \in {"failed", "over"} /\ codeOf[no] < no
       /\ logins[no] = "waiting" /\ tabs[no] = "granted" =>
            no \in unheard \/ \E k \in DOMAIN backlog : backlog[k].of = no /\ backlog[k].code
=============================================================================
