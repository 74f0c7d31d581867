-------------------------------- MODULE Dtls --------------------------------
(***************************************************************************)
(* librtc/dtls.cpp: one DTLS endpoint, the state machine around an OpenSSL *)
(* connection, from Run to the export of the SRTP keys and the close.      *)
(*                                                                         *)
(* Two threads: the application's, which makes every call, and the task    *)
(* queue dtls_queue_, which runs OnTimer.  SetTimeout posts OnTimer with a *)
(* delay and nothing ever cancels it (the lines that would are commented   *)
(* out), so armed timers outlive the handshake they were armed for.        *)
(* OnTimer is two steps, its check of handshake_done_ and the rest.        *)
(*                                                                         *)
(* External, modelled from how the code uses it: OpenSSL reports progress  *)
(* of the handshake, its end, a close alert or a fatal error; it keeps the *)
(* retransmission timer of the flight in the air, which an answer stops;   *)
(* DTLSv1_handle_timeout retransmits a flight that is due MaxRetries times *)
(* and then gives up; SSL_shutdown writes a close alert once the handshake *)
(* is over.  The listeners of the signals make no calls back.              *)
(*                                                                         *)
(* Left out: SAMPLE_SSL, renegotiation, partial BIO writes, the layout of  *)
(* keys and certificates (a fingerprint is the certificate it is of), and  *)
(* SetTimeout's branch for 30 s and more (OnSslDtlsTimer stops at 4 s).    *)
(***************************************************************************)
EXTENDS Naturals

CONSTANTS
  Certs,        \* certificates peers may present
  NoCert,       \* "no certificate", and "no fingerprint set"
  MaxRetries,   \* how often OpenSSL retransmits one flight
  MaxRuns,      \* bound on effective calls of Run
  MaxInput      \* bound on datagrams received

ASSUME CertsAssumption == NoCert \notin Certs
ASSUME DtlsBoundsAssumption == MaxRetries \in Nat /\ MaxRuns \in Nat /\ MaxInput \in Nat

VARIABLES
  state_,               \* DtlsState
  local_role_,          \* Role
  handshake_done_,
  remote_fingerprint_,  \* the certificate the application expects, or NoCert
  ssl,                  \* OpenSSL's handshake: before, shaking, finished; or freed
  peer,                 \* certificate and SRTP profile of the finished handshake
  closed,               \* the peer's close alert has been read
  flight,               \* flight awaiting an answer: off, running, due (timed out)
  retries,              \* retransmissions of the flight
  bio_write_,           \* empty, or a close alert left in it, between handlers
  timers,               \* OnTimer tasks armed and not yet run
  on_timer,             \* dtls_queue_: idle, or checked (inside OnTimer)
  keys,                 \* the keys handed over last: role and certificate they are
                        \* of, and the certificate the application then expected
  runs, input,          \* bounded counters
  crashed               \* an RTC_ASSERT failed or freed memory was used

vars == <<state_, local_role_, handshake_done_, remote_fingerprint_, ssl, peer,
          closed, flight, retries, bio_write_, timers, on_timer, keys, runs,
          input, crashed>>

sslVars == <<ssl, peer, closed, flight, retries>>
dtlsVars == <<state_, local_role_, handshake_done_, keys>>

States == {"NONE", "CONNECTING", "CONNECTED", "FAILED", "CLOSED"}
Roles == {"CLIENT", "SERVER"}
NoPeer == [cert |-> NoCert, srtp |-> FALSE]
Peers == [cert : Certs, srtp : BOOLEAN]
NoKeys == [role |-> "NONE", cert |-> NoCert, expected |-> NoCert]

TypeOK ==
  /\ state_ \in States
  /\ local_role_ \in Roles \cup {"NONE"}
  /\ handshake_done_ \in BOOLEAN
  /\ remote_fingerprint_ \in Certs \cup {NoCert}
  /\ ssl \in {"before", "shaking", "finished", "freed"}
  /\ peer \in Peers \cup {NoPeer}
  /\ closed \in BOOLEAN
  /\ flight \in {"off", "running", "due"}
  /\ retries \in 0..MaxRetries
  /\ bio_write_ \in {"empty", "alert"}
  /\ timers \in Nat
  /\ on_timer \in {"idle", "checked"}
  /\ keys \in [role : Roles, cert : Certs, expected : Certs] \cup {NoKeys}
  /\ runs \in 0..MaxRuns
  /\ input \in 0..MaxInput
  /\ crashed \in BOOLEAN

Init ==
  /\ state_ = "NONE" /\ local_role_ = "NONE" /\ handshake_done_ = FALSE
  /\ remote_fingerprint_ = NoCert
  /\ ssl = "before" /\ peer = NoPeer /\ closed = FALSE
  /\ flight = "off" /\ retries = 0
  /\ bio_write_ = "empty"
  /\ timers = 0 /\ on_timer = "idle"
  /\ keys = NoKeys
  /\ runs = 0 /\ input = 0
  /\ crashed = FALSE

-----------------------------------------------------------------------------
(* The parts the handlers are made of.                                     *)

IsRunning == state_ \in {"CONNECTING", "CONNECTED"}

(* The application still owns the object and the process is up.            *)
Usable == ~crashed /\ ssl # "freed"

(* SetTimeout, given the flight as the handler leaves it: another OnTimer  *)
(* is posted whenever time is left.                                        *)
SetTimeout(f) == timers' = IF f = "running" THEN timers + 1 ELSE timers

(* A slip to guard against: the flag of the old handshake survives.        *)
ResetToKeepsFlag(state) ==
  /\ state_' = state
  /\ local_role_' = "NONE"
  /\ ssl' = "before" /\ peer' = NoPeer /\ closed' = FALSE
  /\ flight' = "off" /\ retries' = 0
  /\ UNCHANGED <<handshake_done_, keys, timers>>

(* Reset of a running endpoint, and then the state the handler moves to.   *)
(* The fingerprint, bio_write_ and the armed timers survive.  SSL_shutdown *)
(* leaves a close alert behind when the handshake was over.                *)
ResetTo(state) ==
  /\ state_' = state
  /\ local_role_' = "NONE"
  /\ handshake_done_' = FALSE
  /\ ssl' = "before" /\ peer' = NoPeer /\ closed' = FALSE
  /\ flight' = "off" /\ retries' = 0
  /\ UNCHANGED <<keys, timers>>

(* A slip to guard against: the fingerprints are not compared.             *)
ValidAnyCert(p, f) == p.srtp

(* ProcessHandshake on the finished handshake p, with the fingerprint f:   *)
(* CONNECTED and the keys handed over if the certificate is the expected   *)
(* one and an SRTP profile was negotiated.                                 *)
Valid(p, f) == p.cert = f /\ p.srtp

(* ... and with them, for the properties, the fingerprint f of the moment.  *)
ExtractSrtpKeys(p, f) ==
  /\ state_' = "CONNECTED"
  /\ handshake_done_' = TRUE
  /\ keys' = [role |-> local_role_, cert |-> p.cert, expected |-> f]
  /\ UNCHANGED local_role_

(* One more datagram.                                                      *)
Receiving ==
  /\ Usable
  /\ IsRunning
  /\ input < MaxInput
  /\ input' = input + 1

-----------------------------------------------------------------------------
(* Calls of the application.                                               *)

(* Run: nothing if the role is the same; otherwise start over, and as the  *)
(* client send the first flight (with whatever waits in bio_write_) and    *)
(* arm the timer.                                                          *)
Run(role) ==
  /\ Usable
  /\ role # local_role_
  /\ runs < MaxRuns
  /\ runs' = runs + 1
  /\ local_role_' = role
  /\ state_' = "CONNECTING"
  /\ handshake_done_' = FALSE
  /\ ssl' = "shaking" /\ peer' = NoPeer /\ closed' = FALSE
  /\ flight' = IF role = "CLIENT" THEN "running" ELSE "off"
  /\ retries' = 0
  /\ SetTimeout(flight')
  /\ bio_write_' = IF role = "CLIENT" THEN "empty"
                   ELSE IF ssl = "finished" THEN "alert" ELSE bio_write_
  /\ UNCHANGED <<remote_fingerprint_, on_timer, keys, input, crashed>>

(* SetRemoteFingerprint: kept, and a handshake that was waiting for it is  *)
(* processed at once.                                                      *)
SetRemoteFingerprint(cert) ==
  /\ Usable
  /\ remote_fingerprint_' = cert
  /\ IF handshake_done_ /\ state_ # "CONNECTED"
     THEN IF Valid(peer, cert)
          THEN /\ ExtractSrtpKeys(peer, cert)
               /\ UNCHANGED <<sslVars, bio_write_, timers>>
          ELSE /\ ResetTo("FAILED")
               /\ bio_write_' = "alert"
     ELSE UNCHANGED <<dtlsVars, sslVars, bio_write_, timers>>
  /\ UNCHANGED <<on_timer, runs, input, crashed>>

(* OnRecv of a handshake message that is not the last: the flight in the   *)
(* air is answered, another may go out.                                    *)
OnRecvHandshake ==
  /\ Receiving
  /\ ssl = "shaking"
  /\ ~closed
  /\ flight' \in {"off", "running"}
  /\ retries' = 0
  /\ bio_write_' = "empty"
  /\ SetTimeout(flight')
  /\ UNCHANGED <<dtlsVars, remote_fingerprint_, ssl, peer, closed, on_timer,
                 runs, crashed>>

(* OnRecv of the message that ends the handshake, perhaps with a close     *)
(* alert behind it.  CheckStatus marks it done and processes it, unless    *)
(* the fingerprint is still to come; that takes precedence over the alert. *)
OnRecvFinished(p) ==
  /\ Receiving
  /\ ssl = "shaking"
  /\ ~closed
  /\ IF remote_fingerprint_ = NoCert \/ Valid(p, remote_fingerprint_)
     THEN /\ ssl' = "finished"
          /\ peer' = p
          /\ closed' \in BOOLEAN
          /\ flight' = "off" /\ retries' = 0
          /\ bio_write_' = "empty"
          /\ UNCHANGED timers
          /\ IF remote_fingerprint_ # NoCert
             THEN ExtractSrtpKeys(p, remote_fingerprint_)
             ELSE /\ handshake_done_' = TRUE
                  /\ UNCHANGED <<state_, local_role_, keys>>
     ELSE /\ ResetTo("FAILED")
          /\ bio_write_' = "alert"
  /\ UNCHANGED <<remote_fingerprint_, on_timer, runs, crashed>>

(* OnRecv of application data, a duplicate or garbage: pending data goes   *)
(* out and the timer is armed once more.                                   *)
OnRecvOther ==
  /\ Receiving
  /\ ~closed
  /\ bio_write_' = "empty"
  /\ SetTimeout(flight)
  /\ UNCHANGED <<dtlsVars, sslVars, remote_fingerprint_, on_timer, runs, crashed>>

(* A slip to guard against: the state is read after Reset has cleared it.  *)
CheckStatusBadResetFirst(fatal) ==
  /\ ResetTo("FAILED")
  /\ bio_write_' = IF ssl = "finished" /\ ~fatal THEN "alert" ELSE "empty"

(* CheckStatus on a close alert or an error: a connected endpoint closes,  *)
(* any other fails.                                                        *)
CheckStatusBad(fatal) ==
  /\ ResetTo(IF state_ = "CONNECTED" THEN "CLOSED" ELSE "FAILED")
  /\ bio_write_' = IF ssl = "finished" /\ ~fatal THEN "alert" ELSE "empty"

(* OnRecv of a close alert or of a fatal error, or of anything after a     *)
(* close alert that an earlier call left unnoticed.                        *)
OnRecvBad ==
  /\ Receiving
  /\ \E fatal \in BOOLEAN : CheckStatusBad(fatal)
  /\ UNCHANGED <<remote_fingerprint_, on_timer, runs, crashed>>

(* SendApplicationData: nothing unless connected; the write goes out, or   *)
(* fails and closes the endpoint.                                          *)
SendApplicationData ==
  /\ Usable
  /\ state_ = "CONNECTED"
  /\ \/ /\ bio_write_' = "empty"
        /\ UNCHANGED <<dtlsVars, sslVars, timers>>
     \/ \E fatal \in BOOLEAN : CheckStatusBad(fatal)
  /\ UNCHANGED <<remote_fingerprint_, on_timer, runs, input, crashed>>

(* ~Dtls: the SSL object goes first; its members, dtls_queue_ with the     *)
(* tasks in it, are destroyed after that.                                  *)
Destroy ==
  /\ Usable
  /\ ssl' = "freed" /\ peer' = NoPeer /\ closed' = FALSE
  /\ flight' = "off" /\ retries' = 0
  /\ bio_write_' = IF IsRunning THEN "empty" ELSE bio_write_
  /\ UNCHANGED <<dtlsVars, remote_fingerprint_, timers, on_timer, runs, input,
                 crashed>>

DestroyQueue ==
  /\ ~crashed
  /\ ssl = "freed"
  /\ on_timer = "idle"
  /\ timers > 0
  /\ timers' = 0
  /\ UNCHANGED <<dtlsVars, sslVars, remote_fingerprint_, bio_write_, on_timer,
                 runs, input, crashed>>

-----------------------------------------------------------------------------
(* Time, and the thread of dtls_queue_.                                    *)

FlightTimesOut ==
  /\ Usable
  /\ flight = "running"
  /\ flight' = "due"
  /\ UNCHANGED <<dtlsVars, remote_fingerprint_, ssl, peer, closed, retries,
                 bio_write_, timers, on_timer, runs, input, crashed>>

(* OnTimer begins: it returns if the handshake is done.                    *)
OnTimerCheck ==
  /\ ~crashed
  /\ on_timer = "idle"
  /\ timers > 0
  /\ timers' = timers - 1
  /\ on_timer' = IF handshake_done_ THEN "idle" ELSE "checked"
  /\ UNCHANGED <<dtlsVars, sslVars, remote_fingerprint_, bio_write_, runs,
                 input, crashed>>

(* A slip to guard against: the time left is read before the retransmission. *)
OnTimerHandleReadsEarly ==
  /\ Usable
  /\ on_timer = "checked"
  /\ on_timer' = "idle"
  /\ IF flight = "due" /\ retries < MaxRetries
     THEN flight' = "running" /\ retries' = retries + 1
     ELSE UNCHANGED <<flight, retries>>
  /\ bio_write_' = "empty"
  /\ IF IsRunning
     THEN SetTimeout(flight) /\ UNCHANGED crashed
     ELSE crashed' = TRUE /\ UNCHANGED timers
  /\ UNCHANGED <<dtlsVars, remote_fingerprint_, ssl, peer, closed, runs, input>>

(* A slip to guard against: the timer is set again, nothing is sent again. *)
OnTimerHandleOnlyRearms ==
  /\ Usable
  /\ on_timer = "checked"
  /\ on_timer' = "idle"
  /\ bio_write_' = "empty"
  /\ IF IsRunning
     THEN SetTimeout(flight) /\ UNCHANGED crashed
     ELSE crashed' = TRUE /\ UNCHANGED timers
  /\ UNCHANGED <<dtlsVars, sslVars, remote_fingerprint_, runs, input>>

(* OnTimer goes on: DTLSv1_handle_timeout, send what is pending, and       *)
(* SetTimeout, which asserts that the endpoint is running.                 *)
OnTimerHandle ==
  /\ Usable
  /\ on_timer = "checked"
  /\ on_timer' = "idle"
  /\ IF flight = "due" /\ retries < MaxRetries
     THEN flight' = "running" /\ retries' = retries + 1
     ELSE UNCHANGED <<flight, retries>>
  /\ bio_write_' = "empty"
  /\ IF IsRunning
     THEN SetTimeout(flight') /\ UNCHANGED crashed
     ELSE crashed' = TRUE /\ UNCHANGED timers
  /\ UNCHANGED <<dtlsVars, remote_fingerprint_, ssl, peer, closed, runs, input>>

(* ... or finds the SSL object gone.                                       *)
OnTimerDangling ==
  /\ ~crashed
  /\ ssl = "freed"
  /\ on_timer = "checked"
  /\ crashed' = TRUE
  /\ UNCHANGED <<dtlsVars, sslVars, remote_fingerprint_, bio_write_, timers,
                 on_timer, runs, input>>

-----------------------------------------------------------------------------

OnRecv ==
  \/ OnRecvHandshake
  \/ \E p \in Peers : OnRecvFinished(p)
  \/ OnRecvOther
  \/ OnRecvBad

Call ==
  \/ \E role \in Roles : Run(role)
  \/ \E cert \in Certs : SetRemoteFingerprint(cert)
  \/ SendApplicationData
  \/ Destroy
  \/ DestroyQueue

OnTimer == OnTimerCheck \/ OnTimerHandle \/ OnTimerDangling

Next == Call \/ OnRecv \/ FlightTimesOut \/ OnTimer

(* A task queue runs the tasks whose delay is over.                        *)
Fairness == WF_vars(OnTimer)

Safety == Init /\ [][Next]_vars
Spec == Safety /\ Fairness

-----------------------------------------------------------------------------
(* Properties.                                                             *)

(* CONNECTED means that the keys handed to the application are those of    *)
(* the handshake OpenSSL now holds: split for the role it was run in, of   *)
(* its certificate, which is the one the application expected when they    *)
(* were handed over, and with SRTP negotiated.  Roles change, handshakes   *)
(* start over and fingerprints arrive late in between.  (A fingerprint set *)
(* on a CONNECTED endpoint is kept and compared with nothing.)             *)
KeysAreOfThisHandshake ==
  state_ = "CONNECTED" /\ ssl # "freed" =>
    /\ ssl = "finished" /\ handshake_done_
    /\ keys = [role |-> local_role_, cert |-> peer.cert, expected |-> peer.cert]
    /\ peer.srtp

(* A finished handshake waits for nothing but the fingerprint: it is never *)
(* left CONNECTING once both are there, whichever came first, and the done *)
(* flag never survives into another handshake or a stopped endpoint, where *)
(* SetRemoteFingerprint would process it.                                  *)
NoHandshakeLeftUnprocessed ==
  /\ ssl = "finished" => handshake_done_
  /\ handshake_done_ => IsRunning /\ ssl \in {"finished", "freed"}
  /\ handshake_done_ /\ state_ = "CONNECTING" => remote_fingerprint_ = NoCert

(* While a flight awaits its answer an OnTimer is armed or under way, so   *)
(* that a lost datagram is noticed, until OpenSSL has used up its retries. *)
RetransmissionStaysArmed ==
  flight # "off" /\ IsRunning =>
    timers > 0 \/ on_timer = "checked" \/ retries = MaxRetries

(* An outcome is of the handshake it is reported for: only a handshake     *)
(* under way connects or fails, and only a connection closes, so that the  *)
(* application tells a lost peer from one it never had.  These are the     *)
(* arrows of dtls.h:114-117 into an outcome.  About the ways out of one    *)
(* the code and dtls.h part: the diagram has none from CONNECTED back to   *)
(* CONNECTING, line 120 wants a new object after FAILED or CLOSED, and Run *)
(* starts over from all three (after a Reset, local_role_ is NONE).        *)
OutcomesFollowTheirHandshake ==
  [][ state_' # state_ =>
        /\ state_' \in {"CONNECTED", "FAILED"} => state_ = "CONNECTING"
        /\ state_' = "CLOSED" => state_ = "CONNECTED" ]_vars

(* A flight that timed out is sent again (or answered, or given up), if    *)
(* the process survives: an armed timer reaches it.                        *)
LostFlightIsRetransmitted ==
  flight = "due" /\ IsRunning ~>
    flight # "due" \/ retries = MaxRetries \/ crashed

=============================================================================
