----------------------------- MODULE Dtls_proofs -----------------------------
(***************************************************************************)
(* Proofs about Dtls.tla, for any set of certificates and any bounds.      *)
(***************************************************************************)
EXTENDS Dtls, TLAPS

(* What OpenSSL holds agrees with the endpoint: a finished handshake has a *)
(* peer and no flight in the air, and a freed one nothing at all.          *)
SslIsConsistent ==
  /\ ssl = "finished" => peer \in Peers /\ flight = "off"
  /\ ssl = "freed" => flight = "off"
  /\ IsRunning => local_role_ \in Roles

(* The inductive invariant.                                                *)
IInv ==
  /\ TypeOK
  /\ SslIsConsistent
  /\ KeysAreOfThisHandshake
  /\ NoHandshakeLeftUnprocessed
  /\ RetransmissionStaysArmed

-----------------------------------------------------------------------------
(* One lemma per step that changes the handshake.                          *)

LEMMA PeersAndKeys ==
  /\ \A p \in Peers : p.cert \in Certs /\ p.cert # NoCert
  /\ \A role \in Roles, cert, expected \in Certs :
       [role |-> role, cert |-> cert, expected |-> expected]
         \in [role : Roles, cert : Certs, expected : Certs]
  BY CertsAssumption DEF Peers, NoPeer

LEMMA SetTimeoutFacts ==
  ASSUME timers \in Nat, NEW f, SetTimeout(f)
  PROVE  /\ timers' \in Nat
         /\ timers' >= timers
         /\ f = "running" => timers' > 0
  BY DEF SetTimeout

LEMMA Zeros == 0 \in 0..MaxRetries /\ 0 \in 0..MaxRuns /\ 0 \in 0..MaxInput
  BY DtlsBoundsAssumption

LEMMA InitInv == Init => IInv
<1> SUFFICES ASSUME Init PROVE IInv
  OBVIOUS
<1>1. TypeOK
  BY Zeros DEF Init, TypeOK, States
<1>2. QED
  BY <1>1
  DEF Init, IInv, SslIsConsistent, KeysAreOfThisHandshake, IsRunning,
      NoHandshakeLeftUnprocessed, RetransmissionStaysArmed

(* A reset leaves nothing of the handshake behind.                         *)
LEMMA ResetStep ==
  ASSUME IInv, NEW s \in {"FAILED", "CLOSED"}, ResetTo(s),
         bio_write_' \in {"empty", "alert"},
         remote_fingerprint_' \in Certs \cup {NoCert},
         UNCHANGED <<on_timer, runs, crashed>>, input' \in 0..MaxInput
  PROVE  IInv'
<1>1. TypeOK'
  BY Zeros DEF IInv, TypeOK, ResetTo, States
<1>2. ~IsRunning'
  BY DEF ResetTo, IsRunning
<1>3. QED
  BY <1>1, <1>2
  DEF ResetTo, IInv, SslIsConsistent, KeysAreOfThisHandshake,
      NoHandshakeLeftUnprocessed, RetransmissionStaysArmed

LEMMA CheckStatusBadStep ==
  ASSUME IInv, NEW fatal \in BOOLEAN, CheckStatusBad(fatal),
         UNCHANGED <<remote_fingerprint_, on_timer, runs, crashed>>,
         input' \in 0..MaxInput
  PROVE  IInv'
<1>1. PICK s \in {"FAILED", "CLOSED"} : ResetTo(s)
  BY DEF CheckStatusBad
<1>2. bio_write_' \in {"empty", "alert"}
  BY DEF CheckStatusBad
<1>3. remote_fingerprint_' \in Certs \cup {NoCert}
  BY DEF IInv, TypeOK
<1>4. QED
  BY <1>1, <1>2, <1>3, ResetStep

LEMMA RunStep ==
  ASSUME IInv, NEW role \in Roles, Run(role)
  PROVE  IInv'
<1>1. flight' \in {"off", "running"}
  BY DEF Run
<1>2. timers' \in Nat /\ (flight' = "running" => timers' > 0)
  BY <1>1, SetTimeoutFacts DEF Run, IInv, TypeOK
<1>3. bio_write_' \in {"empty", "alert"} /\ runs' \in 0..MaxRuns
  BY DtlsBoundsAssumption DEF Run, IInv, TypeOK
<1>4. TypeOK'
  BY <1>1, <1>2, <1>3, Zeros DEF Run, IInv, TypeOK, States
<1>5. QED
  BY <1>1, <1>2, <1>4
  DEF Run, IInv, SslIsConsistent, KeysAreOfThisHandshake, IsRunning, Roles,
      NoHandshakeLeftUnprocessed, RetransmissionStaysArmed

LEMMA SetRemoteFingerprintStep ==
  ASSUME IInv, NEW cert \in Certs, SetRemoteFingerprint(cert)
  PROVE  IInv'
<1>1. CASE handshake_done_ /\ state_ # "CONNECTED" /\ Valid(peer, cert)
  <2>1. IsRunning /\ ssl = "finished" /\ peer \in Peers /\ local_role_ \in Roles
    BY <1>1
    DEF IInv, SslIsConsistent, NoHandshakeLeftUnprocessed, SetRemoteFingerprint, Usable
  <2>2. ExtractSrtpKeys(peer, cert) /\ UNCHANGED <<sslVars, bio_write_, timers>>
    BY <1>1 DEF SetRemoteFingerprint
  <2>3. TypeOK'
    BY <2>1, <2>2, PeersAndKeys
    DEF SetRemoteFingerprint, ExtractSrtpKeys, sslVars, IInv, TypeOK, States
  <2>4. QED
    BY <1>1, <2>1, <2>2, <2>3
    DEF SetRemoteFingerprint, ExtractSrtpKeys, sslVars, IInv, SslIsConsistent,
        KeysAreOfThisHandshake, NoHandshakeLeftUnprocessed,
        RetransmissionStaysArmed, IsRunning, Valid
<1>2. CASE handshake_done_ /\ state_ # "CONNECTED" /\ ~Valid(peer, cert)
  <2>1. ResetTo("FAILED") /\ bio_write_' = "alert"
    BY <1>2 DEF SetRemoteFingerprint
  <2>2. QED
    BY <2>1, ResetStep DEF SetRemoteFingerprint, IInv, TypeOK
<1>3. CASE ~(handshake_done_ /\ state_ # "CONNECTED")
  <2>1. UNCHANGED <<dtlsVars, sslVars, bio_write_, timers>>
    BY <1>3 DEF SetRemoteFingerprint
  <2>2. QED
    BY <1>3, <2>1
    DEF SetRemoteFingerprint, dtlsVars, sslVars, IInv, TypeOK, SslIsConsistent,
        KeysAreOfThisHandshake, NoHandshakeLeftUnprocessed,
        RetransmissionStaysArmed, IsRunning
<1>4. QED
  BY <1>1, <1>2, <1>3

LEMMA OnRecvFinishedStep ==
  ASSUME IInv, NEW p \in Peers, OnRecvFinished(p)
  PROVE  IInv'
<1>0. input' \in 0..MaxInput
  BY DtlsBoundsAssumption DEF OnRecvFinished, Receiving, IInv, TypeOK
<1>1. CASE remote_fingerprint_ = NoCert
  <2>1. p.cert # NoCert
    BY PeersAndKeys
  <2>2. TypeOK'
    BY <1>0, <1>1, DtlsBoundsAssumption DEF OnRecvFinished, IInv, TypeOK
  <2>3. QED
    BY <1>1, <2>2
    DEF OnRecvFinished, Receiving, IInv, SslIsConsistent, KeysAreOfThisHandshake,
        NoHandshakeLeftUnprocessed, RetransmissionStaysArmed, IsRunning
<1>2. CASE remote_fingerprint_ # NoCert /\ Valid(p, remote_fingerprint_)
  <2>1. ExtractSrtpKeys(p, remote_fingerprint_) /\ local_role_ \in Roles
    BY <1>2 DEF OnRecvFinished, Receiving, IInv, SslIsConsistent
  <2>2. TypeOK'
    BY <1>0, <1>2, <2>1, PeersAndKeys, DtlsBoundsAssumption
    DEF OnRecvFinished, ExtractSrtpKeys, IInv, TypeOK, States
  <2>3. QED
    BY <1>2, <2>1, <2>2
    DEF OnRecvFinished, ExtractSrtpKeys, IInv, SslIsConsistent, Valid,
        KeysAreOfThisHandshake, NoHandshakeLeftUnprocessed,
        RetransmissionStaysArmed, IsRunning
<1>3. CASE remote_fingerprint_ # NoCert /\ ~Valid(p, remote_fingerprint_)
  <2>1. ResetTo("FAILED") /\ bio_write_' = "alert"
    BY <1>3 DEF OnRecvFinished
  <2>2. QED
    BY <1>0, <2>1, ResetStep DEF OnRecvFinished, IInv, TypeOK
<1>4. QED
  BY <1>1, <1>2, <1>3

LEMMA OnRecvStep == IInv /\ OnRecv => IInv'
<1> SUFFICES ASSUME IInv, OnRecv PROVE IInv'
  OBVIOUS
<1>0. ASSUME Receiving PROVE input' \in 0..MaxInput
  BY <1>0, DtlsBoundsAssumption DEF Receiving, IInv, TypeOK
<1>1. CASE OnRecvHandshake
  <2>1. timers' \in Nat /\ (flight' = "running" => timers' > 0)
    BY <1>1, SetTimeoutFacts DEF OnRecvHandshake, IInv, TypeOK
  <2>2. TypeOK'
    BY <1>0, <1>1, <2>1, DtlsBoundsAssumption DEF OnRecvHandshake, IInv, TypeOK, dtlsVars
  <2>3. QED
    BY <1>1, <2>1, <2>2
    DEF OnRecvHandshake, dtlsVars, IInv, SslIsConsistent, KeysAreOfThisHandshake,
        NoHandshakeLeftUnprocessed, RetransmissionStaysArmed, IsRunning
<1>2. ASSUME NEW p \in Peers, OnRecvFinished(p) PROVE IInv'
  BY <1>2, OnRecvFinishedStep
<1>3. CASE OnRecvOther
  <2>1. timers' \in Nat /\ timers' >= timers
    BY <1>3, SetTimeoutFacts DEF OnRecvOther, IInv, TypeOK
  <2>2. TypeOK'
    BY <1>0, <1>3, <2>1 DEF OnRecvOther, IInv, TypeOK, dtlsVars, sslVars
  <2>3. timers \in Nat /\ (timers > 0 => timers' > 0)
    BY <2>1 DEF IInv, TypeOK
  <2>4. QED
    BY <1>3, <2>2, <2>3
    DEF OnRecvOther, dtlsVars, sslVars, IInv, SslIsConsistent,
        KeysAreOfThisHandshake, NoHandshakeLeftUnprocessed,
        RetransmissionStaysArmed, IsRunning
<1>4. CASE OnRecvBad
  BY <1>0, <1>4, CheckStatusBadStep DEF OnRecvBad
<1>5. QED
  BY <1>1, <1>2, <1>3, <1>4 DEF OnRecv

LEMMA CallStep == IInv /\ Call => IInv'
<1> SUFFICES ASSUME IInv, Call PROVE IInv'
  OBVIOUS
<1>1. CASE SendApplicationData
  <2>1. CASE bio_write_' = "empty" /\ UNCHANGED <<dtlsVars, sslVars, timers>>
    BY <1>1, <2>1
    DEF SendApplicationData, dtlsVars, sslVars, IInv, TypeOK, SslIsConsistent,
        KeysAreOfThisHandshake, NoHandshakeLeftUnprocessed,
        RetransmissionStaysArmed, IsRunning
  <2>2. ASSUME NEW fatal \in BOOLEAN, CheckStatusBad(fatal) PROVE IInv'
    <3>1. UNCHANGED <<remote_fingerprint_, on_timer, runs, crashed>>
      BY <1>1 DEF SendApplicationData
    <3>2. input' \in 0..MaxInput
      BY <1>1 DEF SendApplicationData, IInv, TypeOK
    <3>3. QED
      BY <2>2, <3>1, <3>2, CheckStatusBadStep
  <2>3. QED
    BY <1>1, <2>1, <2>2 DEF SendApplicationData
<1>2. CASE Destroy
  <2>1. TypeOK'
    BY <1>2, Zeros DEF Destroy, dtlsVars, IInv, TypeOK
  <2>2. QED
    BY <1>2, <2>1
    DEF Destroy, Usable, dtlsVars, IInv, SslIsConsistent, KeysAreOfThisHandshake,
        NoHandshakeLeftUnprocessed, RetransmissionStaysArmed, IsRunning
<1>3. CASE DestroyQueue
  BY <1>3
  DEF DestroyQueue, dtlsVars, sslVars, IInv, TypeOK, SslIsConsistent,
      KeysAreOfThisHandshake, NoHandshakeLeftUnprocessed,
      RetransmissionStaysArmed, IsRunning
<1>4. QED
  BY <1>1, <1>2, <1>3, RunStep, SetRemoteFingerprintStep DEF Call

LEMMA OnTimerStep == IInv /\ OnTimer => IInv'
<1> SUFFICES ASSUME IInv, OnTimer PROVE IInv'
  OBVIOUS
<1>1. CASE OnTimerCheck
  <2>1. TypeOK'
    BY <1>1 DEF OnTimerCheck, dtlsVars, sslVars, IInv, TypeOK
  <2>2. RetransmissionStaysArmed'
    BY <1>1
    DEF OnTimerCheck, dtlsVars, sslVars, IInv, RetransmissionStaysArmed,
        IsRunning, NoHandshakeLeftUnprocessed, SslIsConsistent
  <2>3. QED
    BY <1>1, <2>1, <2>2
    DEF OnTimerCheck, dtlsVars, sslVars, IInv, SslIsConsistent,
        KeysAreOfThisHandshake, NoHandshakeLeftUnprocessed, IsRunning
<1>2. CASE OnTimerHandle
  <2>1. flight' \in {"off", "running", "due"} /\ retries' \in 0..MaxRetries
    BY <1>2, DtlsBoundsAssumption DEF OnTimerHandle, IInv, TypeOK
  <2>2. timers' \in Nat
    BY <1>2, SetTimeoutFacts DEF OnTimerHandle, IInv, TypeOK
  <2>3. TypeOK'
    BY <1>2, <2>1, <2>2 DEF OnTimerHandle, dtlsVars, IInv, TypeOK
  <2>4. flight = "off" => flight' = "off"
    BY <1>2 DEF OnTimerHandle
  <2>5. RetransmissionStaysArmed'
    <3>1. SUFFICES ASSUME flight' # "off", IsRunning PROVE timers' > 0 \/ retries' = MaxRetries
      BY <1>2 DEF RetransmissionStaysArmed, OnTimerHandle, dtlsVars, IsRunning
    <3>2. CASE flight' = "running"
      BY <1>2, <3>1, <3>2, SetTimeoutFacts DEF OnTimerHandle, IInv, TypeOK
    <3>3. CASE flight' = "due"
      BY <1>2, <3>3, DtlsBoundsAssumption DEF OnTimerHandle, IInv, TypeOK
    <3>4. QED
      BY <2>1, <3>1, <3>2, <3>3
  <2>6. QED
    BY <1>2, <2>3, <2>4, <2>5
    DEF OnTimerHandle, dtlsVars, IInv, SslIsConsistent, KeysAreOfThisHandshake,
        NoHandshakeLeftUnprocessed, IsRunning
<1>3. CASE OnTimerDangling
  BY <1>3
  DEF OnTimerDangling, dtlsVars, sslVars, IInv, TypeOK, SslIsConsistent,
      KeysAreOfThisHandshake, NoHandshakeLeftUnprocessed,
      RetransmissionStaysArmed, IsRunning
<1>4. QED
  BY <1>1, <1>2, <1>3 DEF OnTimer

LEMMA InvStep == IInv /\ [Next]_vars => IInv'
<1> SUFFICES ASSUME IInv, [Next]_vars PROVE IInv'
  OBVIOUS
<1>1. CASE FlightTimesOut
  BY <1>1
  DEF FlightTimesOut, dtlsVars, IInv, TypeOK, SslIsConsistent,
      KeysAreOfThisHandshake, NoHandshakeLeftUnprocessed,
      RetransmissionStaysArmed, IsRunning
<1>2. CASE UNCHANGED vars
  BY <1>2
  DEF vars, IInv, TypeOK, SslIsConsistent, KeysAreOfThisHandshake,
      NoHandshakeLeftUnprocessed, RetransmissionStaysArmed, IsRunning
<1>3. QED
  BY <1>1, <1>2, CallStep, OnRecvStep, OnTimerStep DEF Next

THEOREM Invariance == Spec => []IInv
  BY InitInv, InvStep, PTL DEF Spec, Safety

-----------------------------------------------------------------------------

(* Type correctness of every reachable state: in particular keys are never *)
(* handed over without a role and a certificate.                           *)
THEOREM TypeCorrect == Spec => []TypeOK
  BY Invariance, PTL DEF IInv

(* The keys of a CONNECTED endpoint are those of the handshake OpenSSL     *)
(* holds, for the role it was run in, and its certificate is the one the   *)
(* application expected when they were handed over.                        *)
THEOREM KeysCorrect == Spec => []KeysAreOfThisHandshake
  BY Invariance, PTL DEF IInv

(* A finished handshake and a known fingerprint never wait for each other. *)
THEOREM HandshakesAreProcessed == Spec => []NoHandshakeLeftUnprocessed
  BY Invariance, PTL DEF IInv

(* A flight in the air always has a timer, or its retries are used up.     *)
THEOREM TimersCoverFlights == Spec => []RetransmissionStaysArmed
  BY Invariance, PTL DEF IInv

LEMMA TransitionStep ==
  ASSUME IInv, [Next]_vars, state_' # state_
  PROVE  /\ state_' \in {"CONNECTED", "FAILED"} => state_ = "CONNECTING"
         /\ state_' = "CLOSED" => state_ = "CONNECTED"
<1> DEFINE Allowed == /\ state_' \in {"CONNECTED", "FAILED"} => state_ = "CONNECTING"
                      /\ state_' = "CLOSED" => state_ = "CONNECTED"
<1>1. ASSUME NEW role \in Roles, Run(role) PROVE Allowed
  BY <1>1 DEF Run
<1>2. ASSUME NEW cert \in Certs, SetRemoteFingerprint(cert) PROVE Allowed
  BY <1>2
  DEF SetRemoteFingerprint, ExtractSrtpKeys, ResetTo, dtlsVars, IInv,
      NoHandshakeLeftUnprocessed, IsRunning
<1>3. ASSUME NEW fatal \in BOOLEAN, CheckStatusBad(fatal), IsRunning PROVE Allowed
  BY <1>3 DEF CheckStatusBad, ResetTo, IsRunning
<1>4. CASE Call
  <2>1. CASE SendApplicationData
    BY <1>3, <2>1 DEF SendApplicationData, dtlsVars, IsRunning
  <2>2. CASE Destroy \/ DestroyQueue
    BY <2>2 DEF Destroy, DestroyQueue, dtlsVars
  <2>3. QED
    BY <1>1, <1>2, <1>4, <2>1, <2>2 DEF Call
<1>5. ASSUME NEW p \in Peers, OnRecvFinished(p) PROVE Allowed
  BY <1>5
  DEF OnRecvFinished, Receiving, ExtractSrtpKeys, ResetTo, IInv, IsRunning,
      KeysAreOfThisHandshake, Usable
<1>6. CASE OnRecv
  BY <1>3, <1>5, <1>6
  DEF OnRecv, OnRecvHandshake, OnRecvOther, OnRecvBad, Receiving, dtlsVars
<1>7. CASE FlightTimesOut \/ OnTimer \/ UNCHANGED vars
  BY <1>7
  DEF FlightTimesOut, OnTimer, OnTimerCheck, OnTimerHandle, OnTimerDangling,
      dtlsVars, vars
<1>8. QED
  BY <1>4, <1>6, <1>7 DEF Next

(* Only a handshake under way connects or fails and only a connection      *)
(* closes, whatever the order of calls, datagrams and timers.              *)
THEOREM OutcomesCorrect == Spec => OutcomesFollowTheirHandshake
<1>1. IInv /\ [Next]_vars =>
        [ state_' # state_ =>
            /\ state_' \in {"CONNECTED", "FAILED"} => state_ = "CONNECTING"
            /\ state_' = "CLOSED" => state_ = "CONNECTED" ]_vars
  BY TransitionStep
<1>2. QED
  BY <1>1, Invariance, PTL DEF Spec, Safety, OutcomesFollowTheirHandshake

=============================================================================
