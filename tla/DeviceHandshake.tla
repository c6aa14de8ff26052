-------------------------- MODULE DeviceHandshake ---------------------------
(***************************************************************************)
(* The HTTP handlers of the gateway (services/beacon_management/internals) *)
(* composed with the start-up of the node and its certificate authority.   *)
(*                                                                         *)
(* Each request is handled by a task of its own.  handle_device_init signs *)
(* the request, stores the row of the hostname, writes {hostname}.crt when *)
(* there is a broker, and answers; handle_client_register signs and stores *)
(* under a fresh UUID, and answers.  Tasks for one hostname may overlap,   *)
(* a device may send its CSR again, calls may fail, and the node may crash *)
(* between any two steps.                                                  *)
(*                                                                         *)
(* Health checks, forwarded requests and requests that do not parse change *)
(* nothing here.  What a handshake queues for the message loop, between    *)
(* the record and the answer, is BeaconRegistry's.  Hostnames are assumed  *)
(* to differ from the names of the node's own certificate files.           *)
(***************************************************************************)
EXTENDS Startup

CONSTANT Handlers  \* tasks that handle requests at a time

ASSUME DevicesAssumption == "none" \notin Devices

VARIABLES
    handlers,  \* the request each task handles
    requests,  \* requests so far, and a bound on the keys in them
    records,   \* {hostname}.crt in the directory of the certificates
    answered,  \* history: certificates sent, with their device
    stored,    \* history: certificates written to device_certs
    refused    \* history: requests answered with 500 after they were signed

handshakeVars == <<handlers, requests, records, answered, stored, refused>>
vars == <<caVars, startupVars, handshakeVars>>

Idle == [pc |-> "idle", device |-> "none", cert |-> NoCert, alone |-> FALSE]

Issued == [device : Devices, cert : DeviceCerts]

\* Every variable holds what its declaration says.
TypeOK ==
    /\ CaTypeOK
    /\ StartupTypeOK
    /\ handlers \in [Handlers ->
           [pc : {"idle", "upsert", "open", "fill", "answer"},
            device : Devices \cup {"none"}, cert : DeviceCerts,
            alone : BOOLEAN]]
    /\ requests \in 0..MaxRequests
    /\ records \in [Hosts -> DeviceCerts]
    /\ answered \subseteq Issued
    /\ stored \subseteq Issued
    /\ refused \in Nat

Init ==
    /\ StartupInit
    /\ handlers = [h \in Handlers |-> Idle]
    /\ requests = 0
    /\ records = [d \in Hosts |-> NoCert]
    /\ answered = {}
    /\ stored = {}
    /\ refused = 0

-----------------------------------------------------------------------------
Headers == {"x-placenet-health", "x-placenet-init", "x-placenet-register"}

\* dispatch: the handler for the headers of a request.
Route(headers) ==
    CASE "x-placenet-health" \in headers -> "handle_health"
      [] "x-placenet-init" \in headers
         /\ "x-placenet-health" \notin headers -> "handle_device_init"
      [] headers = {"x-placenet-register"} -> "handle_client_register"
      [] headers = {} -> "try_forward"

\* handle_device_init for a hostname, handle_client_register for a new UUID.
Serves(route, d) ==
    \/ route = "handle_device_init" /\ d \in Hosts
    \/ /\ route = "handle_client_register"
       /\ d \in Clients
       /\ get_cert(d) = NoCert
       /\ \A h \in Handlers : handlers[h].device # d

Arrives(h, d) ==
    /\ gateway
    /\ handlers[h].pc = "idle"
    /\ requests < MaxRequests
    /\ \E headers \in SUBSET Headers : Serves(Route(headers), d)
    /\ requests' = requests + 1

\* The request is parsed and the certificate for its key signed.  The key is
\* new, or that of an earlier request which is sent again.  From here on the
\* task shares the row and the file of d with those already at work on d.
Dispatch(h, d, key) ==
    /\ Arrives(h, d)
    /\ handlers' = [g \in Handlers |->
           IF g = h THEN [pc |-> "upsert", device |-> d, cert |-> Signed(key),
                          alone |-> \A k \in Handlers : handlers[k].device # d]
           ELSE [handlers[g] EXCEPT !.alone = @ /\ handlers[g].device # d]]
    /\ UNCHANGED <<caVars, startupVars, records, answered, stored, refused>>

\* The CSR cannot be parsed or signed: 500, and nothing has been stored.
InvalidCsr(h, d) ==
    /\ Arrives(h, d)
    /\ UNCHANGED <<caVars, startupVars, handlers, records, answered, stored,
                   refused>>

\* sign_csr's statement.
StoreCert(h) ==
    LET d == handlers[h].device IN
    /\ handlers[h].pc = "upsert"
    /\ Upsert(d, handlers[h].cert)
    /\ stored' = stored \cup {[device |-> d, cert |-> handlers[h].cert]}
    /\ handlers' = [handlers EXCEPT ![h].pc =
           IF d \in Hosts /\ available THEN "open" ELSE "answer"]
    /\ UNCHANGED <<startupVars, requests, records, answered, refused>>

\* Faulty: a record that is not empty is kept.
OpenRecordIfAbsent(h) ==
    /\ handlers[h].pc = "open"
    /\ certs_dir
    /\ handlers' = [handlers EXCEPT ![h].pc =
           IF records[handlers[h].device] = NoCert THEN "fill" ELSE "answer"]
    /\ UNCHANGED <<caVars, startupVars, requests, records, answered, stored,
                   refused>>

\* register_cert_identity truncates the file; the directory is not created.
OpenRecord(h) ==
    /\ handlers[h].pc = "open"
    /\ certs_dir
    /\ records' = [records EXCEPT ![handlers[h].device] = NoCert]
    /\ handlers' = [handlers EXCEPT ![h].pc = "fill"]
    /\ UNCHANGED <<caVars, startupVars, requests, answered, stored, refused>>

FillRecord(h) ==
    /\ handlers[h].pc = "fill"
    /\ records' = [records EXCEPT ![handlers[h].device] = handlers[h].cert]
    /\ handlers' = [handlers EXCEPT ![h].pc = "answer"]
    /\ UNCHANGED <<caVars, startupVars, requests, answered, stored, refused>>

\* 200 for a device, 201 for a client.
Answer(h) ==
    /\ handlers[h].pc = "answer"
    /\ answered' = answered \cup {[device |-> handlers[h].device,
                                   cert |-> handlers[h].cert]}
    /\ handlers' = [handlers EXCEPT ![h] = Idle]
    /\ UNCHANGED <<caVars, startupVars, requests, records, stored, refused>>

Refuse(h) ==
    /\ handlers' = [handlers EXCEPT ![h] = Idle]
    /\ refused' = refused + 1
    /\ UNCHANGED <<caVars, requests, records, answered, stored>>

\* Faulty: a statement that fails is only logged.
CallFailsLogged(h) ==
    /\ handlers[h].pc \in {"upsert", "open", "fill"}
    /\ faults < MaxFaults
    /\ faults' = faults + 1
    /\ handlers' = [handlers EXCEPT ![h].pc = "answer"]
    /\ UNCHANGED <<caVars, pc, opened, settings, serviceVars, degraded,
                   diskVars, requests, records, answered, stored, refused>>

\* The statement or a file operation fails: 500.
CallFails(h) ==
    /\ handlers[h].pc \in {"upsert", "open", "fill"}
    /\ faults < MaxFaults
    /\ faults' = faults + 1
    /\ Refuse(h)
    /\ UNCHANGED <<pc, opened, settings, serviceVars, degraded, diskVars>>

\* There is no directory to write the record to: 500.
NoDirectory(h) ==
    /\ handlers[h].pc = "open"
    /\ ~certs_dir
    /\ Refuse(h)
    /\ UNCHANGED startupVars

\* hyper drops the task when its connection closes; a call it has started
\* goes on to its end.
ConnectionCloses(h) ==
    /\ handlers[h].pc \in {"upsert", "open", "answer"}
    /\ handlers' = [handlers EXCEPT ![h] = Idle]
    /\ UNCHANGED <<caVars, startupVars, requests, records, answered, stored,
                   refused>>

Handle(h) ==
    \/ StoreCert(h)
    \/ OpenRecord(h)
    \/ FillRecord(h)
    \/ Answer(h)
    \/ NoDirectory(h)

HandlerNext(h) ==
    \/ \E d \in Devices, key \in 1..requests + 1 : Dispatch(h, d, key)
    \/ \E d \in Devices : InvalidCsr(h, d)
    \/ Handle(h)
    \/ CallFails(h)
    \/ ConnectionCloses(h)

\* CaService::revoke, which nothing in the application calls yet.
RevokeDevice(d) ==
    /\ pc # "off"
    /\ Revoke(d)
    /\ UNCHANGED <<startupVars, handshakeVars>>

\* The process ends and its tasks with it.
NodeEnds ==
    /\ Crash
    /\ handlers' = [h \in Handlers |-> Idle]
    /\ UNCHANGED <<requests, records, answered, stored, refused>>

Next ==
    \/ StartupNext /\ UNCHANGED handshakeVars
    \/ NodeEnds
    \/ \E d \in Devices : RevokeDevice(d)
    \/ \E h \in Handlers : HandlerNext(h)

Spec == Init /\ [][Next]_vars

\* initialize and the tasks go on while the process runs; the event loop
\* connects again and again.  Nobody has to launch the node.
FairSpec ==
    /\ Spec
    /\ WF_vars(Initialize /\ UNCHANGED handshakeVars)
    /\ \A h \in Handlers : WF_vars(Handle(h))

-----------------------------------------------------------------------------
\* Whatever crashed and was launched again, there is one authority: every
\* certificate that was stored, recorded or sent verifies against the root
\* that is stored now (generate_and_persist_ca stores before it uses).
OneAuthority ==
    LET Verifies(c) == c = NoCert \/ c.issuer = ca_keys IN
    /\ Verifies(node_identity)
    /\ \A i \in answered \cup stored : Verifies(i.cert)
    /\ \A d \in Hosts : Verifies(records[d])

\* ensure_node_identity, load_or_generate_ca: "identity is stable across
\* restarts", and so is the root.
StableAcrossRestarts ==
    [][/\ ca_keys # 0 => ca_keys' = ca_keys
       /\ node_identity # NoCert => node_identity' = node_identity]_vars

\* When initialize waits for the first ConnAck, the broker as it was
\* configured accepts the client as it was configured, whichever writes an
\* earlier launch left half done, unless an error was logged on the way or
\* MQTT_TLS_ENABLED is unset, when the two defaults disagree.
ClientCanConnect ==
    pc = "connect" /\ ~degraded /\ tls # "unset" => Accepts

\* A certificate a device was sent, or that is recorded for it, was stored
\* first (handle_device_init, handle_client_register).
SentWasStored ==
    /\ answered \subseteq stored
    /\ \A d \in Hosts : records[d] # NoCert =>
           [device |-> d, cert |-> records[d]] \in stored

\* Whatever earlier handshakes of the hostname left behind, one that overlaps
\* with no other leaves the row and the record with the certificate it sends.
LoneHandshakeAgrees ==
    \A h \in Handlers :
        LET d == handlers[h].device IN
        handlers[h].pc = "answer" /\ handlers[h].alone /\ d \in Hosts =>
            /\ get_cert(d) = handlers[h].cert
            /\ available => records[d] = handlers[h].cert

\* initialize comes to its end, or the process to its, or the client waits for
\* a broker that is not there or does not accept it (mqtt_connected_rx.await).
StartupCompletes ==
    pc # "off" ~> \/ pc \in {"off", "serving"}
                  \/ /\ pc = "connect"
                     /\ client = "running"
                     /\ ~(broker /\ Accepts)

\* A request whose CSR is valid is answered with its certificate ("device
\* handshake: sign CSR, return cert + brokerage info") unless some call fails, or
\* TLS is off, when nothing may have created the directory of the records.
RefusedOnlyWithReason ==
    [][refused' > refused => faults' > faults \/ ~tls_enabled]_vars

=============================================================================
