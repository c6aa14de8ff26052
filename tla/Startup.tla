------------------------------ MODULE Startup -------------------------------
(***************************************************************************)
(* App::initialize (app.rs) from the launch of the process to the running  *)
(* gateway, with what it leaves on disk and every way it can end early.    *)
(*                                                                         *)
(* pc is the call of initialize in progress.  A file is written by         *)
(* tokio::fs::write, which truncates it and then fills it; the process may *)
(* end between any two steps and be launched again with other settings.    *)
(* Files keep their contents, everything else is lost.                     *)
(*                                                                         *)
(* The broker is external: it serves what mosquitto.conf and the files it  *)
(* names held when it was started, and ends with the node.                 *)
(***************************************************************************)
EXTENDS CertificateAuthority

CONSTANT MaxFaults  \* bound: calls that fail

ASSUME FaultsAssumption == MaxFaults \in Nat

VARIABLES
    pc,         \* the call of initialize in progress
    opened,     \* the file pc names has been truncated and not yet filled
    boots,      \* launches so far; the keys drawn in a launch have its number
    tls,        \* MQTT_TLS_ENABLED
    available,  \* mosquitto was found
    broker,     \* the broker process runs
    client,     \* the MQTT client service
    gateway,    \* the HTTP gateway accepts connections
    degraded,   \* a call whose error is only logged failed in this launch
    faults,     \* failed calls so far
    files,      \* the certificate and key files
    conf,       \* mosquitto.conf
    passwd,     \* the password file has the user
    certs_dir   \* the directory of the certificate files exists

diskVars == <<files, conf, passwd, certs_dir>>
serviceVars == <<broker, client, gateway>>
settings == <<boots, tls, available>>
startupVars == <<pc, opened, settings, serviceVars, degraded, faults, diskVars>>

Files == {"ca.crt", "broker.crt", "broker.key", "client.crt", "client.key"}

Steps == Files \cup {"off", "ca", "mosquitto.conf", "passwd", "identity",
                     "start_broker", "start_client", "connect", "gateway",
                     "serving"}

StartupTypeOK ==
    /\ pc \in Steps
    /\ opened \in BOOLEAN
    /\ boots \in 0..MaxBoots
    /\ tls \in {"true", "false", "unset"}
    /\ available \in BOOLEAN
    /\ broker \in BOOLEAN
    /\ client \in {"none", "running", "failed"}
    /\ gateway \in BOOLEAN
    /\ degraded \in BOOLEAN
    /\ faults \in 0..MaxFaults
    /\ files \in [Files -> NodeCerts]
    /\ conf \in {"missing", "empty", "tls", "plain"}
    /\ passwd \in BOOLEAN
    /\ certs_dir \in BOOLEAN

StartupInit ==
    /\ CaInit
    /\ pc = "off"
    /\ opened = FALSE
    /\ boots = 0
    /\ tls = "unset"
    /\ available = FALSE
    /\ broker = FALSE
    /\ client = "none"
    /\ gateway = FALSE
    /\ degraded = FALSE
    /\ faults = 0
    /\ files = [f \in Files |-> NoCert]
    /\ conf = "missing"
    /\ passwd = FALSE
    /\ certs_dir = FALSE

-----------------------------------------------------------------------------
\* MqttClientConfig::from_env: without the variable the client is plaintext.
Mutual == tls = "true"

\* MqttBrokerageConfig::from_env: without the variable the broker uses TLS.
tls_enabled == tls # "false"

\* What follows in initialize; the later calls come first.
AfterIdentity == IF available THEN "start_broker" ELSE "gateway"
AfterBroker == IF Mutual THEN "identity" ELSE AfterIdentity
AfterConf == IF tls_enabled THEN AfterBroker ELSE "passwd"
AfterBrokerCert == IF available THEN "mosquitto.conf" ELSE AfterBroker

\* Faulty: a broker certificate that is there is not written again.
AfterCaKept ==
    IF tls_enabled /\ files["broker.crt"] = NoCert THEN "ca.crt"
    ELSE AfterBrokerCert

AfterCa == IF tls_enabled THEN "ca.crt" ELSE AfterBrokerCert

\* The certificates and keys provision_mqtt_broker_cert and
\* provision_node_identity write.  A key file has no issuer.
Content ==
    [f \in Files |->
        CASE f = "ca.crt" -> Cert(state, state)
          [] f = "broker.crt" -> Cert(boots, state)
          [] f = "broker.key" -> Cert(boots, 0)
          [] f = "client.crt" -> node_identity
          [] f = "client.key" -> Cert(node_identity.key, 0)]

After(f) ==
    CASE f = "ca.crt" -> "broker.crt"
      [] f = "broker.crt" -> "broker.key"
      [] f = "broker.key" -> AfterBrokerCert
      [] f = "client.crt" -> "client.key"
      [] f = "client.key" -> AfterIdentity

\* The process ends: an error that is not handled, a crash or Ctrl-C.  The
\* broker has asked to be signalled when its parent dies.
ProcessEnds ==
    /\ pc' = "off"
    /\ opened' = FALSE
    /\ state' = 0
    /\ broker' = FALSE
    /\ client' = "none"
    /\ gateway' = FALSE
    /\ degraded' = FALSE
    /\ tls' = "unset"
    /\ available' = FALSE
    /\ UNCHANGED <<caTables, boots>>

-----------------------------------------------------------------------------
\* Config::from_env and detect_capabilities.
Launch ==
    /\ pc = "off"
    /\ boots < MaxBoots
    /\ boots' = boots + 1
    /\ tls' \in {"true", "false", "unset"}
    /\ available' \in BOOLEAN
    /\ pc' = "ca"
    /\ UNCHANGED <<caVars, opened, serviceVars, degraded, faults, diskVars>>

\* CaService::register.
RegisterCa ==
    /\ pc = "ca"
    /\ LoadCa \/ GenerateCa(boots)
    /\ pc' = AfterCa
    /\ UNCHANGED <<opened, settings, serviceVars, degraded, faults, diskVars>>

\* Faulty: the files have a directory of their own.
OpenFileElsewhere ==
    /\ pc \in Files
    /\ ~opened
    /\ opened' = TRUE
    /\ files' = [files EXCEPT ![pc] = NoCert]
    /\ UNCHANGED <<caVars, pc, settings, serviceVars, degraded, faults, conf,
                   passwd, certs_dir>>

\* create_dir_all, then the first half of the write.
OpenFile ==
    /\ pc \in Files
    /\ ~opened
    /\ opened' = TRUE
    /\ files' = [files EXCEPT ![pc] = NoCert]
    /\ certs_dir' = TRUE
    /\ UNCHANGED <<caVars, pc, settings, serviceVars, degraded, faults, conf,
                   passwd>>

FillFile ==
    /\ pc \in Files
    /\ opened
    /\ opened' = FALSE
    /\ files' = [files EXCEPT ![pc] = Content[pc]]
    /\ pc' = After(pc)
    /\ UNCHANGED <<caVars, settings, serviceVars, degraded, faults, conf,
                   passwd, certs_dir>>

OpenConf ==
    /\ pc = "mosquitto.conf"
    /\ ~opened
    /\ opened' = TRUE
    /\ conf' = "empty"
    /\ UNCHANGED <<caVars, pc, settings, serviceVars, degraded, faults, files,
                   passwd, certs_dir>>

FillConf ==
    /\ pc = "mosquitto.conf"
    /\ opened
    /\ opened' = FALSE
    /\ conf' = IF tls_enabled THEN "tls" ELSE "plain"
    /\ pc' = AfterConf
    /\ UNCHANGED <<caVars, settings, serviceVars, degraded, faults, files,
                   passwd, certs_dir>>

set_password ==
    /\ pc = "passwd"
    /\ passwd' = TRUE
    /\ pc' = AfterBroker
    /\ UNCHANGED <<caVars, opened, settings, serviceVars, degraded, faults,
                   files, conf, certs_dir>>

\* The first half of provision_node_identity.
ProvisionIdentity ==
    /\ pc = "identity"
    /\ EnsureNodeIdentity(boots)
    /\ pc' = "client.crt"
    /\ UNCHANGED <<opened, settings, serviceVars, degraded, faults, diskVars>>

\* MosquittoBrokerageService::start; without a configuration it only logs.
StartBroker ==
    /\ pc = "start_broker"
    /\ broker' = (conf # "missing")
    /\ degraded' = (degraded \/ conf = "missing")
    /\ pc' = "start_client"
    /\ UNCHANGED <<caVars, opened, settings, client, gateway, faults, diskVars>>

\* MqttClientService::start: mutual TLS reads three files.
StartClient ==
    /\ pc = "start_client"
    /\ client' = "running"
    /\ pc' = "connect"
    /\ UNCHANGED <<caVars, opened, settings, broker, gateway, degraded, faults,
                   diskVars>>

\* The broker's pair and the client's pair match and ca.crt verifies both.
TlsWorks ==
    /\ \A f \in Files : files[f] # NoCert
    /\ files["broker.crt"] = Cert(files["broker.key"].key, files["ca.crt"].key)
    /\ files["client.crt"] = Cert(files["client.key"].key, files["ca.crt"].key)

\* The broker and the client agree on the transport and the credentials.
Accepts == IF Mutual THEN conf = "tls" /\ TlsWorks ELSE conf = "plain" /\ passwd

\* The first ConnAck; subscribe_all queues two requests and does not wait.
ConnAck ==
    /\ pc = "connect"
    /\ client = "running"
    /\ broker
    /\ Accepts
    /\ pc' = "gateway"
    /\ UNCHANGED <<caVars, opened, settings, serviceVars, degraded, faults,
                   diskVars>>

\* Faulty: the failed start keeps connected_tx, and nobody ends the wait.
ConnectedDroppedKept == FALSE /\ UNCHANGED <<caVars, startupVars>>

\* The client failed to start, which dropped connected_tx.
ConnectedDropped ==
    /\ pc = "connect"
    /\ client = "failed"
    /\ pc' = "gateway"
    /\ UNCHANGED <<caVars, opened, settings, serviceVars, degraded, faults,
                   diskVars>>

StartGateway ==
    /\ pc = "gateway"
    /\ gateway' = TRUE
    /\ pc' = "serving"
    /\ UNCHANGED <<caVars, opened, settings, broker, client, degraded, faults,
                   diskVars>>

-----------------------------------------------------------------------------
\* SQL and file errors that initialize answers with exit(1).
FatalFault ==
    /\ pc \in Files \cup {"ca", "identity"}
    /\ faults < MaxFaults
    /\ faults' = faults + 1
    /\ ProcessEnds
    /\ UNCHANGED diskVars

\* Errors that are only logged.
LoggedFault ==
    /\ faults < MaxFaults
    /\ faults' = faults + 1
    /\ degraded' = TRUE
    /\ \/ /\ pc = "mosquitto.conf"
          /\ pc' = AfterConf
          /\ UNCHANGED client
       \/ /\ pc = "passwd"
          /\ pc' = AfterBroker
          /\ UNCHANGED client
       \/ /\ pc = "start_broker"
          /\ pc' = "start_client"
          /\ UNCHANGED client
       \/ /\ pc = "start_client"
          /\ Mutual
          /\ client' = "failed"
          /\ pc' = "connect"
       \/ /\ pc = "gateway"
          /\ pc' = "serving"
          /\ UNCHANGED client
    /\ opened' = FALSE
    /\ UNCHANGED <<caVars, settings, broker, gateway, diskVars>>

\* The broker process ends; nobody starts it again.
BrokerDies ==
    /\ broker
    /\ faults < MaxFaults
    /\ faults' = faults + 1
    /\ broker' = FALSE
    /\ UNCHANGED <<caVars, pc, opened, settings, client, gateway, degraded,
                   diskVars>>

Crash ==
    /\ pc # "off"
    /\ ProcessEnds
    /\ UNCHANGED <<faults, diskVars>>

Initialize ==
    \/ RegisterCa
    \/ OpenFile
    \/ FillFile
    \/ OpenConf
    \/ FillConf
    \/ set_password
    \/ ProvisionIdentity
    \/ StartBroker
    \/ StartClient
    \/ ConnAck
    \/ ConnectedDropped
    \/ StartGateway

StartupNext == Launch \/ Initialize \/ FatalFault \/ LoggedFault \/ BrokerDies

=============================================================================
