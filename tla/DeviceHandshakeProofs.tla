----------------------- MODULE DeviceHandshakeProofs ------------------------
(***************************************************************************)
(* Proofs about the start-up of the node and its handshakes, for any sets  *)
(* of hostnames, clients and tasks and any number of launches, requests    *)
(* and failed calls.                                                       *)
(***************************************************************************)
EXTENDS DeviceHandshake, TLAPS

Verified(c) == c = NoCert \/ (ca_keys # 0 /\ c.issuer = ca_keys)

\* The root in memory is the stored one; the gateway serves only with it, and
\* every certificate on its way was signed with it.
RootOK ==
    /\ state # 0 => state = ca_keys
    /\ pc \notin {"off", "ca"} => state # 0
    /\ pc # "off" => boots # 0
    /\ gateway => pc = "serving"
    /\ Verified(node_identity)
    /\ \A i \in answered \cup stored : Verified(i.cert)
    /\ \A d \in Hosts : Verified(records[d])

\* Tasks run only under the gateway; each holds a certificate for a device.
TasksOK ==
    \A h \in Handlers : handlers[h].pc # "idle" =>
        /\ gateway
        /\ handlers[h].device \in Devices
        /\ Verified(handlers[h].cert)
        /\ handlers[h].pc \in {"open", "fill"} => handlers[h].device \in Hosts
        /\ handlers[h].pc # "upsert" =>
               [device |-> handlers[h].device, cert |-> handlers[h].cert]
                   \in stored

Last == {"start_broker", "start_client", "connect", "gateway", "serving"}
AfterConfig == {"passwd", "identity", "client.crt", "client.key"} \cup Last
Provisioned == {"mosquitto.conf"} \cup AfterConfig

\* What initialize has written by the call it is at.
FilesOK ==
    /\ pc \in {"ca.crt", "broker.crt", "broker.key"} => tls_enabled
    /\ tls_enabled /\ pc \in {"broker.crt", "broker.key"} \cup Provisioned =>
           files["ca.crt"] = Cert(state, state)
    /\ tls_enabled /\ pc \in {"broker.key"} \cup Provisioned =>
           files["broker.crt"] = Cert(boots, state)
    /\ tls_enabled /\ pc \in Provisioned => files["broker.key"] = Cert(boots, 0)
    /\ node_identity # NoCert => node_identity.key # 0
    /\ pc \in {"identity", "client.crt", "client.key"} => Mutual
    /\ Mutual /\ pc \in {"client.crt", "client.key"} \cup Last =>
           node_identity # NoCert
    /\ Mutual /\ pc \in {"client.key"} \cup Last =>
           files["client.crt"] = node_identity
    /\ Mutual /\ pc \in Last =>
           files["client.key"] = Cert(node_identity.key, 0)

\* The broker's settings, unless an error was logged.
ConfigOK ==
    /\ pc \in {"mosquitto.conf", "passwd", "start_broker", "start_client",
               "connect"} => available
    /\ pc = "passwd" => ~tls_enabled
    /\ available /\ ~degraded /\ pc \in AfterConfig =>
           conf = IF tls_enabled THEN "tls" ELSE "plain"
    /\ available /\ ~degraded /\ ~tls_enabled /\ pc \in AfterConfig \ {"passwd"}
           => passwd

\* A task that is alone has its device to itself, and what it wrote is there.
LoneOK ==
    \A h \in Handlers : handlers[h].alone =>
        /\ handlers[h].pc # "idle"
        /\ \A g \in Handlers \ {h} : handlers[g].device # handlers[h].device
        /\ handlers[h].pc # "upsert" =>
               get_cert(handlers[h].device) = handlers[h].cert
        /\ handlers[h].pc = "answer" /\ handlers[h].device \in Hosts /\ available
               => records[handlers[h].device] = handlers[h].cert

IInv == TypeOK /\ RootOK /\ TasksOK /\ FilesOK /\ ConfigOK /\ LoneOK

-----------------------------------------------------------------------------
\* The steps of initialize stay among its steps.
LEMMA StepsFollow ==
    ASSUME StartupTypeOK
    PROVE  /\ AfterIdentity \in Steps /\ AfterBroker \in Steps
           /\ AfterConf \in Steps /\ AfterBrokerCert \in Steps
           /\ AfterCa \in Steps
           /\ \A f \in Files : After(f) \in Steps
  BY DEF StartupTypeOK, Steps, Files, AfterIdentity, AfterBroker, AfterConf,
         AfterBrokerCert, AfterCa, After

\* What initialize writes are certificates and keys of the node.
LEMMA ContentTypes ==
    ASSUME CaTypeOK, StartupTypeOK, NEW f \in Files
    PROVE  Content[f] \in NodeCerts
  <1>1. 0 \in 0..MaxBoots
    BY CaAssumption
  <1>2. /\ Cert(state, state) \in NodeCerts
        /\ Cert(boots, state) \in NodeCerts
        /\ Cert(boots, 0) \in NodeCerts
        /\ Cert(node_identity.key, 0) \in NodeCerts
    BY <1>1 DEF CaTypeOK, StartupTypeOK, NodeCerts, Cert
  <1> QED
    BY <1>2 DEF Content, Files, CaTypeOK

Flags ==
    /\ opened \in BOOLEAN
    /\ available \in BOOLEAN
    /\ broker \in BOOLEAN
    /\ gateway \in BOOLEAN
    /\ degraded \in BOOLEAN
    /\ passwd \in BOOLEAN
    /\ certs_dir \in BOOLEAN

\* The flags of the start-up stay flags.
LEMMA FlagsStay ==
    ASSUME Flags, StartupNext \/ Crash
    PROVE  Flags'
  <1> USE DEF Flags, diskVars, serviceVars, settings
  <1>1. CASE Launch
    BY <1>1 DEF Launch
  <1>2. CASE RegisterCa \/ ProvisionIdentity
    BY <1>2 DEF RegisterCa, ProvisionIdentity
  <1>3. CASE OpenFile \/ FillFile
    BY Zenon, <1>3 DEF OpenFile, FillFile
  <1>4. CASE OpenConf \/ FillConf \/ set_password
    BY Zenon, <1>4 DEF OpenConf, FillConf, set_password
  <1>5. CASE StartBroker
    BY <1>5 DEF StartBroker
  <1>6. CASE StartClient \/ ConnAck \/ ConnectedDropped \/ StartGateway
    BY Zenon, <1>6 DEF StartClient, ConnAck, ConnectedDropped, StartGateway
  <1>7. CASE FatalFault \/ Crash
    BY Zenon, <1>7 DEF FatalFault, Crash, ProcessEnds
  <1>8. CASE LoggedFault
    BY Zenon, <1>8 DEF LoggedFault
  <1>9. CASE BrokerDies
    BY Zenon, <1>9 DEF BrokerDies
  <1> QED
    BY <1>1, <1>2, <1>3, <1>4, <1>5, <1>6, <1>7, <1>8, <1>9
       DEF StartupNext, Initialize

\* A step of initialize keeps its variables and the tables in their types.
LEMMA StartupTypes ==
    ASSUME TypeOK, StartupNext \/ Crash
    PROVE  CaTypeOK' /\ StartupTypeOK'
  <1> DEFINE Others == /\ pc \in Steps
                       /\ boots \in 0..MaxBoots
                       /\ tls \in {"true", "false", "unset"}
                       /\ client \in {"none", "running", "failed"}
                       /\ faults \in 0..MaxFaults
                       /\ files \in [Files -> NodeCerts]
                       /\ conf \in {"missing", "empty", "tls", "plain"}
  <1> USE CaAssumption, FaultsAssumption
  <1>0. CaTypeOK /\ StartupTypeOK /\ Others /\ Flags /\ NoCert \in NodeCerts
    BY DEF TypeOK, StartupTypeOK, Flags, NoCert, Cert, NodeCerts
  <1>a. CaTypeOK' /\ Others'
    <2> USE <1>0 DEF CaTypeOK, caVars, caTables, diskVars, serviceVars, settings
    <2>1. CASE Launch
      BY <2>1 DEF Launch, Steps
    <2>2. CASE RegisterCa
      BY <2>2, StepsFollow DEF RegisterCa, LoadCa, GenerateCa
    <2>3. CASE OpenFile
      BY <2>3 DEF OpenFile
    <2>4. CASE FillFile
      <3>1. After(pc) \in Steps /\ Content[pc] \in NodeCerts
        BY <2>4, StepsFollow, ContentTypes DEF FillFile
      <3> QED
        BY <2>4, <3>1 DEF FillFile
    <2>5. CASE OpenConf \/ FillConf \/ set_password
      BY <2>5, StepsFollow DEF OpenConf, FillConf, set_password
    <2>6. CASE ProvisionIdentity
      <3>1. Cert(boots, state) \in NodeCerts
        BY DEF Cert, NodeCerts
      <3> QED
        BY <2>6, <3>1 DEF ProvisionIdentity, EnsureNodeIdentity, Steps, Files
    <2>7. CASE StartBroker \/ StartClient \/ ConnAck \/ ConnectedDropped
               \/ StartGateway
      BY <2>7 DEF StartBroker, StartClient, ConnAck, ConnectedDropped,
                  StartGateway, Steps
    <2>8. CASE FatalFault \/ Crash
      BY <2>8 DEF FatalFault, Crash, ProcessEnds, Steps
    <2>9. CASE LoggedFault
      BY <2>9, StepsFollow DEF LoggedFault, Steps
    <2>10. CASE BrokerDies
      BY <2>10 DEF BrokerDies
    <2> QED
      BY <2>1, <2>2, <2>3, <2>4, <2>5, <2>6, <2>7, <2>8, <2>9, <2>10
         DEF StartupNext, Initialize
  <1>b. Flags'
    BY <1>0, FlagsStay
  <1> QED
    BY <1>a, <1>b DEF StartupTypeOK, Flags

nodeVars == <<ca_keys, node_identity, state, pc, opened, settings, serviceVars,
              degraded, diskVars>>

\* A request changes nothing of the start-up.
LEMMA HandlerKeepsNode ==
    ASSUME NEW h \in Handlers, HandlerNext(h)
    PROVE  UNCHANGED nodeVars
  BY DEF HandlerNext, Handle, Dispatch, InvalidCsr, StoreCert, OpenRecord,
         FillRecord, Answer, NoDirectory, CallFails, ConnectionCloses, Refuse,
         Upsert, nodeVars, caVars, caTables, startupVars, settings, serviceVars,
         diskVars

\* Neither does revoke, which leaves the requests alone too.
LEMMA RevokeKeepsNode ==
    ASSUME NEW d \in Devices, RevokeDevice(d)
    PROVE  UNCHANGED <<nodeVars, faults, handshakeVars>>
  BY DEF RevokeDevice, Revoke, nodeVars, startupVars, settings, serviceVars,
         diskVars

\* A start-up changes no row of a device.
LEMMA StartupKeepsDevices ==
    ASSUME StartupNext \/ Crash
    PROVE  UNCHANGED device_certs
  BY DEF StartupNext, Initialize, Launch, RegisterCa, LoadCa, GenerateCa,
         OpenFile, FillFile, OpenConf, FillConf, set_password,
         ProvisionIdentity, EnsureNodeIdentity, StartBroker, StartClient,
         ConnAck, ConnectedDropped, StartGateway, FatalFault, LoggedFault,
         BrokerDies, Crash, ProcessEnds, caVars, caTables

\* Init establishes the types and the rest of the inductive invariant.
LEMMA InitIInv ==
    ASSUME Init
    PROVE  IInv
  <1> USE CaAssumption, FaultsAssumption
  <1> USE DEF Init, StartupInit, CaInit
  <1>1. NoCert \in NodeCerts /\ NoCert \in DeviceCerts
    BY DEF NoCert, Cert, NodeCerts, DeviceCerts
  <1>2. CaTypeOK
    BY <1>1 DEF CaTypeOK, NoRow
  <1>3. StartupTypeOK
    <2>1. Flags
      BY Zenon DEF Flags
    <2>2. pc \in Steps /\ boots \in 0..MaxBoots /\ faults \in 0..MaxFaults
          /\ files \in [Files -> NodeCerts]
      BY <1>1 DEF Steps
    <2> QED
      BY <2>1, <2>2 DEF StartupTypeOK, Flags
  <1>4. TypeOK
    <2>1. handlers \in [Handlers ->
              [pc : {"idle", "upsert", "open", "fill", "answer"},
               device : Devices \cup {"none"}, cert : DeviceCerts,
               alone : BOOLEAN]]
      BY <1>1 DEF Idle
    <2>2. requests \in 0..MaxRequests /\ records \in [Hosts -> DeviceCerts]
      BY <1>1
    <2>3. answered \subseteq Issued /\ stored \subseteq Issued
          /\ refused \in Nat
      OBVIOUS
    <2> QED
      BY <1>2, <1>3, <2>1, <2>2, <2>3 DEF TypeOK
  <1>5. RootOK /\ TasksOK
    BY DEF RootOK, TasksOK, Verified, Idle
  <1>6. FilesOK /\ ConfigOK
    BY DEF FilesOK, ConfigOK, AfterConfig, Provisioned, Last
  <1>7. LoneOK
    BY DEF LoneOK, Idle
  <1> QED
    BY <1>4, <1>5, <1>6, <1>7 DEF IInv

\* A request keeps its variables, and the rows, in their types.
LEMMA HandlerTypes ==
    ASSUME IInv, NEW h \in Handlers, HandlerNext(h)
    PROVE  TypeOK'
  <1> DEFINE H == [pc : {"idle", "upsert", "open", "fill", "answer"},
                   device : Devices \cup {"none"}, cert : DeviceCerts,
                   alone : BOOLEAN]
  <1> USE CaAssumption, FaultsAssumption
  <1>0. /\ TypeOK /\ CaTypeOK /\ StartupTypeOK
        /\ handlers \in [Handlers -> H]
        /\ NoCert \in DeviceCerts /\ Idle \in H
    BY DEF IInv, TypeOK, NoCert, Cert, DeviceCerts, Idle
  <1>1. handlers[h] \in H
    BY <1>0
  <1>2. handlers[h].pc # "idle" =>
            /\ handlers[h].device \in Devices
            /\ [device |-> handlers[h].device, cert |-> handlers[h].cert]
                   \in Issued
    BY Zenon, <1>1 DEF IInv, TasksOK, Issued
  <1>3. handlers[h].pc \in {"open", "fill"} => handlers[h].device \in Hosts
    BY Zenon DEF IInv, TasksOK
  <1>4. CaTypeOK'
    <2>1. CASE StoreCert(h)
      BY <2>1, <1>0, <1>1, <1>2 DEF StoreCert, Upsert, CaTypeOK, Issued
    <2>2. CASE ~StoreCert(h)
      <3>1. UNCHANGED caVars
        BY <2>2 DEF HandlerNext, Handle, Dispatch, InvalidCsr, OpenRecord,
                    FillRecord, Answer, NoDirectory, CallFails,
                    ConnectionCloses, Refuse, caVars
      <3> QED
        BY <3>1, <1>0 DEF CaTypeOK, caVars, caTables
    <2> QED
      BY <2>1, <2>2
  <1>5. StartupTypeOK'
    <2>1. faults' \in 0..MaxFaults
      BY <1>0 DEF HandlerNext, Handle, Dispatch, InvalidCsr, StoreCert,
                  OpenRecord, FillRecord, Answer, NoDirectory, CallFails,
                  ConnectionCloses, startupVars, StartupTypeOK
    <2> QED
      BY <2>1, <1>0, HandlerKeepsNode
         DEF StartupTypeOK, nodeVars, settings, serviceVars, diskVars
  <1>6. (handlers' \in [Handlers -> H]) /\ requests' \in 0..MaxRequests
    <2>1. ASSUME NEW d \in Devices, NEW key \in 1..requests + 1,
                 Dispatch(h, d, key)
          PROVE  (handlers' \in [Handlers -> H]) /\ requests' \in 0..MaxRequests
      <3>1. /\ requests + 1 \in 0..MaxRequests
            /\ Signed(key) \in DeviceCerts
        BY <2>1, <1>0 DEF Dispatch, Arrives, Signed, Cert, DeviceCerts, CaTypeOK,
                          TypeOK
      <3>2. [pc |-> "upsert", device |-> d, cert |-> Signed(key),
             alone |-> \A k \in Handlers : handlers[k].device # d] \in H
        BY <3>1
      <3>3. \A g \in Handlers :
                [handlers[g] EXCEPT !.alone = @ /\ handlers[g].device # d] \in H
        BY Zenon, <1>0
      <3> QED
        BY <2>1, <3>1, <3>2, <3>3 DEF Dispatch, Arrives
    <2>2. CASE Handle(h) \/ CallFails(h) \/ ConnectionCloses(h)
      BY <2>2, <1>0, <1>1
         DEF Handle, StoreCert, OpenRecord, FillRecord, Answer, NoDirectory,
             CallFails, ConnectionCloses, Refuse, TypeOK
    <2>3. ASSUME NEW d \in Devices, InvalidCsr(h, d)
          PROVE  (handlers' \in [Handlers -> H]) /\ requests' \in 0..MaxRequests
      BY <2>3, <1>0 DEF InvalidCsr, Arrives, TypeOK
    <2> QED
      BY <2>1, <2>2, <2>3 DEF HandlerNext
  <1>7. records' \in [Hosts -> DeviceCerts]
    BY <1>0, <1>1, <1>3
       DEF HandlerNext, Handle, Dispatch, InvalidCsr, StoreCert, OpenRecord,
           FillRecord, Answer, NoDirectory, CallFails, ConnectionCloses, Refuse,
           TypeOK
  <1>8. answered' \subseteq Issued /\ stored' \subseteq Issued
    BY <1>0, <1>2
       DEF HandlerNext, Handle, Dispatch, InvalidCsr, StoreCert, OpenRecord,
           FillRecord, Answer, NoDirectory, CallFails, ConnectionCloses, Refuse,
           TypeOK
  <1>9. refused' \in Nat
    BY <1>0
       DEF HandlerNext, Handle, Dispatch, InvalidCsr, StoreCert, OpenRecord,
           FillRecord, Answer, NoDirectory, CallFails, ConnectionCloses, Refuse,
           TypeOK
  <1> QED
    BY <1>4, <1>5, <1>6, <1>7, <1>8, <1>9 DEF TypeOK

\* Every step keeps the types.
LEMMA TypeStep ==
    ASSUME IInv, [Next]_vars
    PROVE  TypeOK'
  <1>0. TypeOK /\ CaTypeOK /\ StartupTypeOK
    BY DEF IInv, TypeOK
  <1>1. CASE StartupNext /\ UNCHANGED handshakeVars
    BY <1>0, <1>1, StartupTypes DEF TypeOK, handshakeVars
  <1>2. CASE NodeEnds
    <2>1. CaTypeOK' /\ StartupTypeOK'
      BY <1>0, <1>2, StartupTypes DEF NodeEnds
    <2>2. NoCert \in DeviceCerts
      BY CaAssumption DEF NoCert, Cert, DeviceCerts
    <2> QED
      BY <1>0, <1>2, <2>1, <2>2 DEF NodeEnds, TypeOK, Idle
  <1>3. ASSUME NEW d \in Devices, RevokeDevice(d)
        PROVE  TypeOK'
    <2>1. CaTypeOK'
      BY Zenon, <1>0, <1>3 DEF RevokeDevice, Revoke, CaTypeOK
    <2>2. StartupTypeOK'
      BY <1>0, <1>3 DEF RevokeDevice, StartupTypeOK, startupVars, settings,
                        serviceVars, diskVars
    <2> QED
      BY <1>0, <1>3, <2>1, <2>2 DEF RevokeDevice, TypeOK, handshakeVars
  <1>4. ASSUME NEW h \in Handlers, HandlerNext(h)
        PROVE  TypeOK'
    BY <1>4, HandlerTypes
  <1>5. CASE UNCHANGED vars
    BY <1>0, <1>5 DEF TypeOK, CaTypeOK, StartupTypeOK, vars, caVars, caTables,
                      startupVars, settings, serviceVars, diskVars, handshakeVars
  <1> QED
    BY <1>1, <1>2, <1>3, <1>4, <1>5 DEF Next

-----------------------------------------------------------------------------
\* Every step keeps the root in memory the stored one, and all that was signed
\* verifiable with it.
LEMMA RootStep ==
    ASSUME IInv, [Next]_vars
    PROVE  RootOK'
  <1> USE DEF RootOK, Verified
  <1>0. RootOK /\ TypeOK /\ CaTypeOK /\ StartupTypeOK
    BY DEF IInv, TypeOK
  <1>1. CASE StartupNext /\ UNCHANGED handshakeVars
    <2> USE <1>0, <1>1 DEF handshakeVars, caVars, caTables, settings, serviceVars
    <2>1. CASE Launch
      BY <2>1 DEF Launch, CaTypeOK, StartupTypeOK
    <2>2. CASE RegisterCa
      <3>1. AfterCa # "off" /\ AfterCa # "serving"
        BY DEF AfterCa, AfterBrokerCert, AfterBroker, AfterIdentity
      <3>2. CASE LoadCa
        BY <2>2, <3>1, <3>2 DEF RegisterCa, LoadCa
      <3>3. CASE GenerateCa(boots)
        BY <2>2, <3>1, <3>3 DEF RegisterCa, GenerateCa
      <3> QED
        BY <2>2, <3>2, <3>3 DEF RegisterCa
    <2>3. CASE OpenFile \/ OpenConf \/ BrokerDies
      BY <2>3 DEF OpenFile, OpenConf, BrokerDies
    <2>4. CASE FillFile
      <3>1. \A f \in Files : After(f) \notin {"off", "ca", "serving"}
        BY DEF Files, After, AfterBrokerCert, AfterBroker, AfterIdentity
      <3> QED
        BY <2>4, <3>1 DEF FillFile, Files
    <2>5. CASE FillConf \/ set_password
      BY <2>5 DEF FillConf, set_password, AfterConf, AfterBroker, AfterIdentity
    <2>6. CASE ProvisionIdentity
      BY <2>6 DEF ProvisionIdentity, EnsureNodeIdentity, Cert
    <2>7. CASE StartBroker \/ StartClient \/ ConnAck \/ ConnectedDropped
               \/ StartGateway
      BY <2>7 DEF StartBroker, StartClient, ConnAck, ConnectedDropped,
                  StartGateway
    <2>8. CASE FatalFault
      BY <2>8 DEF FatalFault, ProcessEnds
    <2>9. CASE LoggedFault
      BY <2>9 DEF LoggedFault, AfterConf, AfterBroker, AfterIdentity
    <2> QED
      BY Zenon, <2>1, <2>2, <2>3, <2>4, <2>5, <2>6, <2>7, <2>8, <2>9
         DEF StartupNext, Initialize
  <1>2. CASE NodeEnds
    BY <1>0, <1>2 DEF NodeEnds, Crash, ProcessEnds, caTables
  <1>3. ASSUME NEW d \in Devices, RevokeDevice(d)
        PROVE  RootOK'
    BY <1>0, <1>3, RevokeKeepsNode
       DEF nodeVars, settings, serviceVars, handshakeVars
  <1>4. ASSUME NEW h \in Handlers, HandlerNext(h)
        PROVE  RootOK'
    <2>1. UNCHANGED <<ca_keys, node_identity, state, pc, boots, gateway>>
      BY <1>4, HandlerKeepsNode DEF nodeVars, settings, serviceVars
    <2>2. handlers[h].pc # "idle" => Verified(handlers[h].cert)
      BY Zenon DEF IInv, TasksOK
    <2>3. \A i \in answered' \cup stored' :
              i \in answered \cup stored \/ Verified(i.cert)
      BY <1>4, <2>2
         DEF HandlerNext, Handle, Dispatch, InvalidCsr, StoreCert, OpenRecord,
             FillRecord, Answer, NoDirectory, CallFails, ConnectionCloses,
             Refuse
    <2>4. \A d \in Hosts : records'[d] = records[d] \/ Verified(records'[d])
      BY <1>0, <1>4, <2>2
         DEF HandlerNext, Handle, Dispatch, InvalidCsr, StoreCert, OpenRecord,
             FillRecord, Answer, NoDirectory, CallFails, ConnectionCloses,
             Refuse, TypeOK
    <2> QED
      BY <1>0, <2>1, <2>3, <2>4
  <1>5. CASE UNCHANGED vars
    BY <1>0, <1>5 DEF vars, caVars, caTables, startupVars, settings,
                      serviceVars, handshakeVars
  <1> QED
    BY <1>1, <1>2, <1>3, <1>4, <1>5 DEF Next

\* Every step keeps the files what initialize has made them so far.
LEMMA FilesStep ==
    ASSUME IInv, [Next]_vars
    PROVE  FilesOK'
  <1> USE DEF FilesOK, Provisioned, AfterConfig, Last, tls_enabled, Mutual
  <1>0. /\ FilesOK /\ RootOK /\ CaTypeOK /\ StartupTypeOK
        /\ files \in [Files -> NodeCerts]
    BY DEF IInv, TypeOK, StartupTypeOK
  <1>1. CASE StartupNext /\ UNCHANGED handshakeVars
    <2> USE <1>0, <1>1 DEF caVars, caTables, settings, diskVars
    <2>1. CASE Launch
      BY <2>1 DEF Launch
    <2>2. CASE RegisterCa
      BY <2>2 DEF RegisterCa, LoadCa, GenerateCa, AfterCa, AfterBrokerCert,
                  AfterBroker, AfterIdentity
    <2>3. CASE OpenFile
      BY <2>3 DEF OpenFile, Files
    <2>4. CASE FillFile
      <3>1. ASSUME NEW f \in Files, pc = f
            PROVE  FilesOK'
        <4>1. files' = [files EXCEPT ![f] = Content[f]] /\ pc' = After(f)
          BY <2>4, <3>1 DEF FillFile
        <4>2. UNCHANGED <<state, boots, tls, available, node_identity>>
          BY <2>4 DEF FillFile
        <4>3. CASE f \in {"ca.crt", "broker.crt"}
          BY <3>1, <4>1, <4>2, <4>3 DEF Files, Content, After
        <4>4. CASE f = "broker.key"
          BY <3>1, <4>1, <4>2, <4>4 DEF Files, Content, After, AfterBrokerCert,
                                        AfterBroker, AfterIdentity
        <4>5. CASE f = "client.crt"
          BY <3>1, <4>1, <4>2, <4>5 DEF Files, Content, After
        <4>6. CASE f = "client.key"
          BY <3>1, <4>1, <4>2, <4>6 DEF Files, Content, After, AfterIdentity
        <4> QED
          BY <4>3, <4>4, <4>5, <4>6 DEF Files
      <3> QED
        BY <2>4, <3>1 DEF FillFile
    <2>5. CASE OpenConf \/ FillConf \/ set_password
      BY <2>5 DEF OpenConf, FillConf, set_password, AfterConf, AfterBroker,
                  AfterIdentity
    <2>6. CASE ProvisionIdentity
      BY <2>6 DEF ProvisionIdentity, EnsureNodeIdentity, Cert, NoCert, RootOK
    <2>7. CASE StartBroker \/ StartClient \/ ConnAck \/ ConnectedDropped
               \/ StartGateway \/ BrokerDies
      BY SMTT(40), <2>7 DEF StartBroker, StartClient, ConnAck, ConnectedDropped,
                  StartGateway, BrokerDies
    <2>8. CASE FatalFault
      BY <2>8 DEF FatalFault, ProcessEnds
    <2>9. CASE LoggedFault
      BY <2>9 DEF LoggedFault, AfterConf, AfterBroker, AfterIdentity
    <2> QED
      BY Zenon, <2>1, <2>2, <2>3, <2>4, <2>5, <2>6, <2>7, <2>8, <2>9
         DEF StartupNext, Initialize
  <1>2. CASE NodeEnds
    BY <1>0, <1>2 DEF NodeEnds, Crash, ProcessEnds, caTables
  <1>3. CASE UNCHANGED nodeVars
    BY <1>0, <1>3 DEF nodeVars, settings, diskVars
  <1>4. CASE UNCHANGED vars
    BY <1>0, <1>4 DEF vars, caVars, caTables, startupVars, settings, diskVars
  <1> QED
    BY <1>1, <1>2, <1>3, <1>4, HandlerKeepsNode, RevokeKeepsNode DEF Next

\* Every step keeps the broker's settings what the node's settings call for.
LEMMA ConfigStep ==
    ASSUME IInv, [Next]_vars
    PROVE  ConfigOK'
  <1> USE DEF ConfigOK, AfterConfig, Last, tls_enabled, Mutual
  <1>0. ConfigOK /\ FilesOK /\ StartupTypeOK
    BY DEF IInv, TypeOK
  <1>1. CASE StartupNext /\ UNCHANGED handshakeVars
    <2> USE <1>0, <1>1 DEF settings, diskVars
    <2>1. CASE Launch
      BY <2>1 DEF Launch
    <2>2. CASE RegisterCa
      BY <2>2 DEF RegisterCa, AfterCa, AfterBrokerCert, AfterBroker,
                  AfterIdentity
    <2>3. CASE OpenFile
      BY <2>3 DEF OpenFile, Files
    <2>4. CASE FillFile
      <3>1. ASSUME NEW f \in Files, pc = f
            PROVE  ConfigOK'
        <4>1. /\ pc' = After(f)
              /\ UNCHANGED <<tls, available, degraded, conf, passwd>>
          BY <2>4, <3>1 DEF FillFile
        <4> QED
          BY <3>1, <4>1 DEF Files, After, AfterBrokerCert, AfterBroker,
                            AfterIdentity, FilesOK
      <3> QED
        BY <2>4, <3>1 DEF FillFile
    <2>5. CASE OpenConf \/ FillConf \/ set_password
      BY <2>5 DEF OpenConf, FillConf, set_password, AfterConf, AfterBroker,
                  AfterIdentity
    <2>6. CASE ProvisionIdentity
      BY <2>6 DEF ProvisionIdentity
    <2>7. CASE StartBroker
      BY Zenon, <2>7 DEF StartBroker
    <2>8. CASE StartClient \/ ConnAck \/ ConnectedDropped \/ StartGateway
               \/ BrokerDies
      BY <2>8 DEF StartClient, ConnAck, ConnectedDropped, StartGateway,
                  BrokerDies
    <2>9. CASE FatalFault
      BY <2>9 DEF FatalFault, ProcessEnds
    <2>10. CASE LoggedFault
      BY <2>10 DEF LoggedFault, AfterConf, AfterBroker, AfterIdentity
    <2> QED
      BY Zenon, <2>1, <2>2, <2>3, <2>4, <2>5, <2>6, <2>7, <2>8, <2>9, <2>10
         DEF StartupNext, Initialize
  <1>2. CASE NodeEnds
    BY <1>0, <1>2 DEF NodeEnds, Crash, ProcessEnds
  <1>3. CASE UNCHANGED nodeVars
    BY <1>0, <1>3 DEF nodeVars, settings, diskVars
  <1>4. CASE UNCHANGED vars
    BY <1>0, <1>4 DEF vars, startupVars, settings, diskVars
  <1> QED
    BY <1>1, <1>2, <1>3, <1>4, HandlerKeepsNode, RevokeKeepsNode DEF Next

-----------------------------------------------------------------------------
\* While the gateway serves, initialize is over: of the start-up only the
\* broker process can still change.
LEMMA ServingIsQuiet ==
    ASSUME RootOK, gateway, StartupNext
    PROVE  UNCHANGED <<ca_keys, state, gateway, available>>
  <1>1. pc = "serving"
    BY DEF RootOK
  <1>2. BrokerDies
    BY <1>1 DEF StartupNext, Initialize, Launch, RegisterCa, OpenFile, FillFile,
                OpenConf, FillConf, set_password, ProvisionIdentity,
                StartBroker, StartClient, ConnAck, ConnectedDropped,
                StartGateway, FatalFault, LoggedFault, Files
  <1> QED
    BY <1>2 DEF BrokerDies, caVars, caTables, settings

\* Every step keeps what the tasks hold in order.
LEMMA TasksStep ==
    ASSUME IInv, [Next]_vars
    PROVE  TasksOK'
  <1> USE DEF TasksOK, Verified
  <1>0. TasksOK /\ RootOK /\ TypeOK
    BY DEF IInv
  <1>1. CASE StartupNext /\ UNCHANGED handshakeVars
    BY <1>0, <1>1, ServingIsQuiet DEF handshakeVars
  <1>2. CASE NodeEnds
    BY <1>2 DEF NodeEnds, Idle
  <1>3. ASSUME NEW d \in Devices, RevokeDevice(d)
        PROVE  TasksOK'
    BY <1>0, <1>3, RevokeKeepsNode DEF nodeVars, serviceVars, handshakeVars
  <1>4. ASSUME NEW h \in Handlers, HandlerNext(h)
        PROVE  TasksOK'
    <2>1. UNCHANGED <<ca_keys, gateway>>
      BY <1>4, HandlerKeepsNode DEF nodeVars, serviceVars
    <2>2. ASSUME NEW d \in Devices, NEW key \in 1..requests + 1,
                 Dispatch(h, d, key)
          PROVE  TasksOK'
      BY <1>0, <2>1, <2>2 DEF Dispatch, Signed, Cert, RootOK, TypeOK, Arrives
    <2>6. ASSUME NEW d \in Devices, InvalidCsr(h, d)
          PROVE  TasksOK'
      BY <1>0, <2>1, <2>6 DEF InvalidCsr, caVars, caTables
    <2>3. CASE StoreCert(h)
      BY <1>0, <2>1, <2>3 DEF StoreCert, TypeOK
    <2>4. CASE OpenRecord(h) \/ FillRecord(h)
      BY <1>0, <2>1, <2>4 DEF OpenRecord, FillRecord, TypeOK
    <2>5. CASE Answer(h) \/ NoDirectory(h) \/ CallFails(h) \/ ConnectionCloses(h)
      BY <1>0, <2>1, <2>5 DEF Answer, NoDirectory, CallFails, ConnectionCloses,
                              Refuse, Idle, TypeOK
    <2> QED
      BY Zenon, <1>4, <2>2, <2>3, <2>4, <2>5, <2>6 DEF HandlerNext, Handle
  <1>5. CASE UNCHANGED vars
    BY <1>0, <1>5 DEF vars, caVars, caTables, startupVars, serviceVars,
                      handshakeVars
  <1> QED
    BY Zenon, <1>1, <1>2, <1>3, <1>4, <1>5 DEF Next

\* Every step keeps a lone task alone with its device, its row and its record.
LEMMA LoneStep ==
    ASSUME IInv, [Next]_vars
    PROVE  LoneOK'
  <1> USE DEF LoneOK, get_cert
  <1>0. LoneOK /\ TasksOK /\ RootOK /\ TypeOK
    BY Zenon DEF IInv
  <1>1. CASE StartupNext /\ UNCHANGED handshakeVars
    BY Zenon, <1>0, <1>1, ServingIsQuiet, StartupKeepsDevices
       DEF handshakeVars, TasksOK
  <1>2. CASE NodeEnds
    BY <1>2 DEF NodeEnds, Idle
  <1>3. ASSUME NEW d \in Devices, RevokeDevice(d)
        PROVE  LoneOK'
    <2>1. UNCHANGED <<available, handlers, records>>
      BY <1>3, RevokeKeepsNode DEF nodeVars, settings, handshakeVars
    <2>2. \A e \in Devices : device_certs'[e].cert = device_certs[e].cert
      BY <1>0, <1>3 DEF RevokeDevice, Revoke, TypeOK, CaTypeOK
    <2> QED
      BY Zenon, <1>0, <2>1, <2>2 DEF TasksOK
  <1>4. ASSUME NEW h \in Handlers, HandlerNext(h)
        PROVE  LoneOK'
    <2>1. UNCHANGED available
      BY <1>4, HandlerKeepsNode DEF nodeVars, settings
    <2>2. ASSUME NEW d \in Devices, NEW key \in 1..requests + 1,
                 Dispatch(h, d, key)
          PROVE  LoneOK'
      BY <1>0, <2>1, <2>2 DEF Dispatch, TypeOK, caVars, caTables, Arrives
    <2>6. ASSUME NEW d \in Devices, InvalidCsr(h, d)
          PROVE  LoneOK'
      BY <1>0, <2>1, <2>6 DEF InvalidCsr, caVars, caTables
    <2>3. CASE StoreCert(h)
      <3>1. handlers[h].device \in Devices
        BY Zenon, <1>0, <2>3 DEF StoreCert, TasksOK
      <3>2. /\ device_certs'[handlers[h].device].cert = handlers[h].cert
            /\ \A e \in Devices \ {handlers[h].device} :
                   device_certs'[e] = device_certs[e]
        BY <1>0, <2>3, <3>1 DEF StoreCert, Upsert, TypeOK, CaTypeOK
      <3>3. /\ \A g \in Handlers : /\ handlers'[g].device = handlers[g].device
                                   /\ handlers'[g].cert = handlers[g].cert
                                   /\ handlers'[g].alone = handlers[g].alone
            /\ \A g \in Handlers \ {h} : handlers'[g].pc = handlers[g].pc
            /\ handlers'[h].pc # "idle"
            /\ handlers'[h].pc = "answer" =>
                   ~(handlers[h].device \in Hosts /\ available)
            /\ UNCHANGED records
        BY <1>0, <2>3 DEF StoreCert, TypeOK
      <3>4. handlers[h].pc = "upsert"
        BY <2>3 DEF StoreCert
      <3>5. ASSUME NEW g \in Handlers, handlers'[g].alone, g # h
            PROVE  /\ handlers'[g].pc # "upsert" =>
                          device_certs'[handlers'[g].device].cert
                              = handlers'[g].cert
                   /\ handlers'[g].pc # "idle"
        <4>1. /\ handlers[g].alone /\ handlers[g].device \in Devices
              /\ handlers[g].device # handlers[h].device
          BY Zenon, <1>0, <3>3, <3>5 DEF TasksOK
        <4> QED
          BY <1>0, <3>2, <3>3, <3>5, <4>1
      <3>6. ASSUME NEW g \in Handlers, handlers'[g].alone
            PROVE  \A k \in Handlers \ {g} :
                       handlers'[k].device # handlers'[g].device
        BY <1>0, <3>3, <3>6
      <3>7. ASSUME NEW g \in Handlers, handlers'[g].alone,
                   handlers'[g].pc = "answer", handlers'[g].device \in Hosts,
                   available'
            PROVE  records'[handlers'[g].device] = handlers'[g].cert
        BY <1>0, <2>1, <3>3, <3>7
      <3>8. ASSUME NEW g \in Handlers, handlers'[g].alone
            PROVE  /\ handlers'[g].pc # "idle"
                   /\ handlers'[g].pc # "upsert" =>
                          device_certs'[handlers'[g].device].cert
                              = handlers'[g].cert
        <4>1. CASE g = h
          BY <3>2, <3>3, <4>1
        <4>2. CASE g # h
          BY <3>5, <3>8, <4>2
        <4> QED
          BY <4>1, <4>2
      <3> QED
        BY Zenon, <3>6, <3>7, <3>8
    <2>4. CASE OpenRecord(h) \/ FillRecord(h)
      <3>1. handlers[h].device \in Hosts
        BY Zenon, <1>0, <2>4 DEF OpenRecord, FillRecord, TasksOK
      <3>2. UNCHANGED device_certs
        BY <2>4 DEF OpenRecord, FillRecord, caVars, caTables
      <3>3. CASE OpenRecord(h)
        BY <1>0, <2>1, <3>1, <3>2, <3>3 DEF OpenRecord, TypeOK, TasksOK
      <3>4. CASE FillRecord(h)
        BY <1>0, <2>1, <3>1, <3>2, <3>4 DEF FillRecord, TypeOK, TasksOK
      <3> QED
        BY Zenon, <2>4, <3>3, <3>4
    <2>5. CASE Answer(h) \/ NoDirectory(h) \/ CallFails(h) \/ ConnectionCloses(h)
      <3>1. /\ handlers' = [handlers EXCEPT ![h] = Idle]
            /\ UNCHANGED <<device_certs, records>>
            /\ handlers[h].pc # "idle"
        BY Zenon, <2>5 DEF Answer, NoDirectory, CallFails, ConnectionCloses,
                           Refuse, caVars, caTables
      <3>2. /\ handlers'[h] = Idle
            /\ \A g \in Handlers \ {h} : handlers'[g] = handlers[g]
        BY <1>0, <3>1 DEF TypeOK
      <3>3. ~Idle.alone /\ Idle.device = "none"
        BY DEF Idle
      <3>4. \A g \in Handlers : handlers[g].alone =>
                handlers[g].device \in Devices /\ handlers[g].device # "none"
        BY Zenon, <1>0, DevicesAssumption DEF TasksOK
      <3> QED
        BY <1>0, <2>1, <3>1, <3>2, <3>3, <3>4
    <2> QED
      BY Zenon, <1>4, <2>2, <2>3, <2>4, <2>5, <2>6 DEF HandlerNext, Handle
  <1>5. CASE UNCHANGED vars
    BY <1>0, <1>5 DEF vars, caVars, caTables, startupVars, settings,
                      handshakeVars
  <1> QED
    BY Zenon, <1>1, <1>2, <1>3, <1>4, <1>5 DEF Next

-----------------------------------------------------------------------------
\* The inductive invariant holds in every reachable state.
LEMMA Invariance == Spec => []IInv
  <1>1. IInv /\ [Next]_vars => IInv'
    BY TypeStep, RootStep, TasksStep, FilesStep, ConfigStep, LoneStep
       DEF IInv
  <1> QED
    BY InitIInv, <1>1, PTL DEF Spec

\* Every variable keeps its type.
THEOREM TypeCorrect == Spec => []TypeOK
  BY Invariance, PTL DEF IInv

\* Every certificate stored, recorded or sent in any launch verifies against
\* the root stored now (generate_and_persist_ca).
THEOREM OneRoot == Spec => []OneAuthority
  <1>1. IInv => OneAuthority
    BY DEF IInv, RootOK, Verified, OneAuthority
  <1> QED
    BY Invariance, <1>1, PTL

\* The stored root and the node's identity never change (load_or_generate_ca,
\* ensure_node_identity).
THEOREM Stable == Spec => StableAcrossRestarts
  <1>1. ASSUME [Next]_vars
        PROVE  [/\ ca_keys # 0 => ca_keys' = ca_keys
                /\ node_identity # NoCert =>
                       node_identity' = node_identity]_vars
    <2>1. CASE StartupNext \/ Crash
      BY Zenon, <2>1 DEF StartupNext, Initialize, Launch, RegisterCa, LoadCa,
                  GenerateCa, OpenFile, FillFile, OpenConf, FillConf,
                  set_password, ProvisionIdentity, EnsureNodeIdentity,
                  StartBroker, StartClient, ConnAck, ConnectedDropped,
                  StartGateway, FatalFault, LoggedFault, BrokerDies, Crash,
                  ProcessEnds, caVars, caTables
    <2>2. CASE UNCHANGED nodeVars
      BY <2>2 DEF nodeVars
    <2> QED
      BY <1>1, <2>1, <2>2, HandlerKeepsNode, RevokeKeepsNode DEF Next, NodeEnds
  <1> QED
    BY <1>1, PTL DEF Spec, StableAcrossRestarts

\* The broker accepts the client that initialize waits for, whatever files
\* earlier launches left half written (provision_mqtt_broker_cert,
\* write_config, set_password, provision_node_identity).
THEOREM BrokerAcceptsClient == Spec => []ClientCanConnect
  <1>1. ASSUME IInv, pc = "connect", ~degraded, tls # "unset"
        PROVE  Accepts
    <2>1. /\ state # 0 /\ boots # 0 /\ state = ca_keys
          /\ node_identity = NoCert \/ node_identity.issuer = ca_keys
      BY <1>1 DEF IInv, RootOK, Verified
    <2>2. /\ conf = IF tls_enabled THEN "tls" ELSE "plain"
          /\ ~tls_enabled => passwd
      BY <1>1 DEF IInv, ConfigOK, AfterConfig, Last
    <2>3. CASE Mutual
      <3>1. tls_enabled
        BY <2>3 DEF Mutual, tls_enabled
      <3>2. /\ files["ca.crt"] = Cert(state, state)
            /\ files["broker.crt"] = Cert(boots, state)
            /\ files["broker.key"] = Cert(boots, 0)
            /\ node_identity # NoCert /\ node_identity.key # 0
            /\ files["client.crt"] = node_identity
            /\ files["client.key"] = Cert(node_identity.key, 0)
        BY <1>1, <2>3, <3>1 DEF IInv, FilesOK, Provisioned, AfterConfig, Last
      <3>3. node_identity = Cert(node_identity.key, state)
        BY <1>1, <2>1, <3>2 DEF IInv, TypeOK, CaTypeOK, NodeCerts, Cert
      <3>4. TlsWorks
        BY <2>1, <3>2, <3>3 DEF TlsWorks, Files, Cert, NoCert
      <3> QED
        BY <2>2, <2>3, <3>1, <3>4 DEF Accepts
    <2>4. CASE ~Mutual
      <3>1. ~tls_enabled
        BY <1>1, <2>4 DEF Mutual, tls_enabled, IInv, TypeOK, StartupTypeOK
      <3> QED
        BY <2>2, <2>4, <3>1 DEF Accepts
    <2> QED
      BY <2>3, <2>4
  <1>2. IInv => ClientCanConnect
    BY <1>1 DEF ClientCanConnect
  <1> QED
    BY Invariance, <1>2, PTL

\* Nothing is sent or recorded that was not stored first (handle_device_init,
\* handle_client_register).
THEOREM StoredFirst == Spec => []SentWasStored
  <1>1. SentWasStored /\ IInv /\ [Next]_vars => SentWasStored'
    <2> SUFFICES ASSUME SentWasStored, IInv, [Next]_vars
                 PROVE  SentWasStored'
      OBVIOUS
    <2> USE DEF SentWasStored
    <2>1. CASE UNCHANGED <<records, answered, stored>>
      BY <2>1
    <2>2. ASSUME NEW h \in Handlers, HandlerNext(h)
          PROVE  SentWasStored'
      <3>1. handlers[h].pc \in {"fill", "answer"} =>
                [device |-> handlers[h].device, cert |-> handlers[h].cert]
                    \in stored
        BY Zenon DEF IInv, TasksOK
      <3>2. stored \subseteq stored'
        BY <2>2 DEF HandlerNext, Handle, Dispatch, InvalidCsr, StoreCert,
                    OpenRecord, FillRecord, Answer, NoDirectory, CallFails,
                    ConnectionCloses, Refuse
      <3>3. answered' \subseteq stored'
        BY <2>2, <3>1, <3>2
           DEF HandlerNext, Handle, Dispatch, InvalidCsr, StoreCert, OpenRecord,
               FillRecord, Answer, NoDirectory, CallFails, ConnectionCloses,
               Refuse
      <3>4. ASSUME NEW d \in Hosts, records'[d] # NoCert
            PROVE  [device |-> d, cert |-> records'[d]] \in stored'
        <4>1. records \in [Hosts -> DeviceCerts]
          BY DEF IInv, TypeOK
        <4>2. CASE FillRecord(h)
          BY <3>1, <3>2, <3>4, <4>1, <4>2 DEF FillRecord
        <4>3. CASE OpenRecord(h)
          BY <3>2, <3>4, <4>1, <4>3 DEF OpenRecord
        <4>4. CASE UNCHANGED records
          BY <3>2, <3>4, <4>4
        <4> QED
          BY <2>2, <4>2, <4>3, <4>4
             DEF HandlerNext, Handle, Dispatch, InvalidCsr, StoreCert, Answer,
                 NoDirectory, CallFails, ConnectionCloses, Refuse
      <3> QED
        BY Zenon, <3>3, <3>4
    <2> QED
      BY <2>1, <2>2 DEF Next, NodeEnds, RevokeDevice, handshakeVars, vars
  <1>2. Init => SentWasStored
    BY DEF Init, SentWasStored
  <1> QED
    BY Invariance, <1>1, <1>2, PTL DEF Spec

\* A handshake that overlaps with no other leaves row and record with the
\* certificate it sends (sign_csr, register_cert_identity).
THEOREM LoneAgrees == Spec => []LoneHandshakeAgrees
  <1>1. IInv => LoneHandshakeAgrees
    BY DEF IInv, LoneOK, LoneHandshakeAgrees
  <1> QED
    BY Invariance, <1>1, PTL

-----------------------------------------------------------------------------
\* A file in the directory of the certificates is there only with it.
DirOK ==
    /\ opened => pc \in Files \cup {"mosquitto.conf"}
    /\ opened /\ pc \in Files => certs_dir
    /\ \A f \in Files : files[f] # NoCert => certs_dir

\* No step takes the directory away, and a file is filled after it was opened.
LEMMA DirStep ==
    ASSUME IInv, DirOK, [Next]_vars
    PROVE  DirOK'
  <1> USE DEF DirOK
  <1>0. files \in [Files -> NodeCerts] /\ pc \in Steps
    BY DEF IInv, TypeOK, StartupTypeOK
  <1>1. CASE StartupNext /\ UNCHANGED handshakeVars
    <2> USE <1>0, <1>1 DEF diskVars, Files
    <2>1. CASE Launch \/ RegisterCa
      BY <2>1 DEF Launch, RegisterCa
    <2>2. CASE OpenFile
      BY <2>2 DEF OpenFile
    <2>3. CASE FillFile
      BY <2>3 DEF FillFile
    <2>4. CASE OpenConf \/ FillConf \/ set_password
      BY <2>4 DEF OpenConf, FillConf, set_password
    <2>5. CASE ProvisionIdentity \/ StartBroker \/ StartClient \/ ConnAck
               \/ ConnectedDropped \/ StartGateway \/ BrokerDies
      BY <2>5 DEF ProvisionIdentity, StartBroker, StartClient, ConnAck,
                  ConnectedDropped, StartGateway, BrokerDies
    <2>6. CASE FatalFault \/ LoggedFault
      BY <2>6 DEF FatalFault, LoggedFault, ProcessEnds
    <2> QED
      BY <2>1, <2>2, <2>3, <2>4, <2>5, <2>6 DEF StartupNext, Initialize
  <1>2. CASE NodeEnds
    BY <1>2 DEF NodeEnds, Crash, ProcessEnds, diskVars
  <1>3. CASE UNCHANGED nodeVars
    BY <1>3 DEF nodeVars, diskVars
  <1>4. CASE UNCHANGED vars
    BY <1>4 DEF vars, startupVars, diskVars
  <1> QED
    BY <1>1, <1>2, <1>3, <1>4, HandlerKeepsNode, RevokeKeepsNode DEF Next

\* With TLS the directory of the records is there before the gateway serves,
\* and a request is refused only when a call fails (register_cert_identity,
\* provision_mqtt_broker_cert).
THEOREM RefusalHasReason == Spec => RefusedOnlyWithReason
  <1>1. ASSUME IInv, DirOK, [Next]_vars, refused' > refused
        PROVE  faults' > faults \/ ~tls_enabled
    <2>0. refused' # refused
      BY <1>1 DEF IInv, TypeOK
    <2>1. PICK h \in Handlers : NoDirectory(h) \/ CallFails(h)
      BY Zenon, <1>1, <2>0 DEF Next, NodeEnds, RevokeDevice, handshakeVars, vars,
                  HandlerNext, Handle, Dispatch, InvalidCsr, StoreCert,
                  OpenRecord, FillRecord, Answer, ConnectionCloses
    <2>2. CASE CallFails(h)
      <3>1. faults \in Nat /\ faults' = faults + 1
        BY <1>1, <2>2, FaultsAssumption
           DEF CallFails, IInv, TypeOK, StartupTypeOK
      <3> QED
        BY <3>1
    <2>3. CASE NoDirectory(h) /\ tls_enabled
      <3>1. pc = "serving" /\ state # 0 /\ ~certs_dir
        BY Zenon, <1>1, <2>3 DEF NoDirectory, IInv, TasksOK, RootOK
      <3>2. files["ca.crt"] = Cert(state, state)
        BY <1>1, <2>3, <3>1 DEF IInv, FilesOK, Provisioned, AfterConfig, Last
      <3>3. files["ca.crt"] # NoCert
        BY <3>1, <3>2 DEF Cert, NoCert
      <3> QED
        BY <1>1, <3>1, <3>3 DEF DirOK, Files
    <2> QED
      BY <2>1, <2>2, <2>3
  <1>2. IInv /\ DirOK /\ [Next]_vars =>
            [refused' > refused => faults' > faults \/ ~tls_enabled]_vars
    BY <1>1
  <1>3. IInv /\ DirOK /\ [Next]_vars => DirOK'
    BY DirStep
  <1>4. Init => DirOK
    BY DEF Init, StartupInit, DirOK
  <1> QED
    BY Invariance, <1>2, <1>3, <1>4, PTL DEF Spec, RefusedOnlyWithReason

-----------------------------------------------------------------------------
\* The order of the calls of initialize.
Stage ==
    [s \in Steps |->
        CASE s = "off" -> 0             [] s = "ca" -> 1
          [] s = "ca.crt" -> 2          [] s = "broker.crt" -> 3
          [] s = "broker.key" -> 4      [] s = "mosquitto.conf" -> 5
          [] s = "passwd" -> 6          [] s = "identity" -> 7
          [] s = "client.crt" -> 8      [] s = "client.key" -> 9
          [] s = "start_broker" -> 10   [] s = "start_client" -> 11
          [] s = "connect" -> 12        [] s = "gateway" -> 13
          [] s = "serving" -> 14]

Progress == 2 * Stage[pc] + (IF opened THEN 1 ELSE 0)

\* Within a launch, whatever fails, no call of initialize is made twice: every
\* step that changes where it is takes it further.
StartupAdvances ==
    [][pc' # "off" /\ <<pc, opened>>' # <<pc, opened>> => Progress' > Progress]_vars

\* The numbers of the calls.
LEMMA Stages ==
    /\ Stage["off"] = 0 /\ Stage["ca"] = 1 /\ Stage["ca.crt"] = 2
    /\ Stage["broker.crt"] = 3 /\ Stage["broker.key"] = 4
    /\ Stage["mosquitto.conf"] = 5 /\ Stage["passwd"] = 6 /\ Stage["identity"] = 7
    /\ Stage["client.crt"] = 8 /\ Stage["client.key"] = 9
    /\ Stage["start_broker"] = 10 /\ Stage["start_client"] = 11
    /\ Stage["connect"] = 12 /\ Stage["gateway"] = 13 /\ Stage["serving"] = 14
  BY DEF Stage, Steps, Files

\* The call that follows is a later one, whichever settings decide it.
LEMMA LaterCalls ==
    /\ Stage[AfterIdentity] \in 10..13 /\ Stage[AfterBroker] \in 7..13
    /\ Stage[AfterConf] \in 6..13 /\ Stage[AfterBrokerCert] \in 5..13
    /\ Stage[AfterCa] \in 2..13
    /\ \A f \in Files : Stage[After(f)] \in Stage[f] + 1 .. 13
  <1>1. Stage[AfterIdentity] \in 10..13 /\ Stage[AfterBroker] \in 7..13
    BY Stages DEF AfterIdentity, AfterBroker
  <1>2. Stage[AfterConf] \in 6..13 /\ Stage[AfterBrokerCert] \in 5..13
    BY <1>1, Stages DEF AfterConf, AfterBrokerCert
  <1>3. Stage[AfterCa] \in 2..13
    BY <1>2, Stages DEF AfterCa
  <1>4. ASSUME NEW f \in Files
        PROVE  Stage[After(f)] \in Stage[f] + 1 .. 13
    <2>1. CASE f = "ca.crt" \/ f = "broker.crt" \/ f = "client.crt"
      BY <2>1, Stages DEF After
    <2>2. CASE f = "broker.key"
      BY <1>2, <2>2, Stages DEF After
    <2>3. CASE f = "client.key"
      BY <1>1, <2>3, Stages DEF After
    <2> QED
      BY <2>1, <2>2, <2>3 DEF Files
  <1> QED
    BY <1>1, <1>2, <1>3, <1>4

\* A later call is progress, and so is opening the file of the present one.
LEMMA LaterIsProgress ==
    ASSUME NEW m \in 0..14, NEW n \in 0..14, Stage[pc] = m, Stage[pc'] = n,
           m < n \/ (m = n /\ ~opened /\ opened')
    PROVE  Progress' > Progress
  <1>1. Progress = 2 * m \/ Progress = 2 * m + 1
    BY DEF Progress
  <1>2. Progress' = 2 * n \/ Progress' = 2 * n + 1
    BY DEF Progress
  <1>3. m = n => Progress = 2 * m /\ Progress' = 2 * m + 1
    BY DEF Progress
  <1> QED
    BY <1>1, <1>2, <1>3

\* Each step of the start-up makes progress, or ends the process, or leaves
\* initialize where it is.
LEMMA StartupProgress ==
    ASSUME IInv, StartupNext, pc' # "off", ~UNCHANGED <<pc, opened>>
    PROVE  Progress' > Progress
  <1>1. CASE Launch
    BY <1>1, Stages, LaterIsProgress DEF Launch
  <1>2. CASE RegisterCa
    <2>1. pc = "ca" /\ pc' = AfterCa
      BY <1>2 DEF RegisterCa
    <2>2. Stage[pc] = 1 /\ Stage[pc'] \in 2..13
      BY <2>1, Stages, LaterCalls
    <2> QED
      BY <2>2, LaterIsProgress
  <1>3. CASE OpenFile \/ OpenConf
    <2>1. pc \in Files \cup {"mosquitto.conf"} /\ pc' = pc /\ ~opened /\ opened'
      BY <1>3 DEF OpenFile, OpenConf
    <2>2. Stage[pc] \in 0..14
      BY <2>1, Stages DEF Files
    <2> QED
      BY <2>1, <2>2, LaterIsProgress
  <1>4. CASE FillFile
    <2>1. pc \in Files /\ pc' = After(pc)
      BY <1>4 DEF FillFile
    <2>2. Stage[pc] \in 0..14 /\ Stage[pc'] \in Stage[pc] + 1 .. 13
      BY <2>1, Stages, LaterCalls DEF Files
    <2>3. Stage[pc'] \in 0..14 /\ Stage[pc] < Stage[pc']
      BY <2>2
    <2> QED
      BY <2>2, <2>3, LaterIsProgress
  <1>5. ASSUME pc = "mosquitto.conf", pc' = AfterConf
        PROVE  Progress' > Progress
    <2>1. Stage[pc] = 5 /\ Stage[pc'] \in 6..13
      BY <1>5, Stages, LaterCalls
    <2> QED
      BY <2>1, LaterIsProgress
  <1>6. ASSUME pc = "passwd", pc' = AfterBroker
        PROVE  Progress' > Progress
    <2>1. Stage[pc] = 6 /\ Stage[pc'] \in 7..13
      BY <1>6, Stages, LaterCalls
    <2> QED
      BY <2>1, LaterIsProgress
  <1>7. ASSUME \/ pc = "identity" /\ pc' = "client.crt"
               \/ pc = "start_broker" /\ pc' = "start_client"
               \/ pc = "start_client" /\ pc' = "connect"
               \/ pc = "connect" /\ pc' = "gateway"
               \/ pc = "gateway" /\ pc' = "serving"
        PROVE  Progress' > Progress
    BY <1>7, Stages, LaterIsProgress
  <1> QED
    BY Zenon, <1>1, <1>2, <1>3, <1>4, <1>5, <1>6, <1>7
       DEF StartupNext, Initialize, FillConf, set_password, ProvisionIdentity,
           StartBroker, StartClient, ConnAck, ConnectedDropped, StartGateway,
           FatalFault, ProcessEnds, LoggedFault, BrokerDies

\* initialize goes through its calls in order, none of them twice in a launch,
\* along every combination of settings and failed calls.
THEOREM Advances == Spec => StartupAdvances
  <1>1. ASSUME IInv, [Next]_vars, pc' # "off", ~UNCHANGED <<pc, opened>>
        PROVE  Progress' > Progress
    <2>1. CASE StartupNext
      BY <1>1, <2>1, StartupProgress
    <2>2. ~NodeEnds
      BY <1>1 DEF NodeEnds, Crash, ProcessEnds
    <2>3. CASE UNCHANGED nodeVars
      BY <1>1, <2>3 DEF nodeVars
    <2> QED
      BY <1>1, <2>1, <2>2, <2>3, HandlerKeepsNode, RevokeKeepsNode
         DEF Next, vars, startupVars
  <1>2. IInv /\ [Next]_vars =>
            [pc' # "off" /\ <<pc, opened>>' # <<pc, opened>> => Progress' > Progress]_vars
    BY <1>1
  <1> QED
    BY Invariance, <1>2, PTL DEF Spec, StartupAdvances

=============================================================================
