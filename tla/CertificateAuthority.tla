------------------------ MODULE CertificateAuthority ------------------------
(***************************************************************************)
(* The certificate authority (infra/ca): the three tables it keeps in      *)
(* SQLite, the root key pair it holds in memory, and what its methods do   *)
(* to them.  Each method is one SQL statement at most besides reads, so    *)
(* each is one step of its caller; Startup and DeviceHandshake call them.  *)
(*                                                                         *)
(* A key pair is a number.  A certificate is the key it certifies and the  *)
(* root key that signed it; names, validity times, usages and the encoding *)
(* are left out.  The root certificate is signed again with the stored key *)
(* each time it is loaded, which changes neither of the two.               *)
(***************************************************************************)
EXTENDS Naturals

CONSTANTS
    Hosts,       \* hostnames of devices
    Clients,     \* the UUIDs drawn for registered clients
    MaxBoots,    \* bound: times the node is launched
    MaxRequests  \* bound: certificate signing requests

ASSUME CaAssumption ==
    /\ Hosts \cap Clients = {}
    /\ MaxBoots \in Nat
    /\ MaxRequests \in Nat

VARIABLES
    ca_keys,        \* table: the root key, 0 when there is no row
    node_identity,  \* table: the node's own certificate
    device_certs,   \* table: the row of each device and client
    state           \* CaService.state: the root key in memory, 0 for None

caTables == <<ca_keys, node_identity, device_certs>>
caVars == <<caTables, state>>

Devices == Hosts \cup Clients

Cert(key, issuer) == [key |-> key, issuer |-> issuer]
NoCert == Cert(0, 0)
NoRow == [cert |-> NoCert, revoked |-> FALSE]

\* Certificates of keys the node draws, one of each kind in a launch, and of
\* keys that devices draw, at most one in a request.
NodeCerts == [key : 0..MaxBoots, issuer : 0..MaxBoots]
DeviceCerts == [key : 0..MaxRequests, issuer : 0..MaxBoots]

CaTypeOK ==
    /\ ca_keys \in 0..MaxBoots
    /\ node_identity \in NodeCerts
    /\ device_certs \in [Devices -> [cert : DeviceCerts, revoked : BOOLEAN]]
    /\ state \in 0..MaxBoots

CaInit ==
    /\ ca_keys = 0
    /\ node_identity = NoCert
    /\ device_certs = [d \in Devices |-> NoRow]
    /\ state = 0

\* load_ca_from_db found the row.
LoadCa ==
    /\ ca_keys # 0
    /\ state' = ca_keys
    /\ UNCHANGED caTables

\* Faulty: the generated root is kept in memory only.
GenerateCaUnsaved(key) ==
    /\ ca_keys = 0
    /\ state' = key
    /\ UNCHANGED caTables

\* There is no row: a new root is stored, and only then used.
GenerateCa(key) ==
    /\ ca_keys = 0
    /\ ca_keys' = key
    /\ state' = key
    /\ UNCHANGED <<node_identity, device_certs>>

\* Faulty: a new identity on every call, as for the broker's certificate.
EnsureNodeIdentityFresh(key) ==
    /\ state # 0
    /\ node_identity' = Cert(key, state)
    /\ UNCHANGED <<ca_keys, device_certs, state>>

\* The stored identity, or a new one that is stored.
EnsureNodeIdentity(key) ==
    /\ node_identity = NoCert => state # 0
    /\ node_identity' = IF node_identity = NoCert THEN Cert(key, state)
                        ELSE node_identity
    /\ UNCHANGED <<ca_keys, device_certs, state>>

\* sign_csr up to the statement: the certificate for the key of a request.
Signed(key) == Cert(key, state)

\* The statement of sign_csr: insert, or replace and clear revoked.
Upsert(d, cert) ==
    /\ device_certs' = [device_certs EXCEPT ![d] =
           [cert |-> cert, revoked |-> FALSE]]
    /\ UNCHANGED <<ca_keys, node_identity, state>>

get_cert(d) == device_certs[d].cert

\* An unknown device is an error that changes nothing.
Revoke(d) ==
    /\ get_cert(d) # NoCert
    /\ device_certs' = [device_certs EXCEPT ![d].revoked = TRUE]
    /\ UNCHANGED <<ca_keys, node_identity, state>>

=============================================================================
