------------------------------------ MODULE RendezvousProto ------------------------------------
(* The messages between the viewer and the rendezvous server, as                             *)
(* src/flutter/js/src/proto/rendezvous.ts writes and reads them; see MessageProto.           *)
EXTENDS Protobuf

ConnType ==
  [DEFAULT_CONN |-> 0, FILE_TRANSFER |-> 1, PORT_FORWARD |-> 2, RDP |-> 3]

NatType ==
  [UNKNOWN_NAT |-> 0, ASYMMETRIC |-> 1, SYMMETRIC |-> 2]

RegisterPkResponse_Result ==
  [OK |-> 0, UUID_MISMATCH |-> 2, ID_EXISTS |-> 3, TOO_FREQUENT |-> 4, INVALID_ID_FORMAT |-> 5,
   NOT_SUPPORT |-> 6, SERVER_ERROR |-> 7]

PunchHoleResponse_Failure ==
  [ID_NOT_EXIST |-> 0, OFFLINE |-> 2, LICENSE_MISMATCH |-> 3, LICENSE_OVERUSE |-> 4]

RegisterPeer ==
  Type(<<Field("id", 10, "string"), Field("serial", 16, "int32")>>,
       <<Read(10, "id", "string"), Read(16, "serial", "int32")>>)

RegisterPeerResponse ==
  Type(<<Field("request_pk", 16, "bool")>>,
       <<Read(16, "request_pk", "bool")>>)

PunchHoleRequest ==
  Type(<<Field("id", 10, "string"), Field("nat_type", 16, "NatType"),
         Field("licence_key", 26, "string"), Field("conn_type", 32, "ConnType"),
         Field("token", 42, "string"), Field("version", 50, "string")>>,
       <<Read(10, "id", "string"), Read(16, "nat_type", "int32"),
         Read(26, "licence_key", "string"), Read(32, "conn_type", "int32"),
         Read(42, "token", "string"), Read(50, "version", "string")>>)

PunchHole ==
  Type(<<Field("socket_addr", 10, "bytes"), Field("relay_server", 18, "string"),
         Field("nat_type", 24, "NatType")>>,
       <<Read(10, "socket_addr", "bytes"), Read(18, "relay_server", "string"),
         Read(24, "nat_type", "int32")>>)

TestNatRequest ==
  Type(<<Field("serial", 8, "int32")>>,
       <<Read(8, "serial", "int32")>>)

TestNatResponse ==
  Type(<<Field("port", 8, "int32"), Opt("cu", 18, "ConfigUpdate")>>,
       <<Read(8, "port", "int32"), Read(18, "cu", "ConfigUpdate")>>)

PunchHoleSent ==
  Type(<<Field("socket_addr", 10, "bytes"), Field("id", 18, "string"),
         Field("relay_server", 26, "string"), Field("nat_type", 32, "NatType"),
         Field("version", 42, "string")>>,
       <<Read(10, "socket_addr", "bytes"), Read(18, "id", "string"),
         Read(26, "relay_server", "string"), Read(32, "nat_type", "int32"),
         Read(42, "version", "string")>>)

RegisterPk ==
  Type(<<Field("id", 10, "string"), Field("uuid", 18, "bytes"), Field("pk", 26, "bytes"),
         Field("old_id", 34, "string")>>,
       <<Read(10, "id", "string"), Read(18, "uuid", "bytes"), Read(26, "pk", "bytes"),
         Read(34, "old_id", "string")>>)

RegisterPkResponse ==
  Type(<<Field("result", 8, "RegisterPkResponse_Result"), Field("keep_alive", 16, "int32")>>,
       <<Read(8, "result", "int32"), Read(16, "keep_alive", "int32")>>)

PunchHoleResponseEncode ==
    <<Field("socket_addr", 10, "bytes"), Field("pk", 18, "bytes"),
         Field("failure", 24, "PunchHoleResponse_Failure"), Field("relay_server", 34, "string"),
         Opt("nat_type", 40, "NatType"), Opt("is_local", 48, "bool"),
         Field("other_failure", 58, "string"), Field("feedback", 64, "int32")>>

PunchHoleResponseDecode ==
    <<Read(10, "socket_addr", "bytes"), Read(18, "pk", "bytes"),
         Read(24, "failure", "int32"), Read(34, "relay_server", "string"),
         Read(40, "nat_type", "int32"), Read(48, "is_local", "bool"),
         Read(58, "other_failure", "string"), Read(64, "feedback", "int32")>>

PunchHoleResponse == Type(PunchHoleResponseEncode, PunchHoleResponseDecode)

ConfigUpdate ==
  Type(<<Field("serial", 8, "int32"), Rep("rendezvous_servers", 18, "string")>>,
       <<Read(8, "serial", "int32"), Push(18, "rendezvous_servers", "string")>>)

RequestRelayEncode ==
    <<Field("id", 10, "string"), Field("uuid", 18, "string"),
         Field("socket_addr", 26, "bytes"), Field("relay_server", 34, "string"),
         Field("secure", 40, "bool"), Field("licence_key", 50, "string"),
         Field("conn_type", 56, "ConnType"), Field("token", 66, "string")>>

RequestRelayDecode ==
    <<Read(10, "id", "string"), Read(18, "uuid", "string"), Read(26, "socket_addr", "bytes"),
         Read(34, "relay_server", "string"), Read(40, "secure", "bool"),
         Read(50, "licence_key", "string"), Read(56, "conn_type", "int32"),
         Read(66, "token", "string")>>

RequestRelay == Type(RequestRelayEncode, RequestRelayDecode)

RelayResponseEncode ==
    <<Field("socket_addr", 10, "bytes"), Field("uuid", 18, "string"),
         Field("relay_server", 26, "string"), Opt("id", 34, "string"), Opt("pk", 42, "bytes"),
         Field("refuse_reason", 50, "string"), Field("version", 58, "string"),
         Field("feedback", 72, "int32")>>

RelayResponseDecode ==
    <<Read(10, "socket_addr", "bytes"), Read(18, "uuid", "string"),
         Read(26, "relay_server", "string"), Read(34, "id", "string"), Read(42, "pk", "bytes"),
         Read(50, "refuse_reason", "string"), Read(58, "version", "string"),
         Read(72, "feedback", "int32")>>

RelayResponse == Type(RelayResponseEncode, RelayResponseDecode)

SoftwareUpdate ==
  Type(<<Field("url", 10, "string")>>,
       <<Read(10, "url", "string")>>)

FetchLocalAddr ==
  Type(<<Field("socket_addr", 10, "bytes"), Field("relay_server", 18, "string")>>,
       <<Read(10, "socket_addr", "bytes"), Read(18, "relay_server", "string")>>)

LocalAddr ==
  Type(<<Field("socket_addr", 10, "bytes"), Field("local_addr", 18, "bytes"),
         Field("relay_server", 26, "string"), Field("id", 34, "string"),
         Field("version", 42, "string")>>,
       <<Read(10, "socket_addr", "bytes"), Read(18, "local_addr", "bytes"),
         Read(26, "relay_server", "string"), Read(34, "id", "string"),
         Read(42, "version", "string")>>)

PeerDiscovery ==
  Type(<<Field("cmd", 10, "string"), Field("mac", 18, "string"), Field("id", 26, "string"),
         Field("username", 34, "string"), Field("hostname", 42, "string"),
         Field("platform", 50, "string"), Field("misc", 58, "string")>>,
       <<Read(10, "cmd", "string"), Read(18, "mac", "string"), Read(26, "id", "string"),
         Read(34, "username", "string"), Read(42, "hostname", "string"),
         Read(50, "platform", "string"), Read(58, "misc", "string")>>)

OnlineRequest ==
  Type(<<Field("id", 10, "string"), Rep("peers", 18, "string")>>,
       <<Read(10, "id", "string"), Push(18, "peers", "string")>>)

OnlineResponse ==
  Type(<<Field("states", 10, "bytes")>>,
       <<Read(10, "states", "bytes")>>)

KeyExchange ==
  Type(<<Rep("keys", 10, "bytes")>>,
       <<Push(10, "keys", "bytes")>>)

HealthCheck ==
  Type(<<Field("token", 10, "string")>>,
       <<Read(10, "token", "string")>>)

RendezvousMessageEncode ==
    <<Opt("register_peer", 50, "RegisterPeer"),
         Opt("register_peer_response", 58, "RegisterPeerResponse"),
         Opt("punch_hole_request", 66, "PunchHoleRequest"), Opt("punch_hole", 74, "PunchHole"),
         Opt("punch_hole_sent", 82, "PunchHoleSent"),
         Opt("punch_hole_response", 90, "PunchHoleResponse"),
         Opt("fetch_local_addr", 98, "FetchLocalAddr"), Opt("local_addr", 106, "LocalAddr"),
         Opt("configure_update", 114, "ConfigUpdate"), Opt("register_pk", 122, "RegisterPk"),
         Opt("register_pk_response", 130, "RegisterPkResponse"),
         Opt("software_update", 138, "SoftwareUpdate"),
         Opt("request_relay", 146, "RequestRelay"), Opt("relay_response", 154, "RelayResponse"),
         Opt("test_nat_request", 162, "TestNatRequest"),
         Opt("test_nat_response", 170, "TestNatResponse"),
         Opt("peer_discovery", 178, "PeerDiscovery"),
         Opt("online_request", 186, "OnlineRequest"),
         Opt("online_response", 194, "OnlineResponse"), Opt("key_exchange", 202, "KeyExchange"),
         Opt("hc", 210, "HealthCheck")>>

RendezvousMessageDecode ==
    <<Read(50, "register_peer", "RegisterPeer"),
         Read(58, "register_peer_response", "RegisterPeerResponse"),
         Read(66, "punch_hole_request", "PunchHoleRequest"),
         Read(74, "punch_hole", "PunchHole"), Read(82, "punch_hole_sent", "PunchHoleSent"),
         Read(90, "punch_hole_response", "PunchHoleResponse"),
         Read(98, "fetch_local_addr", "FetchLocalAddr"), Read(106, "local_addr", "LocalAddr"),
         Read(114, "configure_update", "ConfigUpdate"), Read(122, "register_pk", "RegisterPk"),
         Read(130, "register_pk_response", "RegisterPkResponse"),
         Read(138, "software_update", "SoftwareUpdate"),
         Read(146, "request_relay", "RequestRelay"),
         Read(154, "relay_response", "RelayResponse"),
         Read(162, "test_nat_request", "TestNatRequest"),
         Read(170, "test_nat_response", "TestNatResponse"),
         Read(178, "peer_discovery", "PeerDiscovery"),
         Read(186, "online_request", "OnlineRequest"),
         Read(194, "online_response", "OnlineResponse"),
         Read(202, "key_exchange", "KeyExchange"), Read(210, "hc", "HealthCheck")>>

RendezvousMessage == Type(RendezvousMessageEncode, RendezvousMessageDecode)

------------------------------------------------------------------------------------------------
(* Every message type and every enum of the file, by name.                                  *)
Types ==
  [RegisterPeer |-> RegisterPeer, RegisterPeerResponse |-> RegisterPeerResponse,
   PunchHoleRequest |-> PunchHoleRequest, PunchHole |-> PunchHole,
   TestNatRequest |-> TestNatRequest, TestNatResponse |-> TestNatResponse,
   PunchHoleSent |-> PunchHoleSent, RegisterPk |-> RegisterPk,
   RegisterPkResponse |-> RegisterPkResponse, PunchHoleResponse |-> PunchHoleResponse,
   ConfigUpdate |-> ConfigUpdate, RequestRelay |-> RequestRelay,
   RelayResponse |-> RelayResponse, SoftwareUpdate |-> SoftwareUpdate,
   FetchLocalAddr |-> FetchLocalAddr, LocalAddr |-> LocalAddr, PeerDiscovery |-> PeerDiscovery,
   OnlineRequest |-> OnlineRequest, OnlineResponse |-> OnlineResponse,
   KeyExchange |-> KeyExchange, HealthCheck |-> HealthCheck,
   RendezvousMessage |-> RendezvousMessage]

Enums ==
  [ConnType |-> ConnType, NatType |-> NatType,
   RegisterPkResponse_Result |-> RegisterPkResponse_Result,
   PunchHoleResponse_Failure |-> PunchHoleResponse_Failure]
================================================================================================
