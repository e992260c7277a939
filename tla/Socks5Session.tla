---------------------------- MODULE Socks5Session ----------------------------
(***************************************************************************)
(* A SOCKS5 session up to the relay, byte for byte: the client end as      *)
(* socks5.Dialer speaks it (internal/socks5/config.go) and the server end, *)
(* handleConn (internal/socks5/server.go), over the two directions of one  *)
(* TCP connection.                                                         *)
(*                                                                         *)
(* Each end writes a message with one call and reads with readExactly,     *)
(* which blocks: a read is a step once its bytes are there.  A length is   *)
(* written as one byte and a port as two, whatever their size.             *)
(***************************************************************************)
EXTENDS Socks5Bytes, SequencesExt

CONSTANTS
    UserNames, Passwords,   \* sequences of bytes
    HostLengths,    \* lengths of host names
    Ports,          \* ports asked for
    Commands,       \* the command sent: the Dialer's is 1
    PublicHosts,    \* kinds of PROXY_PUBLIC_HOST
    NoAuth, NoAddr

VARIABLES
    auth,       \* the server's cfg.Auth
    clientAuth, \* the client's
    allowUDP,   \* cfg.AllowUDP
    publicHost, \* cfg.PublicHost
    command, target,    \* what the client asks for
    toServer, toClient, \* bytes under way
    cpc, spc,   \* the next step of each end
    asked,      \* the address the server read
    bound       \* the address in the reply the client read

config == <<auth, clientAuth, allowUDP, publicHost, command, target>>
vars == <<config, toServer, toClient, cpc, spc, asked, bound>>

Auths == {NoAuth} \cup {<<user, pass>> : user \in UserNames, pass \in Passwords}

Targets ==
    {Address(kind, HostBytes(kind), p) : kind \in {"v4", "v6"}, p \in Ports}
        \cup {Address("name", Text(104, k), p) : k \in HostLengths, p \in Ports}

(* Every variable has its type. *)
TypeOK ==
    /\ {auth, clientAuth} \subseteq Auths
    /\ allowUDP \in BOOLEAN /\ publicHost \in PublicHosts
    /\ command \in Commands /\ target \in Targets
    /\ \A pipe \in {toServer, toClient} : \A i \in DOMAIN pipe : pipe[i] \in Byte
    /\ cpc \in {"greet", "method", "auth", "reply", "open", "failed"}
    /\ spc \in {"greet", "auth", "request", "dial", "relay", "associated", "refused", "closed"}

Init ==
    /\ auth \in Auths /\ clientAuth \in Auths
    /\ allowUDP \in BOOLEAN /\ publicHost \in PublicHosts
    /\ command \in Commands /\ target \in Targets
    /\ toServer = <<>> /\ toClient = <<>>
    /\ cpc = "greet" /\ spc = "greet" /\ asked = NoAddr /\ bound = NoAddr
-----------------------------------------------------------------------------
(* writeReply: a host that is no IP address is sent as 0.0.0.0. *)
writeReply(code, kind, bytes, port) ==
    <<5, code, 0>>
    \o (IF kind = "name" THEN Encoded("v4", Zero) ELSE Encoded(kind, bytes))
    \o Port16(port)
-----------------------------------------------------------------------------
(* The client: Dialer.DialContext *)

(* All of a request or reply is there to be read. *)
Complete(s) == Len(s) >= 5 /\ Len(s) >= HeaderSize(s)

ClientGoes(next, bytes) == cpc' = next /\ toServer' = toServer \o bytes

ClientGreet ==
    /\ cpc = "greet"
    /\ ClientGoes("method", <<5, 1, IF clientAuth = NoAuth THEN 0 ELSE 2>>)
    /\ UNCHANGED <<config, toClient, spc, asked, bound>>

Credentials(a) == <<1, Len(a[1]) % 256>> \o a[1] \o <<Len(a[2]) % 256>> \o a[2]

Request == <<5, command, 0>> \o Encoded(target.kind, target.bytes) \o Port16(target.port)

(* The two bytes of an answer of the server: a version and a method or status. *)
AnswerIs(version, status) == toClient[1] = version /\ toClient[2] = status

ClientMethod ==
    /\ cpc = "method" /\ Len(toClient) >= 2
    /\ toClient' = Drop(toClient, 2)
    /\ CASE AnswerIs(5, 0) /\ clientAuth = NoAuth -> ClientGoes("reply", Request)
         [] AnswerIs(5, 2) /\ clientAuth # NoAuth -> ClientGoes("auth", Credentials(clientAuth))
         [] OTHER -> ClientGoes("failed", <<>>)
    /\ UNCHANGED <<config, spc, asked, bound>>

ClientAuth ==
    /\ cpc = "auth" /\ Len(toClient) >= 2
    /\ toClient' = Drop(toClient, 2)
    /\ IF AnswerIs(1, 0) THEN ClientGoes("reply", Request) ELSE ClientGoes("failed", <<>>)
    /\ UNCHANGED <<config, spc, asked, bound>>

(* Mutation: the reply is taken to hold an IPv4 address. *)
ClientReplyShort ==
    /\ cpc = "reply" /\ Len(toClient) >= 10
    /\ IF AnswerIs(5, 0)
       THEN ClientGoes("open", <<>>) /\ toClient' = Drop(toClient, 10) /\ bound' = Decoded(toClient)
       ELSE ClientGoes("failed", <<>>) /\ UNCHANGED <<toClient, bound>>
    /\ UNCHANGED <<config, spc, asked>>

(* The reply, of which only version, code and length count to the Dialer. *)
ClientReply ==
    LET accepted == AnswerIs(5, 0) /\ toClient[4] \in KnownTypes IN
    /\ cpc = "reply" /\ Len(toClient) >= 4
    /\ \/ /\ ~accepted
          /\ ClientGoes("failed", <<>>) /\ UNCHANGED <<toClient, bound>>
       \/ /\ accepted /\ Complete(toClient)
          /\ ClientGoes("open", <<>>)
          /\ toClient' = Drop(toClient, HeaderSize(toClient))
          /\ bound' = Decoded(toClient)
    /\ UNCHANGED <<config, spc, asked>>

(* The deadline of the connection passes, or the server has closed it. *)
ClientFails ==
    /\ cpc \notin {"greet", "open", "failed"}
    /\ cpc' = "failed"
    /\ UNCHANGED <<config, toServer, toClient, spc, asked, bound>>

(* Whoever was given the connection closes it. *)
ClientCloses ==
    /\ cpc = "open"
    /\ cpc' = "failed"
    /\ UNCHANGED <<config, toServer, toClient, spc, asked, bound>>
-----------------------------------------------------------------------------
(* The server: handleConn *)

ServerGoes(next, bytes) == spc' = next /\ toClient' = toClient \o bytes

(* What is read first of each message, and the version it must start with. *)
ReadFirst == [greet |-> 2, auth |-> 1, request |-> 4]
VersionOf == [greet |-> 5, auth |-> 1, request |-> 5]

(* A message of another version, or a request with an address of no known type. *)
Misframed ==
    /\ spc \in DOMAIN ReadFirst /\ Len(toServer) >= ReadFirst[spc]
    /\ toServer[1] = VersionOf[spc] => spc = "request" /\ toServer[4] \notin KnownTypes

(* The connection is closed without an answer. *)
ServerRejects ==
    /\ Misframed
    /\ ServerGoes("closed", <<>>)
    /\ UNCHANGED <<config, toServer, cpc, asked, bound>>

(* negotiateAuth: the one method the configuration asks for must be offered. *)
ServerGreet ==
    /\ spc = "greet" /\ ~Misframed
    /\ Len(toServer) >= 2 /\ Len(toServer) >= 2 + toServer[2]
    /\ LET offered == {toServer[i] : i \in 3..(2 + toServer[2])}
           required == IF auth = NoAuth THEN 0 ELSE 2
       IN \/ required \notin offered /\ ServerGoes("closed", <<5, 255>>)
          \/ required \in offered /\ auth = NoAuth /\ ServerGoes("request", <<5, 0>>)
          \/ required \in offered /\ auth # NoAuth /\ ServerGoes("auth", <<5, 2>>)
    /\ toServer' = Drop(toServer, 2 + toServer[2])
    /\ UNCHANGED <<config, cpc, asked, bound>>

(* Mutation: only the user name is compared. *)
AcceptsName(user, pass) == user = auth[1]

Accepts(user, pass) == user = auth[1] /\ pass = auth[2]

(* verifyUsernamePassword. *)
ServerAuth ==
    LET user == toServer[2]
        pass == toServer[3 + user]
    IN
    /\ spc = "auth" /\ ~Misframed /\ Len(toServer) >= 2
    /\ Len(toServer) >= 3 + user /\ Len(toServer) >= 3 + user + pass
    /\ IF Accepts(SubSeq(toServer, 3, 2 + user), SubSeq(toServer, 4 + user, 3 + user + pass))
       THEN ServerGoes("request", <<1, 0>>)
       ELSE ServerGoes("refused", <<1, 1>>)
    /\ toServer' = Drop(toServer, 3 + user + pass)
    /\ UNCHANGED <<config, cpc, asked, bound>>

(* readRequest, and the command: UDP ASSOCIATE is answered with the public
   host, any command but these two with an error. *)
ServerRequest ==
    /\ spc = "request" /\ ~Misframed /\ Complete(toServer)
    /\ asked' = Decoded(toServer)
    /\ toServer' = Drop(toServer, HeaderSize(toServer))
    /\ CASE toServer[2] = 1 -> ServerGoes("dial", <<>>)
         [] toServer[2] = 3 /\ allowUDP ->
              ServerGoes("associated", writeReply(0, publicHost, HostBytes(publicHost), 1080))
         [] OTHER -> ServerGoes("closed", writeReply(7, "v4", Zero, 0))
    /\ UNCHANGED <<config, cpc, bound>>

(* handleConnect: the local address of the new connection is in the reply. *)
ServerDial ==
    /\ spc = "dial"
    /\ \/ \E kind \in {"v4", "v6"} : ServerGoes("relay", writeReply(0, kind, HostBytes(kind), 40000))
       \/ ServerGoes("closed", writeReply(1, "v4", Zero, 0))
    /\ UNCHANGED <<config, toServer, cpc, asked, bound>>

(* The client has closed the connection: a read that waits ends, and so do the
   relay and the association; after a refusal handleConn just returns. *)
ServerEnds ==
    /\ \/ spc = "refused"
       \/ cpc = "failed" /\ spc \notin {"closed", "dial"}
    /\ ServerGoes("closed", <<>>)
    /\ UNCHANGED <<config, toServer, cpc, asked, bound>>
-----------------------------------------------------------------------------
ClientStep == ClientGreet \/ ClientMethod \/ ClientAuth \/ ClientReply \/ ClientFails
ServerStep == ServerRejects \/ ServerGreet \/ ServerAuth \/ ServerRequest \/ ServerEnds

Next == ClientStep \/ ServerStep \/ ServerDial \/ ClientCloses

Spec == Init /\ [][Next]_vars

(* Both ends run and the client's deadline passes; a connection attempt of the
   server may hang, as net.Dialer is given no timeout. *)
FairSpec == Spec /\ WF_vars(ClientStep) /\ WF_vars(ServerStep)
-----------------------------------------------------------------------------
(* Both fit the byte that is their length. *)
Writable(credentials) == Len(credentials[1]) <= 255 /\ Len(credentials[2]) <= 255

(* What the client sends fits the fields it is sent in: its credentials, and
   the host and port of the target. *)
Fits ==
    /\ clientAuth # NoAuth => Writable(clientAuth)
    /\ Len(target.bytes) <= 255 /\ target.port <= 65535

(* The client of a UDP association is told the public host, if that is an
   address: a name is returned as 0.0.0.0. *)
PublicHostReturned ==
    publicHost # "name" => bound.kind = publicHost /\ bound.bytes = HostBytes(publicHost)

(* When DialContext returns a connection, and all the client sent fitted its
   fields, the server is connected to the very address that was asked for, or
   has the association of the client, and the stream starts with the first byte
   of the peer: both ends agree on where each message ended. *)
DialerAgrees ==
    cpc = "open" /\ Fits =>
        /\ asked = target
        /\ toServer = <<>> /\ toClient = <<>>
        /\ command = 1 => spc = "relay"
        /\ command = 3 => spc = "associated" /\ PublicHostReturned

(* Nothing is dialled or associated for a client but one that sent the
   credentials configured, byte for byte.  A client whose own do not fit their
   length bytes is let in if they begin, as sent, like those configured: what
   follows is then read as its request.  Credentials that do not fit their
   length bytes let nobody in where they are configured. *)
AuthBeforeRequest ==
    asked # NoAddr /\ auth # NoAuth =>
        /\ clientAuth # NoAuth /\ Writable(auth)
        /\ IsPrefix(Credentials(auth), Credentials(clientAuth))
        /\ Writable(clientAuth) => clientAuth = auth

(* The configured credentials are refused only if one of them is longer than
   its length byte can say. *)
RefusedForCause == spc = "refused" /\ clientAuth = auth => ~Writable(auth)

(* The configured credentials decide. *)
CredentialsDecide == AuthBeforeRequest /\ RefusedForCause

(* DialContext returns, even where the server hangs in its own dial. *)
DialReturns == <>(cpc \in {"open", "failed"})

(* A session whose client is gone ends, unless it hangs in a dial. *)
SessionEnds == cpc = "failed" ~> spc \in {"closed", "dial"}
=============================================================================
