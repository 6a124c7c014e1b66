------------------------------ MODULE ShareLink ------------------------------
(***************************************************************************)
(* The server's generate-sharelink command: a link for clients made of the *)
(* server's configuration, its certificate, and the public address it asks *)
(* of a DNS resolver.  A packet is a sequence of numbers: its header, the  *)
(* fixed part of a question and that of a record are one number for each   *)
(* 16-bit field that is read.                                              *)
(***************************************************************************)
EXTENDS Settings, FiniteSetsExt

CONSTANTS
  QueryId,     \* DNS_QUERY_ID
  NameSteps    \* 128: labels after which a name is given up, scaled down

HeaderLen == 3     \* id, qdcount, ancount
QuestionLen == 1
RecordLen == 3     \* type, class, rdlength
Pointer == 192

\* Slip: a pointer is taken for one byte.
skip_dns_name_pointer_short(packet, offset) ==
  LET from[n \in 0..NameSteps, at \in 0..Len(packet)] ==
        IF n = NameSteps \/ at >= Len(packet) THEN ERR
        ELSE IF packet[at + 1] >= Pointer THEN at + 1
        ELSE IF packet[at + 1] = 0 THEN at + 1
        ELSE IF at + 1 + packet[at + 1] > Len(packet) THEN ERR
        ELSE from[n + 1, at + 1 + packet[at + 1]]
  IN from[0, offset]

(* The offset behind a name that starts at an offset (from 0), or ERR.     *)
skip_dns_name(packet, offset) ==
  LET from[n \in 0..NameSteps, at \in 0..Len(packet)] ==
        IF n = NameSteps \/ at >= Len(packet) THEN ERR
        ELSE IF packet[at + 1] >= Pointer
        THEN IF at + 1 >= Len(packet) THEN ERR ELSE at + 2
        ELSE IF packet[at + 1] = 0 THEN at + 1
        ELSE IF at + 1 + packet[at + 1] > Len(packet) THEN ERR
        ELSE from[n + 1, at + 1 + packet[at + 1]]
  IN from[0, offset]

parse_dns_a_response(packet, expected_id) ==
  LET questions[n \in 0..packet[2]] ==
        IF n = 0 THEN HeaderLen
        ELSE LET at == IF questions[n - 1] = ERR THEN ERR ELSE skip_dns_name(packet, questions[n - 1])
             IN IF at = ERR THEN ERR
                ELSE IF at + QuestionLen > Len(packet) THEN ERR ELSE at + QuestionLen
      answers[n \in 0..packet[3], offset \in 0..Len(packet)] ==
        IF n = packet[3] THEN ERR
        ELSE LET at == skip_dns_name(packet, offset)
             IN IF at = ERR THEN ERR
                ELSE IF at + RecordLen > Len(packet) THEN ERR
                ELSE LET rdlength == packet[at + 3]
                         data == at + RecordLen
                     IN IF data + rdlength > Len(packet) THEN ERR
                        ELSE IF packet[at + 1] = 1 /\ packet[at + 2] = 1 /\ rdlength = 4
                        THEN SubSeq(packet, data + 1, data + 4)
                        ELSE answers[n + 1, data + rdlength]
  IN IF Len(packet) < HeaderLen THEN ERR
     ELSE IF packet[1] # expected_id THEN ERR
     ELSE IF questions[packet[2]] = ERR THEN ERR
     ELSE answers[0, questions[packet[2]]]

(* The resolver answers, or the connection fails at some point of it.      *)
lookup_public_ipv4_opendns(answer) == IF answer = NONE THEN ERR ELSE parse_dns_a_response(answer, QueryId)

(* Host and port of the listen address, which may be bracketed.            *)
split_listen_port(value) ==
  LET last(c) == Max({0} \cup {i \in 1..Len(value) : value[i] = c})
      end == SelectInSeq(value, LAMBDA c : c = "]")
      From(i) == SubSeq(value, i, Len(value))
  IN IF value # <<>> /\ value[1] = "["
     THEN IF end = 0 \/ end + 2 > Len(value) THEN ERR
          ELSE IF value[end + 1] # ":" THEN ERR ELSE From(end + 2)
     ELSE IF last(":") \in {0, Len(value)} THEN ERR ELSE From(last(":") + 1)

(* url: the port is a number here, and set_password escapes what would end *)
(* it, but not the percent sign.                                           *)
PortNumber == <<"p">> :> 443
set_password(text) ==
  FlattenSeq([i \in 1..Len(text) |->
    IF text[i] \in DOMAIN Escape \ {"%"} THEN <<"%">> \o Escape[text[i]] ELSE <<text[i]>>])

build_sharelink(uuid, password, public_ip, port, common_name, pinned_hash) ==
  IF port \notin DOMAIN PortNumber THEN ERR
  ELSE [scheme |-> "juicity", host |-> public_ip, port |-> PortNumber[port], id |-> "uuid",
        userinfo |-> <<uuid, ":">> \o set_password(password), payload |-> "json", fields |-> <<>>,
        query |-> "allow_insecure" :> "1" @@ "congestion_control" :> "bbr"
                    @@ "pinned_certchain_sha256" :> pinned_hash @@ "sni" :> common_name]

(* The first user of the map; the certificate's common name may be empty.  *)
generate_sharelink(raw, share) ==
  LET port == split_listen_port(share.listen)
      public_ip == lookup_public_ipv4_opendns(share.answer)
  IN IF validate_server(raw) = ERR \/ port = ERR \/ raw.users = {} THEN ERR
     ELSE IF {raw.certificate, raw.private_key} \cap {"absent", "bad"} # {} \/ public_ip = ERR THEN ERR
     ELSE build_sharelink("u", share.password, public_ip, port, share.common_name, "hash")

=============================================================================
