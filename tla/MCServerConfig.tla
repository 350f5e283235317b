--------------------------- MODULE MCServerConfig ---------------------------
(* ServerConfig on a small instance: bytes of two bits, addresses of one and *)
(* two of them, an int of four bits and a port of three.  The ranges are a *)
(* prefix that ends inside a byte and has host bits set, one that ends with  *)
(* a byte, a bare host, everything of a family, a prefix longer than the     *)
(* address, and texts that are no range.  The lines by hand hold comments,   *)
(* blanks where people put them, a key that is set twice, an account made in *)
(* two steps and one without a password.                                     *)
EXTENDS ServerConfig

Addr(f, bits) ==
    [family |-> f, bytes |-> [i \in 0 .. Bytes[f] - 1 |-> [j \in 0 .. ByteBits - 1 |-> bits[i * ByteBits + j + 1]]]]

MCBytes == [f \in Families |-> IF f = "AF_INET" THEN 1 ELSE 2]
MCCidr ==
    ("1011/3" :> [addr |-> Addr("AF_INET6", <<1, 0, 1, 1>>), bits |-> 3]) @@
    ("1000/2" :> [addr |-> Addr("AF_INET6", <<1, 0, 0, 0>>), bits |-> 2]) @@
    ("01" :> [addr |-> Addr("AF_INET", <<0, 1>>), bits |-> NoSlash]) @@
    ("::/0" :> [addr |-> Addr("AF_INET6", <<0, 0, 0, 0>>), bits |-> 0]) @@
    ("00/3" :> [addr |-> Addr("AF_INET", <<0, 0>>), bits |-> 3]) @@
    ("00/" :> [addr |-> Addr("AF_INET", <<0, 0>>), bits |-> Unreadable])

MCAtoms == STRING
MCNumerals == [n \in -8 .. 15 |-> ToString(n)]
MCRights == <<"AllAccess", "FileTransfer">>
MCDefault ==
    [k \in ToSet(Settings) |->
        CASE k = "port" -> 5
          [] k = "monitor" -> 0
          [] k = "max_sessions" -> 3
          [] k \in {"allow_subnets", "client_ca"} -> <<>>
          [] OTHER -> <<"default">>]
MCFirstRange == <<"1000/2">>

MCLines == {
    <<"#", " ", "max_sessions", "=", "1">>,
    <<"max_sessions", " ", "=", " ", "-1">>,
    <<"port", "=", "9">>,
    <<"client_ca", "=", "ca">>,
    <<"allow_subnets", "=", "01", ",", " ", "00/3", " ", "1011/3", " ">>,
    <<" ", "user", ".", "a", ".", "hash", "=", "h", "=", "1">>,
    <<"user", ".", "a", ".", "rights", "=", "AllAccess", "|", "FileTransfer">>,
    <<"user", ".", "b", ".", "rights", "=", "AllAccess", " ", "|", " ", "FileTransfer">>,
    <<"user", ".", "hash", "=", "h">>}

MCTyped == ("max_sessions" :> {<<>>, <<"12">>}) @@ ("bind" :> {<<" ", "host">>})
MCTypedNames == {<<"a">>, <<"a", ".", "b", " ">>, <<"a", "=">>}
MCTypedHashes == {<<"h", "=", "2">>}
MCTypedRanges == {<<"::/0">>, <<"00/", " ", "01">>}
=============================================================================
