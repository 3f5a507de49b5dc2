---------------------------- MODULE MCDsrcDriver ----------------------------
(* Instances of DsrcDriver for TLC. *)
EXTENDS DsrcDriver

(* Noise in front of a message, a length field of two bytes, a length of zero, one too long
   to be encoded in one piece, and packets with no room for a message. *)
MCPacket == {<<0, 0, 1, 7, 2, 9, 9>>, <<1, 7, 128, 1, 9>>, <<1, 7, 0, 0, 0>>, <<1, 7, 192, 1, 9>>,
             <<1, 7, 1>>, <<1, 7>>, <<>>}

=============================================================================
