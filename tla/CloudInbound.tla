---------------------------- MODULE CloudInbound ----------------------------
(***************************************************************************)
(* Messages from the cloud: LWS_CALLBACK_CLIENT_RECEIVE in ws.c, on top of *)
(* the life of the connection in CloudLink.  libwebsockets hands over a    *)
(* frame piece by piece; the program collects the pieces in the static     *)
(* buffer receive_message and passes the buffer to process_inbound_message *)
(* when nothing of the frame remains.                                      *)
(*                                                                         *)
(* A byte of a frame is the pair of the frame's number and its position,   *)
(* and the buffer is the array it is in the code: a string ends at a Nul.  *)
(* A Nul stored beyond the array is lost: what it hits there is not        *)
(* modelled.                                                               *)
(***************************************************************************)
EXTENDS CloudLink

CONSTANTS
  BufferSize,   \* CLIENT_MSG_BUFFER: the bytes of receive_message, with the Nul
  RxSize,       \* the most libwebsockets hands over in one callback
  MaxLength,    \* bound: the length of a frame
  MaxFrames     \* bound: the frames the cloud sends

ASSUME InboundAssumption ==
  /\ BufferSize \in Nat \ {0}
  /\ RxSize \in Nat \ {0}
  /\ MaxLength \in Nat \ {0}
  /\ MaxFrames \in Nat

VARIABLES
  receive_message, \* the static buffer: the bytes collected, and Nuls
  frame,           \* external: number, length and bytes delivered of a frame
  handed,          \* history: what process_inbound_message was last called with
  completed        \* history: the frames that ended on this connection

inboundVars == <<receive_message, frame, handed, completed>>
allVars == <<vars, inboundVars>>

\* frame.got = frame.length between frames.
BetweenFrames == frame.got = frame.length

\* The bytes of frame number id from position i to position j.
Bytes(id, i, j) == [n \in 1 .. j - i + 1 |-> <<id, i + n - 1>>]

\* What memset fills the buffer with, no byte of a frame; the buffer.
Nul == <<0, 0>>
Places == 1 .. BufferSize
Cleared == [i \in Places |-> Nul]

\* The end of the string in b, a Nul or the end of the array.
Strlen(b) ==
  CHOOSE n \in 0 .. BufferSize :
    /\ \A i \in 1 .. n : b[i] # Nul
    /\ n = BufferSize \/ b[n + 1] = Nul

String(b) == [i \in 1 .. Strlen(b) |-> b[i]]

InboundInit ==
  /\ Init
  /\ receive_message = Cleared
  /\ frame = [id |-> 0, length |-> 0, got |-> 0]
  /\ handed = <<>>
  /\ completed = 0

\* The piece goes to the end of the string.  Its Nul is stored Len(piece) behind
\* the end of the new string, and what ends that is a Nul that was there.
Appended(piece) ==
  LET n == Strlen(receive_message)
      b == [i \in Places |-> IF i - n \in 1 .. Len(piece) THEN piece[i - n] ELSE receive_message[i]]
  IN [i \in Places |-> IF i = Strlen(b) + Len(piece) + 1 THEN Nul ELSE b[i]]

\* Mutant: no room is kept for the Nul.
CollectUnterminated(piece) ==
  IF Strlen(receive_message) + Len(piece) > BufferSize
    THEN receive_message
    ELSE Appended(piece)

\* The piece is appended, or dropped when it does not fit with its Nul.
Collect(piece) ==
  IF Strlen(receive_message) + Len(piece) + 1 > BufferSize
    THEN receive_message
    ELSE Appended(piece)

\* Mutant: only the string is ended, as with receive_message[0] = 0.
ReceiveEnded(f, k) ==
  LET message == Collect(Bytes(f.id, f.got + 1, f.got + k)) IN
    /\ frame' = [f EXCEPT !.got = @ + k]
    /\ IF f.got + k = f.length
         THEN /\ handed' = String(message)
              /\ receive_message' = [message EXCEPT ![1] = Nul]
              /\ completed' = completed + 1
         ELSE /\ receive_message' = message
              /\ UNCHANGED <<handed, completed>>

\* One callback: the next k bytes of frame f.
Receive(f, k) ==
  LET message == Collect(Bytes(f.id, f.got + 1, f.got + k)) IN
    /\ frame' = [f EXCEPT !.got = @ + k]
    /\ IF f.got + k = f.length
         THEN /\ handed' = String(message)
              /\ receive_message' = Cleared
              /\ completed' = completed + 1
         ELSE /\ receive_message' = message
              /\ UNCHANGED <<handed, completed>>

\* LWS_CALLBACK_CLIENT_RECEIVE
ClientReceive ==
  /\ wsi = "open"
  /\ \E k \in 1 .. RxSize :
       \/ /\ BetweenFrames
          /\ frame.id < MaxFrames
          /\ \E n \in k .. MaxLength :
               Receive([id |-> frame.id + 1, length |-> n, got |-> 0], k)
       \/ k <= frame.length - frame.got /\ Receive(frame, k)
  /\ UNCHANGED vars

\* A new connection starts between frames; receive_message is not touched.
EstablishInbound ==
  /\ ClientEstablished
  /\ frame' = [frame EXCEPT !.length = 0, !.got = 0]
  /\ completed' = 0
  /\ UNCHANGED <<receive_message, handed>>

\* The other steps of the connection leave the inbound side alone.
OtherLinkStep ==
  /\ \/ connect_client
     \/ ClientConnectionError
     \/ PeerGone
     \/ ClientClosed
     \/ ws_write_cloud
     \/ ClientWriteable
  /\ UNCHANGED inboundVars

InboundNext == ClientReceive \/ EstablishInbound \/ OtherLinkStep

InboundSpec == InboundInit /\ [][InboundNext]_allVars
-----------------------------------------------------------------------------
\* Types; the string always ends inside the buffer.
InboundTypeOK ==
  /\ TypeOK
  /\ receive_message \in [Places -> Nat \X Nat] /\ Strlen(receive_message) < BufferSize
  /\ handed \in Seq(Nat \X Nat) /\ Len(handed) < BufferSize
  /\ frame \in [id : Nat, length : Nat, got : Nat] /\ frame.got <= frame.length
  /\ completed \in Nat

\* The frame that just ended fits the buffer.
Fits == frame.length < BufferSize

\* A connection lost in the middle of a frame leaves its bytes behind, and a
\* frame too long for the buffer loses bytes; neither goes further than the
\* next frame that ends: from the second one of a connection on, every frame
\* that fits is handed over whole and alone.
OnlyFirstFrameTorn ==
  BetweenFrames /\ completed >= 2 /\ Fits => handed = Bytes(frame.id, 1, frame.length)
=============================================================================
