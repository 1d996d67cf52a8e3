---------------------------- MODULE MCByteBuffer ----------------------------
(* Instances of byte_buffer for TLC.                                        *)
EXTENDS ByteBuffer

=============================================================================
