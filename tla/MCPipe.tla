------------------------------- MODULE MCPipe -------------------------------
(* The instance of Pipe; PIPE_BUF and EINTR are small and keep their order. *)
EXTENDS Pipe

MCLengths == {1, 3}      \* less than PIPE_BUF, and more
=============================================================================
