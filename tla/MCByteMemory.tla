---------------------------- MODULE MCByteMemory ----------------------------
\* Bytes of one bit.
EXTENDS ByteMemory

\* Text with its final zero, and buffers that are empty or fill the memory.
MCBuffers == {<<>>, <<1, 0>>, <<1, 1, 1, 0>>, <<0, 1, 0>>, [j \in 1 .. MemSize |-> 1]}
=============================================================================
