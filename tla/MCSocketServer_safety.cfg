\* Two clients and five slots: a queued job can find the other client, the
\* listening socket, the serial port or the pipe in its slot.  Four events: a
\* client's three chunks leave a rest in a read, the port's second does not fit
\* into what the first has left of recv_buf.
CONSTANTS
    Workers = {w1, w2}
    QueueMax = 2
    Clients = {c1, c2}
    Listen = Listen
    Uart = Uart
    Pipe = Pipe
    BufLen = 2
    MaxEvents = 4
    AllocFails = TRUE
SPECIFICATION Spec
SYMMETRY Symmetry
INVARIANTS TypeOK RightDescriptor EachChunkOnce
\* Clients that have nothing more to say leave everybody waiting.
CHECK_DEADLOCK FALSE
