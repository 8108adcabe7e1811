--------------------------- MODULE MCVideoSendStream ---------------------------
EXTENDS VideoSendStream

Layer(active, max) == [active |-> active, max |-> max]
Stream(active, min, target, max) ==
    [active |-> active, min |-> min, target |-> target, max |-> max]

\* One stream with a limit, and the same stream turned off.
SomeConfigs ==
    {[spatial |-> <<>>, simulcast |-> <<Layer(TRUE, 30)>>, max |-> 40],
     [spatial |-> <<>>, simulcast |-> <<Layer(FALSE, 30)>>, max |-> 40]}

\* Two simulcast streams, and the lower one with the global limit only.
SomeEncodings ==
    {[streams |-> <<Stream(TRUE, 4, 10, 12), Stream(TRUE, 10, 20, 25)>>, svc |-> FALSE,
      minTransmit |-> 0],
     [streams |-> <<Stream(TRUE, 4, 10, 0), Stream(FALSE, 10, 20, 25)>>, svc |-> FALSE,
      minTransmit |-> 3]}

SomeAllocations ==
    {[rate |-> 20, layers |-> {1}], [rate |-> 21, layers |-> {1}]}
===============================================================================
