---------------------------- MODULE MCNodeTypes ----------------------------
EXTENDS NodeTypes

\* The types that hand their items on, emit by themselves or work with others
\* (the timers of a debounce with one target: with two there are too many states).
Queues  == {t \in BufferTypes : t.type \in {"fifo", "lifo"} /\ t.opt.size = 1}
Passing ==
  {t \in StreamTypes \cup SourceTypes \cup DeviceTypes \cup WebTypes \cup Queues :
     t.type = "debounce" => t.opt.graph = <<>>}

\* The types that keep items.
Keeping == BufferTypes
=============================================================================
