\* Two goroutines dispatch while handlers and callbacks come and go.
CONSTANTS
  Fn = {f1, f2}
  WithAck = {f2}
  Dispatcher = {d1, d2}
  MaxAdds = 3
SPECIFICATION HandlersSpec
INVARIANTS CalledOnce
PROPERTIES DispatchServes
CHECK_DEADLOCK FALSE
