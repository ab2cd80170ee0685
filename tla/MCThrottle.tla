------------------------------- MODULE MCThrottle -------------------------------
(* Throttle with the code's numbers (throttle.py:83-84): 20 messages a     *)
(* minute and a burst of 5, with a tick of TickSeconds.                    *)
EXTENDS Throttle

TickSeconds == 2
UnitsPerToken == 3                          \* the clock adds a unit a second
MCRate == (20 * UnitsPerToken * TickSeconds) \div 60
MCCapacity == 5 * UnitsPerToken
================================================================================
