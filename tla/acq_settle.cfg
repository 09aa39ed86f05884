\* Recoveries of one device, and two whose sessions come and go, polled and streamed.
CONSTANTS
  Devices = {d1,d2}
  d1 = d1
  d2 = d2
  Setups <- Settling
SPECIFICATION SettleSpec
CHECK_DEADLOCK FALSE
PROPERTIES Recovers AttachServed
