\* set_nodelay and the fcntl getters on one open Socket: O_NDELAY is O_NONBLOCK.
CONSTANTS
  Impls = {"Socket"}
  FdOpen = {TRUE}
  BoolOpts = {}
  Ttls = {}
  Seconds = {}
  BufSizes = {}
  CapNetAdmin = FALSE
SPECIFICATION Spec
PROPERTY OptionReportsSetting
