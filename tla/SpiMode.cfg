\* The SPI mode that the comment of spi_interface.v names.
SPECIFICATION Spec
CONSTANTS
  CS_HI = 256
  SCK_START_DLY = 112
  SCK_LO = 3
  SCK_PERIOD = 7
  BYTE_INTERVAL = 1
  BYTE_SEND_NUM = 18
  Table <- SourceTable
PROPERTY OutputOnRisingEdge
